--------------------------- MODULE DeadlockProofs ---------------------------
(***************************************************************************)
(* The waitfor graph, the types of DeadlockGroup, and what a cycle finds,  *)
(* for any number of nodes, locks, cycles and failures.                    *)
(*                                                                         *)
(* The graph: the loop of passes keeps LoopInvariant, and when a pass      *)
(* removes nothing, what is left is the deadlocked transactions, all of    *)
(* them and no other.  On a finite set of transactions the loop does come  *)
(* to such a pass.                                                         *)
(*                                                                         *)
(* What a cycle finds: the steps that read locks or look for a deadlock    *)
(* keep Exact, as the others do (CycleProofs), so what the node that       *)
(* reduces the graph has is the locks that the cycle is about.             *)
(***************************************************************************)
EXTENDS CycleProofs, FiniteSetTheorems

-----------------------------------------------------------------------------
(* The waitfor graph *)

\* What holds of the transactions S left between two passes over the graph g: no knot has
\* lost a transaction.
LoopInvariant(g, S) == S \subseteq g.trans /\ \A K : Knot(g, K) => K \subseteq S

\* The graph that create_waitfor_graph builds has its edges among its transactions.
LEMMA GraphIsClosed ==
    ASSUME NEW lkbs, NEW x \in Transactions(lkbs)
    PROVE  create_waitfor_graph(lkbs).waitfor[x] \subseteq create_waitfor_graph(lkbs).trans
  BY DEF create_waitfor_graph, Transactions, Blockers, GrantedLocks, WaitingLocks

\* The loop starts with all transactions on the list.
LEMMA LoopStarts ==
    ASSUME NEW g
    PROVE  LoopInvariant(g, g.trans)
  BY DEF LoopInvariant, Knot

\* A pass removes nobody who is deadlocked: a transaction of a knot waits for another
\* one of it, which is still on the list.
LEMMA PassKeepsKnots ==
    ASSUME NEW g, NEW S, LoopInvariant(g, S)
    PROVE  LoopInvariant(g, reduce_waitfor_graph(g, S))
<1>1. ASSUME NEW K, Knot(g, K)
      PROVE  K \subseteq reduce_waitfor_graph(g, S)
  <2>1. K \subseteq S
    BY <1>1 DEF LoopInvariant
  <2>2. ASSUME NEW x \in K
        PROVE  x \in S /\ g.waitfor[x] \cap S # {}
    BY <1>1, <2>1 DEF Knot
  <2> QED
    BY <2>2 DEF reduce_waitfor_graph
<1>2. reduce_waitfor_graph(g, S) \subseteq g.trans
  BY DEF LoopInvariant, reduce_waitfor_graph
<1> QED
  BY <1>1, <1>2 DEF LoopInvariant

\* When a pass removes nothing, what is left is a knot.
LEMMA FixpointIsKnot ==
    ASSUME NEW g, NEW S, S \subseteq g.trans, reduce_waitfor_graph(g, S) = S
    PROVE  Knot(g, S)
  BY DEF Knot, reduce_waitfor_graph

\* reduce_waitfor_graph_loop is exact: when it stops, the transactions left are those
\* that are in a knot.  "If there are transactions remaining, then they are deadlocked."
THEOREM ReductionIsExact ==
    ASSUME NEW g, NEW S, LoopInvariant(g, S), reduce_waitfor_graph(g, S) = S
    PROVE  S = Knotted(g)
<1>1. S \subseteq g.trans
  BY DEF LoopInvariant
<1>2. S \subseteq Knotted(g)
  BY <1>1, FixpointIsKnot DEF Knotted
<1>3. Knotted(g) \subseteq S
  BY DEF Knotted, LoopInvariant
<1> QED
  BY <1>2, <1>3

-----------------------------------------------------------------------------
(* The graph that the code builds is the one of the locks *)

Settled(lkbs) == \A lkb \in lkbs : lkb.status \in {WAITING, GRANTED, CONVERT}

\* In a set of locks of which all the master copies are known, create_waitfor_graph makes
\* x wait for y exactly when a lock of y is in the way of a request of x.
LEMMA GraphIsRight ==
    ASSUME NEW lkbs, Settled(lkbs), NEW x \in Transactions(lkbs)
    PROVE  create_waitfor_graph(lkbs).waitfor[x] = {y \in Transactions(lkbs) : WaitsFor(lkbs, x, y)}
<1> DEFINE waitfor == UNION {Blockers(lkbs, w) : w \in WaitingLocks(lkbs, x)}
<1>1. create_waitfor_graph(lkbs).waitfor[x] = waitfor
  BY DEF create_waitfor_graph
<1>2. ASSUME NEW y \in waitfor
      PROVE  y \in Transactions(lkbs) /\ WaitsFor(lkbs, x, y)
  <2>1. PICK w \in WaitingLocks(lkbs, x) : y \in Blockers(lkbs, w)
    BY <1>2
  <2>2. PICK h \in GrantedLocks(lkbs, w.rsb) : h.xid = y /\ ~locks_compat(w, h) /\ h.xid # w.xid
    BY <2>1 DEF Blockers
  <2>3. w \in lkbs /\ w.xid = x /\ w.status \in {WAITING, CONVERT}
    BY <2>1 DEF WaitingLocks, Settled, WAITING, GRANTED, CONVERT
  <2>4. h \in lkbs /\ h.rsb = w.rsb /\ h.status \in {GRANTED, CONVERT}
    BY <2>2 DEF GrantedLocks, Settled, WAITING, GRANTED, CONVERT
  <2>5. ~dlm_modes_compat(h.grmode, w.rqmode)
    BY <2>2 DEF locks_compat
  <2> QED
    BY <2>2, <2>3, <2>4, <2>5 DEF WaitsFor, Transactions
<1>3. ASSUME NEW y \in Transactions(lkbs), WaitsFor(lkbs, x, y)
      PROVE  y \in waitfor
  <2>1. PICK w \in lkbs, h \in lkbs :
            /\ w.xid = x /\ h.xid = y /\ x # y /\ w.rsb = h.rsb
            /\ w.status \in {WAITING, CONVERT} /\ h.status \in {GRANTED, CONVERT}
            /\ ~dlm_modes_compat(h.grmode, w.rqmode)
    BY <1>3 DEF WaitsFor
  <2>2. w \in WaitingLocks(lkbs, x)
    BY <2>1 DEF WaitingLocks, WAITING, GRANTED, CONVERT
  <2>3. h \in GrantedLocks(lkbs, w.rsb)
    BY <2>1 DEF GrantedLocks, WAITING, GRANTED, CONVERT
  <2>4. y \in Blockers(lkbs, w)
    BY <2>1, <2>3 DEF Blockers, locks_compat
  <2> QED
    BY <2>2, <2>4
<1>4. waitfor = {y \in Transactions(lkbs) : WaitsFor(lkbs, x, y)}
  BY <1>2, <1>3
<1> QED
  BY <1>1, <1>4

\* find_deadlock finds what there is: when the loop stops on the graph of a settled set of
\* locks, the transactions left are the deadlocked ones.  No order of the passes, no number
\* of transactions and no mix of modes makes it miss one or report one too many.
THEOREM FindsExactlyTheDeadlocked ==
    ASSUME NEW lkbs, Settled(lkbs), NEW S,
           LoopInvariant(create_waitfor_graph(lkbs), S),
           reduce_waitfor_graph(create_waitfor_graph(lkbs), S) = S
    PROVE  S = Deadlocked(lkbs)
<1> DEFINE g == create_waitfor_graph(lkbs)
           T == Transactions(lkbs)
           h == [trans |-> T, waitfor |-> [x \in T |-> {y \in T : WaitsFor(lkbs, x, y)}]]
<1>1. g.trans = T
  BY DEF create_waitfor_graph
<1>2. \A x \in T : g.waitfor[x] = h.waitfor[x]
  BY GraphIsRight
<1>3. \A K \in SUBSET T : Knot(g, K) <=> Knot(h, K)
  BY <1>1, <1>2, ZenonT(30) DEF Knot
<1>4. Deadlocked(lkbs) = Knotted(h)
  BY ZenonT(30) DEF Deadlocked, Knotted
<1>5. Knotted(g) = Knotted(h)
  BY <1>1, <1>3, ZenonT(30) DEF Knotted
<1>6. S = Knotted(g)
  BY ReductionIsExact
<1> QED
  BY <1>4, <1>5, <1>6

-----------------------------------------------------------------------------
(* The loop comes to an end *)

\* Everybody of S who is in a knot that lies in S: what the loop leaves when it starts
\* with S
KnottedIn(g, S) == UNION {K \in SUBSET S : Knot(g, K)}

\* A pass changes nothing in that.
LEMMA PassKeepsKnotted ==
    ASSUME NEW g, NEW S \in SUBSET g.trans
    PROVE  /\ reduce_waitfor_graph(g, S) \in SUBSET S
           /\ KnottedIn(g, reduce_waitfor_graph(g, S)) = KnottedIn(g, S)
           /\ reduce_waitfor_graph(g, S) = S => KnottedIn(g, S) = S
<1> DEFINE R == reduce_waitfor_graph(g, S)
<1>1. R \in SUBSET S
  BY DEF reduce_waitfor_graph
<1>2. ASSUME NEW K \in SUBSET S, Knot(g, K)
      PROVE  K \in SUBSET R
  BY <1>2 DEF Knot, reduce_waitfor_graph
<1>3. KnottedIn(g, R) = KnottedIn(g, S)
  BY <1>1, <1>2 DEF KnottedIn
<1>4. R = S => KnottedIn(g, S) = S
  BY FixpointIsKnot DEF KnottedIn
<1> QED
  BY <1>1, <1>3, <1>4

\* Whatever function solves the loop's equation, it gives that: a smallest set for which
\* it does not would have a smaller one, the result of a pass.
LEMMA LoopUnique ==
    ASSUME NEW g, IsFiniteSet(g.trans), NEW f,
           f = [S \in SUBSET g.trans |->
                   IF reduce_waitfor_graph(g, S) = S THEN S ELSE f[reduce_waitfor_graph(g, S)]],
           NEW T \in SUBSET g.trans
    PROVE  f[T] = KnottedIn(g, T)
<1> DEFINE Bad == {S \in SUBSET g.trans : f[S] # KnottedIn(g, S)}
           R == StrictSubsetOrdering(g.trans)
           Pass(S) == reduce_waitfor_graph(g, S)
<1>1. IsWellFoundedOn(R, FiniteSubsetsOf(g.trans))
  BY FS_StrictSubsetOrderingWellFounded
<1>2. Bad \subseteq FiniteSubsetsOf(g.trans)
  BY FS_Subset DEF FiniteSubsetsOf
<1>3. ASSUME Bad # {} PROVE FALSE
  <2>1. PICK S \in Bad : \A U \in Bad : ~(<<U, S>> \in R)
    <3> HIDE DEF Bad, R
    <3> QED
      BY <1>1, <1>2, <1>3, WFMin
  <2>2. S \in SUBSET g.trans /\ f[S] # KnottedIn(g, S)
    BY <2>1
  <2>3. /\ Pass(S) \in SUBSET S /\ KnottedIn(g, Pass(S)) = KnottedIn(g, S)
        /\ Pass(S) = S => KnottedIn(g, S) = S
    BY <2>2, PassKeepsKnotted
  <2>4. f[S] = IF Pass(S) = S THEN S ELSE f[Pass(S)]
    BY <2>2, Zenon
  <2>5. Pass(S) # S /\ f[S] = f[Pass(S)]
    BY <2>2, <2>3, <2>4
  <2>6. <<Pass(S), S>> \in R
    BY <2>2, <2>3, <2>5 DEF StrictSubsetOrdering
  <2>7. Pass(S) \in SUBSET g.trans /\ f[Pass(S)] = KnottedIn(g, Pass(S))
    BY <2>1, <2>2, <2>3, <2>6, ZenonT(30)
  <2> QED
    BY <2>2, <2>3, <2>5, <2>7
<1> QED
  BY <1>3

\* reduce_waitfor_graph_loop comes to an end on any finite list of transactions, and
\* leaves of the graph those that are in a knot.
THEOREM LoopResult ==
    ASSUME NEW g, IsFiniteSet(g.trans)
    PROVE  reduce_waitfor_graph_loop(g) = Left(g, Knotted(g))
<1> DEFINE loop[S \in SUBSET g.trans] ==
               IF reduce_waitfor_graph(g, S) = S THEN S ELSE loop[reduce_waitfor_graph(g, S)]
           solution == [S \in SUBSET g.trans |-> KnottedIn(g, S)]
<1>1. reduce_waitfor_graph_loop(g) = Left(g, loop[g.trans])
  BY Zenon DEF reduce_waitfor_graph_loop
<1>2. solution = [S \in SUBSET g.trans |->
                     IF reduce_waitfor_graph(g, S) = S THEN S
                     ELSE solution[reduce_waitfor_graph(g, S)]]
  <2>1. ASSUME NEW S \in SUBSET g.trans
        PROVE  solution[S] = IF reduce_waitfor_graph(g, S) = S THEN S
                             ELSE solution[reduce_waitfor_graph(g, S)]
    BY PassKeepsKnotted
  <2> QED
    BY <2>1, ZenonT(30)
<1>3. loop = [S \in SUBSET g.trans |->
                 IF reduce_waitfor_graph(g, S) = S THEN S ELSE loop[reduce_waitfor_graph(g, S)]]
  <2> HIDE DEF solution
  <2> QED
    BY <1>2, Zenon
<1> HIDE DEF loop, solution
<1>4. loop[g.trans] = KnottedIn(g, g.trans)
  BY <1>3, LoopUnique
<1>5. KnottedIn(g, g.trans) = Knotted(g)
  BY DEF KnottedIn, Knotted, Knot
<1> QED
  BY <1>1, <1>4, <1>5

\* A finite set of locks has finitely many transactions.
LEMMA FiniteTransactions ==
    ASSUME NEW lkbs, IsFiniteSet(lkbs)
    PROVE  IsFiniteSet(Transactions(lkbs))
<1> DEFINE f == [lkb \in lkbs |-> lkb.xid]
<1>1. f \in Surjection(lkbs, Transactions(lkbs))
  BY DEF Transactions, Surjection
<1> HIDE DEF f
<1> QED
  BY <1>1, FS_Surjection

\* find_deadlock's graph after the loop: on any finite set of locks of which the master
\* copies are known, the transactions left are the deadlocked ones.
THEOREM LoopFindsTheDeadlocked ==
    ASSUME NEW lkbs, IsFiniteSet(lkbs), Settled(lkbs)
    PROVE  reduce_waitfor_graph_loop(create_waitfor_graph(lkbs)).trans = Deadlocked(lkbs)
<1> DEFINE g == create_waitfor_graph(lkbs)
<1>1. g.trans = Transactions(lkbs)
  BY DEF create_waitfor_graph
<1>2. IsFiniteSet(g.trans)
  BY <1>1, FiniteTransactions
<1> HIDE DEF g
<1>3. reduce_waitfor_graph_loop(g).trans = Knotted(g)
  BY <1>2, LoopResult DEF Left
<1>4. LoopInvariant(g, Knotted(g)) /\ reduce_waitfor_graph(g, Knotted(g)) = Knotted(g)
  BY DEF LoopInvariant, Knotted, Knot, reduce_waitfor_graph
<1>5. Knotted(g) = Deadlocked(lkbs)
  BY <1>4, FindsExactlyTheDeadlocked DEF g
<1> QED
  BY <1>3, <1>5 DEF g

\* A leaf that names no prover is left to Zenon.
USE ZenonT(30)

-----------------------------------------------------------------------------
(* The types *)

\* What is left on the list after a reduction was on it before.
LEMMA LoopShrinks ==
    ASSUME NEW g, IsFiniteSet(g.trans)
    PROVE  reduce_waitfor_graph_loop(g).trans \subseteq g.trans
  <1>1. reduce_waitfor_graph_loop(g) = Left(g, Knotted(g))
    BY LoopResult
  <1>2. Left(g, Knotted(g)).trans = Knotted(g)
    BY DEF Left
  <1>3. Knotted(g) \subseteq g.trans
    BY DEF Knotted
  <1> QED BY <1>1, <1>2, <1>3

LEMMA XidsFinite ==
    ASSUME NEW S \in SUBSET (Xids \cup {0})
    PROVE  IsFiniteSet(S)
  BY DeadlockAssumption, FS_AddElement, FS_Subset

LEMMA GraphType ==
    ASSUME NEW lkbs \in SUBSET LockType
    PROVE  /\ create_waitfor_graph(lkbs).trans = Transactions(lkbs)
           /\ create_waitfor_graph(lkbs).trans \in SUBSET (Xids \cup {0})
  <1>1. create_waitfor_graph(lkbs).trans = Transactions(lkbs)
    BY DEF create_waitfor_graph
  <1>2. \A l \in LockType : l.xid \in Xids \cup {0}
    BY DEF LockType
  <1>3. Transactions(lkbs) \in SUBSET (Xids \cup {0})
    BY <1>2 DEF Transactions
  <1> QED BY <1>1, <1>3

\* What find_deadlock keeps on the list is transactions.
LEMMA ListedType == Listed \subseteq Xids \cup {0}
  <1> SUFFICES ASSUME NEW lkbs \in SUBSET LockType
               PROVE  Kept(lkbs, reduce_waitfor_graph_loop(create_waitfor_graph(lkbs))) \subseteq Xids \cup {0}
    BY DEF Listed
  <1> DEFINE h == create_waitfor_graph(lkbs)
             g == reduce_waitfor_graph_loop(h)
  <1>1. h.trans \in SUBSET (Xids \cup {0})
    BY GraphType
  <1>2. g.trans \in SUBSET (Xids \cup {0}) /\ \E T : g = Left(h, T)
    <2> HIDE DEF h
    <2> QED BY <1>1, LoopShrinks, LoopResult, XidsFinite
  <1> HIDE DEF g
  <1>3. ASSUME NEW x, NEW rem
        PROVE  cancel_trans(g, x, rem).trans \in SUBSET (Xids \cup {0})
    <2> DEFINE w == g.waitfor[x] \cap rem
               k == [g EXCEPT !.waitfor[x] = @ \ rem,
                              !.others = [y \in g.trans |-> IF y \in w THEN @[y] - 1 ELSE @[y]]]
    <2>1. k.trans = g.trans
      BY <1>2 DEF Left
    <2>2. cancel_trans(g, x, rem) = reduce_waitfor_graph_loop(k)
      BY DEF cancel_trans
    <2> HIDE DEF k
    <2> QED BY <1>2, <2>1, <2>2, LoopShrinks, XidsFinite
  <1>4. Kept(lkbs, g) \subseteq Xids \cup {0}
    BY <1>3, SMT DEF Kept
  <1> QED BY <1>4 DEF g

\* The state has its types, whatever the nodes, the transactions and the failures; and a node
\* has flags only while it is on the list: no crash of another node leaves one behind.
THEOREM DeadlockTypes == Spec => []TypeOK
  <1>1. Types => TypeOK
    <2> SUFFICES ASSUME Types PROVE TypeOK
      OBVIOUS
    <2>1. locks \subseteq LockType /\ master \in [Rsbs -> Nodes]
      BY DEF Types, Known
    <2>2. ASSUME NEW n \in Nodes
          PROVE  /\ dl[n].lkbs \subseteq LockType
                 /\ [dl[n] EXCEPT !.lkbs = {}] \in DaemonType
                 /\ dl[n].in_cycle \cup dl[n].ready \subseteq dl[n].nodes
                 /\ \A i \in DOMAIN inbox[n] : inbox[n][i] \in Message
                 /\ ckpt[n] \subseteq LockType
      <3>1. dl[n] \in Daemons /\ inbox[n] \in Seq(Message) /\ ckpt[n] \subseteq LockType
        BY DEF Types
      <3>2. \A i \in DOMAIN inbox[n] : inbox[n][i] \in Message
        BY <3>1, SMT
      <3>3. [dl[n] EXCEPT !.lkbs = {}] \in DaemonType
        BY <3>1, ListedType DEF Daemons, DaemonRecord, DaemonType
      <3> QED BY <3>1, <3>2, <3>3 DEF Daemons, DaemonRecord
    <2> QED BY <2>1, <2>2 DEF TypeOK
  <1> QED BY <1>1, TypesInit, TypesNext, PTL DEF Spec

-----------------------------------------------------------------------------
(* What find_deadlock finds *)

\* find_deadlock finds the transactions that wait for each other in the locks that it has.
LEMMA FindsKnotted ==
    ASSUME NEW n \in Nodes, NEW d \in Daemons, d.transactions = {}, NEW r \in find_deadlock(n, d)
    PROVE  r.found = Knotted(create_waitfor_graph(d.lkbs))
  <1> DEFINE h == create_waitfor_graph(d.lkbs)
             g == reduce_waitfor_graph_loop(h)
  <1>1. h.trans = Transactions(d.lkbs) /\ h.trans \in SUBSET (Xids \cup {0})
    <2>1. d.lkbs \in SUBSET LockType
      BY DEF Daemons, DaemonRecord
    <2> QED BY <2>1, GraphType
  <1>2. g.trans = Knotted(h)
    <2> HIDE DEF h
    <2>1. g = Left(h, Knotted(h))
      BY <1>1, LoopResult, XidsFinite
    <2>2. Left(h, Knotted(h)).trans = Knotted(h)
      BY DEF Left
    <2> QED BY <2>1, <2>2
  <1>3. CASE d.lkbs = {}
    <2>1. r.found = {}
      BY <1>3, SMT DEF find_deadlock, NothingFound
    <2>2. h.trans = {}
      BY <1>1, <1>3 DEF Transactions
    <2>3. Knotted(h) = {}
      BY <2>2 DEF Knotted
    <2> QED BY <2>1, <2>3
  <1>4. CASE d.lkbs # {}
    <2>1. r \in IF g.trans = {} THEN NothingFound(d) ELSE Cancelled(n, d, g)
      BY <1>4 DEF find_deadlock
    <2> HIDE DEF g
    <2>2. CASE g.trans = {}
      <3>1. r.found = {}
        BY <2>1, <2>2, SMT DEF NothingFound
      <3> QED BY <1>2, <2>2, <3>1
    <2>3. CASE g.trans # {}
      <3> DEFINE Result(x, rem, cancels) == [d |-> [d EXCEPT !.transactions = cancel_trans(g, x, rem).trans],
                                             out |-> cancels \o <<CycleEndMsg>>, found |-> g.trans]
                 Results(x) == {Result(x, rem, cancels) : rem \in Remembered(d.lkbs, x),
                                                          cancels \in CancelMessages(n, d, x)}
      <3>1. Cancelled(n, d, g) = UNION {Results(x) : x \in Cancellable(g)}
        BY SMT DEF Cancelled
      <3> HIDE DEF Results
      <3>2. PICK x \in Cancellable(g) : r \in Results(x)
        BY <2>1, <2>3, <3>1
      <3> HIDE DEF Result
      <3>3. PICK rem \in Remembered(d.lkbs, x), cancels \in CancelMessages(n, d, x) : r = Result(x, rem, cancels)
        BY <3>2, SMT DEF Results
      <3>4. r.found = g.trans
        BY <3>3, SMT DEF Result
      <3> QED BY <1>2, <3>4
    <2> QED BY <2>2, <2>3
  <1> QED BY <1>3, <1>4

LEMMA RunFinds ==
    ASSUME NEW n \in Nodes, NEW d \in Daemons, NEW r \in run_deadlock(n, d)
    PROVE  /\ r.out = <<>> => r.d.transactions = d.transactions
           /\ r.out # <<>> /\ d.transactions = {} => r.found = Knotted(create_waitfor_graph(d.lkbs))
  <1> DEFINE cycle == d.nodes \cap d.in_cycle
             e == [d EXCEPT !.all_ready = TRUE, !.low = Lowest(cycle)]
  <1>1. CASE r \in Quiet(d)
    BY <1>1, QuietResult
  <1>2. e \in Daemons /\ e.lkbs = d.lkbs /\ e.transactions = d.transactions
    <2>1. cycle \in SUBSET Nodes
      BY DEF Daemons, DaemonRecord
    <2>2. Lowest(cycle) \in Nodes \cup {NoNode}
      BY <2>1, LowestType
    <2>3. e \in DaemonRecord /\ e.lkbs = d.lkbs /\ e.transactions = d.transactions
      BY <2>2 DEF Daemons, DaemonRecord
    <2>4. e.in_cycle = d.in_cycle /\ e.ready = d.ready /\ e.nodes = d.nodes
      BY DEF Daemons, DaemonRecord
    <2> QED BY <2>3, <2>4 DEF Daemons
  <1>3. r \in Quiet(d) \/ r \in Quiet(e) \/ r \in find_deadlock(n, e)
    BY DEF run_deadlock
  <1> HIDE DEF e
  <1>4. CASE r \in Quiet(e)
    BY <1>2, <1>4, QuietResult
  <1>5. CASE r \in find_deadlock(n, e)
    <2>1. r.out # <<>>
      BY <1>2, <1>5, FindDeadlock, EndingSends
    <2>2. d.transactions = {} => r.found = Knotted(create_waitfor_graph(e.lkbs))
      BY <1>2, <1>5, FindsKnotted
    <2> QED BY <1>2, <2>1, <2>2
  <1> QED BY <1>1, <1>3, <1>4, <1>5

-----------------------------------------------------------------------------
(* What a cycle finds: the steps that Exact depends on *)

\* The others' part of a step in which only n's daemon does something
LEMMA OthersExact ==
    ASSUME Types, Exact, NEW n \in Nodes, master' = master, gone' = gone, group' = group,
           \A m \in Nodes \ {n} : /\ dl'[m] = dl[m] /\ ckpt'[m] = ckpt[m]
                                  /\ begun'[m] = begun[m] /\ (begun[m] # 0 => Fewer(begun[m]))
                                  /\ m \in unread' <=> m \in unread
                                  /\ HasEnd(inbox[m]) => HasEnd(inbox'[m]),
           Kern', Hist', Snapshot(n)', n \in group => Gathered(n)', missed' = missed, false' = false
    PROVE  Exact'
  <1>1. ASSUME NEW m \in Nodes \ {n}
        PROVE  Snapshot(m)'
    <2>1. /\ dl'[m] = dl[m] /\ ckpt'[m] = ckpt[m] /\ begun'[m] = begun[m]
          /\ (begun[m] # 0 => Fewer(begun[m])) /\ (m \in unread' <=> m \in unread) /\ Snapshot(m)
      BY DEF Exact
    <2> QED BY <2>1, SnapshotStays
  <1>2. ASSUME NEW m \in group \ {n}
        PROVE  Gathered(m)'
    <2>1. m \in Nodes \ {n}
      BY DEF Types
    <2>2. /\ dl'[m] = dl[m] /\ begun'[m] = begun[m] /\ (HasEnd(inbox[m]) => HasEnd(inbox'[m]))
          /\ (begun[m] # 0 => Fewer(begun[m])) /\ (m \in unread' <=> m \in unread) /\ Gathered(m)
      BY <2>1 DEF Exact
    <2> QED BY <2>2, GatheredStays
  <1> QED BY <1>1, <1>2 DEF Exact

LEMMA StartExact ==
    ASSUME Types, Common, Exact, NEW n \in Nodes, CycleStart(n)
    PROVE  Exact'
  <1> DEFINE F == Debugfs(n, master, locks)
             k == Head(inbox[n]).no
             out == <<[type |-> "ready", from |-> n]>>
             d == receive_cycle_start(n, dl[n], F)
  <1>1. /\ n \in group /\ inbox[n] # <<>> /\ Head(inbox[n]).type = "start" /\ ~dl[n].running
        /\ dl' = [dl EXCEPT ![n] = d] /\ ckpt' = [ckpt EXCEPT ![n] = d.lkbs]
        /\ inbox' = Multicast([inbox EXCEPT ![n] = Tail(@)], out)
        /\ Notes(n, k) /\ unread' = unread \ {n}
        /\ UNCHANGED <<group, locks, master, gone, missed, false>>
    BY DEF CycleStart, Receives, Starts, kernelVars
  <1>2. dl[n].lkbs = {} /\ dl[n].ready = {} /\ dl[n].transactions = {}
    BY <1>1, CommonClean DEF CleanBetweenCycles
  <1>3. d.running = TRUE /\ d.lkbs = F /\ d.ready = {} /\ d.transactions = {}
    <2>1. dl[n] \in Daemons
      BY DEF Types
    <2>2. /\ d.running = TRUE /\ d.lkbs = AddLocks(dl[n].lkbs, F) /\ d.ready = dl[n].ready
          /\ d.transactions = dl[n].transactions
      BY <2>1 DEF receive_cycle_start, Daemons, DaemonRecord
    <2> QED BY <1>2, <2>2, AddToNothing
  <1> HIDE DEF d
  <1>4. k \in Cycles
    BY <1>1, HeadType, MessageFields
  <1> HIDE DEF k
  <1>5. /\ Hist' /\ begun'[n] = k
        /\ \A m \in Nodes \ {n} : begun'[m] = begun[m] /\ (begun[m] # 0 => Fewer(begun[m]))
    BY <1>1, <1>4, NotesKeep DEF Exact
  <1>6. Kern'
    BY <1>1, SameKernel DEF Exact
  <1>7. Copies(F, due'[k], master, {n}, quiet'[k])
    <2>1. due'[k] \in SUBSET locks /\ (quiet'[k] => due'[k] = locks)
      BY <1>1, <1>4, <1>5 DEF Hist
    <2>2. LockTable(locks)
      BY DEF Exact, Kern
    <2> QED BY <2>1, <2>2, CopiesRead
  <1>8. dl'[n] = d /\ ckpt'[n] = F /\ n \notin unread'
    BY <1>1, <1>3 DEF Types
  <1>9. Wrote(n)'
    BY <1>3, <1>8 DEF Wrote
  <1>10. Snapshot(n)'
    BY <1>1, <1>5, <1>7, <1>8, <1>9 DEF Snapshot, Reader
  <1>11. Gathered(n)'
    <2>1. {} \cup {n} = {n}
      OBVIOUS
    <2> QED BY <1>1, <1>3, <1>5, <1>7, <1>8, <2>1 DEF Gathered
  <1>12. ASSUME NEW m \in Nodes \ {n}
         PROVE  /\ dl'[m] = dl[m] /\ ckpt'[m] = ckpt[m] /\ (m \in unread' <=> m \in unread)
                /\ (HasEnd(inbox[m]) => HasEnd(inbox'[m]))
    <2>1. [inbox EXCEPT ![n] = Tail(@)] \in [Nodes -> Seq(Message)] /\ out \in Seq(Message)
      <3>1. Tail(inbox[n]) \in Seq(Message)
        BY <1>1, SMT DEF Types
      <3>2. [type |-> "ready", from |-> n] \in Message
        BY DEF Message
      <3>3. out \in Seq(Message)
        BY <3>2, OneCloses DEF Closes
      <3> QED BY <3>1, <3>3 DEF Types
    <2> HIDE DEF out
    <2>2. inbox'[m] = IF m \in group THEN inbox[m] \o out ELSE inbox[m]
      BY <1>1, <2>1, MulticastForm DEF Types
    <2>3. inbox[m] \in Seq(Message)
      BY DEF Types
    <2>4. HasEnd(inbox[m]) => HasEnd(inbox'[m])
      BY <2>1, <2>2, <2>3, HasEndMore
    <2> QED BY <1>1, <2>4 DEF Types
  <1> QED BY <1>1, <1>5, <1>6, <1>10, <1>11, <1>12, OthersExact

LEMMA UnreadableExact ==
    ASSUME Types, Common, Exact, NEW n \in Nodes, CycleStartUnreadable(n)
    PROVE  Exact'
  <1> DEFINE k == Head(inbox[n]).no
             d == receive_cycle_start_Unreadable(dl[n])
  <1>1. /\ n \in group /\ inbox[n] # <<>> /\ Head(inbox[n]).type = "start" /\ ~dl[n].running
        /\ dl' = [dl EXCEPT ![n] = d] /\ ckpt' = ckpt
        /\ inbox' = [inbox EXCEPT ![n] = Tail(@)]
        /\ Notes(n, k) /\ unread' = unread \cup {n}
        /\ UNCHANGED <<group, locks, master, gone, missed, false>>
    BY DEF CycleStartUnreadable, Receives, Starts, kernelVars
  <1>2. dl[n].transactions = {}
    BY <1>1, CommonClean DEF CleanBetweenCycles
  <1>3. d.transactions = {}
    <2>1. dl[n] \in Daemons
      BY DEF Types
    <2>2. d.transactions = dl[n].transactions
      BY <2>1 DEF receive_cycle_start_Unreadable, Daemons, DaemonRecord
    <2> QED BY <1>2, <2>2
  <1> HIDE DEF d
  <1>4. k \in Cycles
    BY <1>1, HeadType, MessageFields
  <1> HIDE DEF k
  <1>5. /\ Hist' /\ begun'[n] = k
        /\ \A m \in Nodes \ {n} : begun'[m] = begun[m] /\ (begun[m] # 0 => Fewer(begun[m]))
    BY <1>1, <1>4, NotesKeep DEF Exact
  <1>6. Kern'
    BY <1>1, SameKernel DEF Exact
  <1>7. ckpt'[n] = {}
    BY <1>1 DEF Exact, Kern, Snapshot, Wrote
  <1>8. ~Wrote(n)'
    BY <1>1 DEF Wrote
  <1>9. Snapshot(n)'
    BY <1>7, <1>8, CopiesNone DEF Snapshot, Reader
  <1>10. Gathered(n)'
    <2>1. dl'[n] = d
      BY <1>1 DEF Types
    <2> QED BY <1>3, <1>8, <2>1 DEF Gathered
  <1>11. \A m \in Nodes \ {n} : /\ dl'[m] = dl[m] /\ ckpt'[m] = ckpt[m] /\ (m \in unread' <=> m \in unread)
                                /\ (HasEnd(inbox[m]) => HasEnd(inbox'[m]))
    BY <1>1 DEF Types
  <1> QED BY <1>1, <1>5, <1>6, <1>9, <1>10, <1>11, OthersExact

LEMMA EndExact ==
    ASSUME Types, Exact, NEW n \in Nodes, CycleEnd(n)
    PROVE  Exact'
  <1> DEFINE d == receive_cycle_end(dl[n])
  <1>1. /\ n \in group /\ inbox[n] # <<>>
        /\ dl' = [dl EXCEPT ![n] = d] /\ ckpt' = [ckpt EXCEPT ![n] = {}]
        /\ inbox' = [inbox EXCEPT ![n] = Tail(@)]
        /\ UNCHANGED <<group, locks, master, gone, due, begun, quiet, missed, false, unread>>
    BY DEF CycleEnd, Receives, kernelVars, history
  <1>2. d.running = FALSE /\ d.transactions = {}
    <2>1. dl[n] \in Daemons
      BY DEF Types
    <2> QED BY <2>1 DEF receive_cycle_end, Daemons, DaemonRecord
  <1> HIDE DEF d
  <1>3. Hist' /\ \A k \in Cycles : Fewer(k)
    BY <1>1, SameHistory DEF Exact
  <1>4. Kern'
    BY <1>1, SameKernel DEF Exact
  <1>5. dl'[n] = d /\ ckpt'[n] = {}
    BY <1>1 DEF Types
  <1>6. ~Wrote(n)'
    BY <1>2, <1>5 DEF Wrote
  <1>7. Snapshot(n)'
    BY <1>5, <1>6, CopiesNone DEF Snapshot, Reader
  <1>8. Gathered(n)'
    BY <1>2, <1>5, <1>6 DEF Gathered
  <1>9. ASSUME NEW m \in Nodes \ {n}
        PROVE  /\ dl'[m] = dl[m] /\ ckpt'[m] = ckpt[m] /\ (m \in unread' <=> m \in unread)
               /\ begun'[m] = begun[m] /\ (begun[m] # 0 => Fewer(begun[m]))
               /\ (HasEnd(inbox[m]) => HasEnd(inbox'[m]))
    BY <1>1, <1>3 DEF Types
  <1> QED BY <1>1, <1>3, <1>4, <1>7, <1>8, <1>9, OthersExact

\* The end of a handler that may look for deadlocks: e is what the daemon knows by then.
LEMMA FinishExact ==
    ASSUME Types, Common, Exact, NEW n \in Nodes, n \in group, inbox[n] # <<>>,
           Head(inbox[n]).type \notin {"start", "end"}, NEW r, Finish(n, r),
           Handled(n, Head(inbox[n]), r.d, r.out),
           NEW e \in Daemons, r \in run_deadlock(n, e) \/ r \in Quiet(e),
           e.running = dl[n].running, e.transactions = dl[n].transactions,
           Wrote(n) /\ ~HasEnd(inbox[n]) /\ begun[n] # 0 =>
               Copies(e.lkbs, due[begun[n]], master, e.ready \cup {n}, quiet[begun[n]])
    PROVE  Exact'
  <1> DEFINE k == begun[n]
  <1>1. /\ dl' = [dl EXCEPT ![n] = r.d]
        /\ inbox' = Multicast([inbox EXCEPT ![n] = Tail(@)], r.out)
        /\ IF r.out = <<>> \/ k = 0 THEN UNCHANGED <<missed, false>>
           ELSE /\ missed' = missed \cup (Deadlocked(due[k]) \ r.found)
                /\ false' = IF quiet[k] THEN false \cup (r.found \ Deadlocked(due[k])) ELSE false
        /\ UNCHANGED <<ckpt, group, locks, master, gone, due, begun, quiet, unread>>
    BY DEF Finish, kernelVars
  <1>2. /\ r.d.lkbs = e.lkbs /\ r.d.ready = e.ready /\ r.d.running = e.running
        /\ r.out = <<>> => r.d.transactions = e.transactions
        /\ r.out = <<>> \/ Ending(r.out)
        /\ r.out # <<>> /\ e.transactions = {} => r.found = Knotted(create_waitfor_graph(e.lkbs))
    <2>1. CASE r \in Quiet(e)
      BY <2>1, QuietResult
    <2>2. CASE r \in run_deadlock(n, e)
      BY <2>2, RunDeadlock, RunFinds DEF Outcome
    <2> QED BY <2>1, <2>2
  <1>3. r.out \in Seq(Message)
    BY DEF Handled
  <1>4. Delivered(n, r.d, r.out)
    BY <1>1, <1>3, Delivery
  <1>5. Kern' /\ Hist' /\ \A j \in Cycles : Fewer(j)
    BY <1>1, SameKernel, SameHistory DEF Exact
  <1>6. missed' = missed /\ false' = false
    <2>1. CASE r.out = <<>> \/ k = 0
      BY <1>1, <2>1
    <2>2. CASE r.out # <<>> /\ k # 0
      <3>1. Wrote(n) /\ group \subseteq r.d.ready /\ ~HasEnd(inbox[n])
        BY <1>2, <1>4, <2>2, EndingSeesAll
      <3>2. Copies(e.lkbs, due[k], master, e.ready \cup {n}, quiet[k])
        BY <2>2, <3>1
      <3>3. e.transactions = {}
        BY <3>1 DEF Exact, Gathered
      <3>4. k \in Cycles
        BY <2>2 DEF Types
      <3>5. due[k] \in SUBSET locks
        BY <3>4 DEF Exact, Hist
      <3>6. LockTable(due[k])
        BY <3>5 DEF Exact, Kern, LockTable
      <3>7. \A l \in due[k] : {l.home, master[l.rsb]} \subseteq e.ready \cup {n}
        <4>1. \A l \in due[k] : l.home \in group /\ l.rsb \in Rsbs
          BY <3>5, KnownFields DEF Exact, Kern, Types
        <4>2. \A l \in due[k] : master[l.rsb] \in group
          BY <4>1 DEF Exact, Kern
        <4> QED BY <1>2, <3>1, <4>1, <4>2
      <3>8. /\ Deadlocked(due[k]) \subseteq Knotted(create_waitfor_graph(e.lkbs))
            /\ quiet[k] => Knotted(create_waitfor_graph(e.lkbs)) \subseteq Deadlocked(due[k])
        BY ONLY <3>2, <3>6, <3>7, CopiesFound, SMT
      <3>9. r.found = Knotted(create_waitfor_graph(e.lkbs))
        BY <1>2, <2>2, <3>3
      <3> QED BY <1>1, <2>2, <3>8, <3>9
    <2> QED BY <2>1, <2>2
  <1>7. dl'[n] = r.d /\ r.d.running = dl[n].running
    BY <1>1, <1>2 DEF Types
  <1>8. begun[n] # 0 => Fewer(begun[n])
    BY <1>5 DEF Types
  <1>9. Snapshot(n)'
    BY <1>1, <1>7, <1>8, SnapshotStays DEF Exact
  <1>10. /\ inbox[n] \in Seq(Message) /\ Tail(inbox[n]) \in Seq(Message)
         /\ inbox'[n] = Tail(inbox[n]) \o r.out
    <2>1. inbox[n] \in Seq(Message)
      BY DEF Types
    <2>2. Tail(inbox[n]) \in Seq(Message)
      BY <2>1, SMT
    <2> QED BY <1>4, <2>1, <2>2 DEF Delivered
  <1>11. Gathered(n)'
    <2>1. CASE r.out = <<>>
      <3>1. inbox'[n] = Tail(inbox[n])
        BY <1>10, <2>1, SMT
      <3>2. HasEnd(inbox'[n]) <=> HasEnd(inbox[n])
        BY <1>10, <3>1, HasEndTail
      <3>3. Wrote(n)' <=> Wrote(n)
        BY <1>1, <1>7 DEF Wrote
      <3>4. dl[n].transactions # {} => HasEnd(inbox[n])
        BY DEF Exact, Gathered
      <3> QED BY <1>1, <1>2, <1>7, <2>1, <3>2, <3>3, <3>4 DEF Gathered
    <2>2. CASE Ending(r.out)
      <3>1. HasEnd(inbox'[n])
        BY <1>10, <2>2, EndingHasEnd
      <3> QED BY <3>1 DEF Gathered
    <2> QED BY <1>2, <2>1, <2>2
  <1>12. ASSUME NEW m \in Nodes \ {n}
         PROVE  /\ dl'[m] = dl[m] /\ ckpt'[m] = ckpt[m] /\ (m \in unread' <=> m \in unread)
                /\ begun'[m] = begun[m] /\ (begun[m] # 0 => Fewer(begun[m]))
                /\ (HasEnd(inbox[m]) => HasEnd(inbox'[m]))
    <2>1. inbox'[m] = IF m \in group THEN inbox[m] \o r.out ELSE inbox[m]
      BY <1>4 DEF Delivered
    <2>2. inbox[m] \in Seq(Message)
      BY DEF Types
    <2>3. HasEnd(inbox[m]) => HasEnd(inbox[m] \o r.out)
      BY <1>3, <2>2, HasEndMore
    <2>4. HasEnd(inbox[m]) => HasEnd(inbox'[m])
      BY <2>1, <2>3
    <2> QED BY <1>1, <1>5, <2>4 DEF Types
  <1> QED BY <1>1, <1>5, <1>6, <1>9, <1>11, <1>12, OthersExact

\* What is due is held and mastered in the group.
LEMMA DueInGroup ==
    ASSUME Types, Exact, NEW k \in Cycles
    PROVE  /\ due[k] \in SUBSET KernelLock /\ due[k] \in SUBSET LockType
           /\ \A l \in due[k] : l.home \in group /\ master[l.rsb] \in group
  <1>1. due[k] \in SUBSET locks
    BY DEF Exact, Hist
  <1>2. due[k] \in SUBSET KernelLock
    BY <1>1 DEF Exact, Kern, LockTable
  <1>3. due[k] \in SUBSET LockType
    BY <1>2 DEF KernelLock
  <1>4. \A l \in due[k] : l.rsb \in Rsbs
    BY <1>3 DEF LockType
  <1> QED BY <1>1, <1>2, <1>3, <1>4 DEF Exact, Kern

LEMMA CopiesSame ==
    ASSUME NEW S, NEW D, NEW mas, NEW R, NEW only, Copies(S, D, mas, R, only),
           NEW R2, \A l \in D : R \cap {l.home, mas[l.rsb]} = R2 \cap {l.home, mas[l.rsb]}
    PROVE  Copies(S, D, mas, R2, only)
  <1>1. D \in SUBSET D
    OBVIOUS
  <1>2. \A l \in D : mas[l.rsb] = mas[l.rsb] /\ R \cap {l.home, mas[l.rsb]} = R2 \cap {l.home, mas[l.rsb]}
    OBVIOUS
  <1>3. only => only /\ D \subseteq D
    OBVIOUS
  <1> QED BY <1>1, <1>2, <1>3, CopiesStay

\* Of a lock that from has read from debugfs everything is taken as it is.
LEMMA TakenCopy ==
    ASSUME NEW mas, NEW l \in KernelLock, NEW from, NEW c \in Image(l, mas, {from})
    PROVE  Taken(c, from) = c
  <1> DEFINE local == [l EXCEPT !.copy = LOCAL_COPY]
             part == [l EXCEPT !.copy = MASTER_COPY, !.status = UNSET, !.grmode = NL, !.rqmode = NL]
             rest == [l EXCEPT !.copy = MASTER_COPY, !.xid = 0]
  <1>1. l \in LockType /\ l.xid # 0
    BY DEF KernelLock
  <1>2. CASE l.home = from /\ mas[l.rsb] = from
    <2>1. c = local
      <3>1. {l.home, mas[l.rsb]} \subseteq {from}
        BY <1>2
      <3> QED BY <1>2, <3>1 DEF Image, Whole
    <2>2. local.copy = LOCAL_COPY /\ [local EXCEPT !.home = from] = local
      BY <1>1, <1>2 DEF LockType
    <2> QED BY <2>1, <2>2 DEF Taken
  <1>3. CASE ~(l.home = from /\ mas[l.rsb] = from)
    <2>1. c = set_copy(from, mas, l) /\ (l.home = from \/ mas[l.rsb] = from)
      <3>1. ~({l.home, mas[l.rsb]} \subseteq {from})
        BY <1>3
      <3>2. c \in Debugfs(from, mas, {l})
        BY <3>1 DEF Image
      <3> QED BY <3>2 DEF Debugfs, Masters
    <2>2. CASE mas[l.rsb] = from
      <3>1. c = rest
        BY <1>3, <2>1, <2>2 DEF set_copy, Masters
      <3>2. rest.copy = MASTER_COPY /\ rest.xid = 0
        BY <1>1 DEF LockType
      <3> QED BY <3>1, <3>2 DEF Taken, partial_master_copy, LOCAL_COPY, MASTER_COPY
    <2>3. CASE mas[l.rsb] # from
      <3>1. c = part
        BY <2>1, <2>3 DEF set_copy, Masters
      <3>2. part.copy = MASTER_COPY /\ part.xid # 0
            /\ [part EXCEPT !.status = UNSET, !.grmode = NL, !.rqmode = NL] = part
        BY <1>1 DEF LockType
      <3> QED BY <3>1, <3>2 DEF Taken, partial_master_copy, LOCAL_COPY, MASTER_COPY
    <2> QED BY <2>2, <2>3
  <1> QED BY <1>2, <1>3

AllTaken(C, from) == {Taken(c, from) : c \in C}

LEMMA CopiesTaken ==
    ASSUME NEW C \in SUBSET LockType, NEW D \in SUBSET KernelLock, NEW mas, NEW only,
           NEW from \in Nodes, NEW M, M = {} \/ M = {from}, Copies(C, D, mas, M, only)
    PROVE  /\ AllTaken(C, from) \in SUBSET LockType
           /\ Copies(AllTaken(C, from), D, mas, M, only)
  <1>0. PICK T : T = AllTaken(C, from)
    OBVIOUS
  <1>1. \A c \in C : Taken(c, from) \in LockType /\ Taken(c, from).id = c.id
    BY TakenType
  <1>2. ASSUME NEW l \in D
        PROVE  OfLock(T, l) = Image(l, mas, M)
    <2>1. OfLock(C, l) = Image(l, mas, M)
      BY DEF Copies
    <2>2. \A c \in OfLock(C, l) : Taken(c, from) = c
      <3>1. ASSUME M = {from}, NEW c \in OfLock(C, l) PROVE Taken(c, from) = c
        <4>1. l \in KernelLock /\ c \in Image(l, mas, {from})
          BY <2>1, <3>1
        <4> QED BY ONLY <4>1, TakenCopy
      <3>2. CASE M = {}
        BY <2>1, <3>2 DEF Image
      <3> QED BY <3>1, <3>2
    <2>3. OfLock(T, l) = OfLock(C, l)
      BY <1>0, <1>1, <2>2 DEF OfLock, AllTaken
    <2> QED BY <2>1, <2>3
  <1>3. ASSUME only, NEW t \in T PROVE \E l \in D : t.id = l.id
    <2>1. PICK c \in C : t = Taken(c, from)
      BY <1>0 DEF AllTaken
    <2>2. PICK l \in D : c.id = l.id
      BY <1>3 DEF Copies
    <2>3. t.id = l.id
      BY <1>1, <2>1, <2>2
    <2> QED BY <2>3
  <1>4. T \in SUBSET LockType
    BY <1>0, <1>1 DEF AllTaken
  <1>5. Copies(T, D, mas, M, only)
    BY <1>2, <1>3 DEF Copies
  <1> QED BY <1>0, <1>4, <1>5

LEMMA ReadyExact ==
    ASSUME Types, Common, Exact, NEW n \in Nodes, CheckpointReady(n)
    PROVE  Exact'
  <1> DEFINE m == Head(inbox[n])
             f == m.from
             d == dl[n]
             k == begun[n]
  <1>1. n \in group /\ inbox[n] # <<>> /\ m.type = "ready"
    BY DEF CheckpointReady, Receives
  <1>2. m \in Message /\ d \in Daemons /\ d.init
    <2>1. d.init
      BY <1>1 DEF Types, Fresh
    <2> QED BY <1>1, <2>1, HeadType DEF Types
  <1>3. f \in Nodes
    BY <1>1, <1>2, MessageFields
  <1>4. ckpt[f] \in SUBSET LockType
    BY <1>3 DEF Types
  <1>5. PICK r \in receive_checkpoint_ready(n, d, f, ckpt[f]) : Finish(n, r)
    BY DEF CheckpointReady
  <1>6. Handled(n, m, r.d, r.out)
    BY <1>1, <1>2, <1>4, ReadyHandled
  <1>7. PICK e : e = Ready(n, d, f, ckpt[f])
    OBVIOUS
  <1>8. e \in Daemons /\ r \in run_deadlock(n, e)
    BY <1>2, <1>3, <1>4, <1>7, ReadyResult
  <1>9. /\ e.running = d.running /\ e.transactions = d.transactions
        /\ e.lkbs = read_checkpoint(n, d, f, ckpt[f]) /\ e.ready = d.ready \cup ({f} \cap d.nodes)
    BY <1>2, <1>7 DEF Ready, Daemons, DaemonRecord
  <1>10. ASSUME Wrote(n), ~HasEnd(inbox[n]), k # 0
         PROVE  Copies(e.lkbs, due[k], master, e.ready \cup {n}, quiet[k])
    <2> DEFINE R == d.ready \cup {n}
    <2>1. Copies(d.lkbs, due[k], master, R, quiet[k])
      BY <1>1, <1>10 DEF Exact, Gathered
    <2>2. f \in d.nodes \ d.ready /\ begun[f] = k /\ (f \in group => Wrote(f))
      BY <1>1, <1>10, ReadyInOrder
    <2>3. e.ready \cup {n} = R \cup {f}
      BY <1>9, <2>2
    <2>4. k \in Cycles
      BY <1>10 DEF Types
    <2>5. CASE f = n
      <3>1. e.lkbs = d.lkbs
        BY <1>9, <2>5 DEF read_checkpoint
      <3>2. R \cup {f} = R
        BY <2>5
      <3> QED BY <2>1, <2>3, <3>1, <3>2
    <2>6. CASE f # n
      <3>10. PICK T : T = AllTaken(ckpt[f], f)
        OBVIOUS
      <3>1. e.lkbs = AddLocks(d.lkbs, T)
        BY <1>9, <2>6, <3>10 DEF read_checkpoint, AllTaken
      <3>2. Copies(ckpt[f], due[k], master, Reader(f), quiet[k])
        BY <1>3, <1>10, <2>2 DEF Exact, Snapshot
      <3>3. d.lkbs \in SUBSET LockType /\ f \notin R
        BY <1>2, <2>2, <2>6 DEF Daemons, DaemonRecord
      <3>4. /\ due[k] \in SUBSET KernelLock
            /\ \A l \in due[k] : l.home \in group /\ master[l.rsb] \in group
        BY <2>4, DueInGroup
      <3>5. Reader(f) \in {{}, {f}} /\ (Wrote(f) => Reader(f) = {f})
        BY DEF Reader
      <3> HIDE DEF R, k, d, f
      <3>9. T \in SUBSET LockType /\ Copies(T, due[k], master, Reader(f), quiet[k])
        <4>1. due[k] \in SUBSET KernelLock /\ (Reader(f) = {} \/ Reader(f) = {f})
          BY <3>4, <3>5
        <4>2. /\ AllTaken(ckpt[f], f) \in SUBSET LockType
              /\ Copies(AllTaken(ckpt[f], f), due[k], master, Reader(f), quiet[k])
          BY ONLY <1>3, <1>4, <3>2, <4>1, CopiesTaken
        <4> QED BY <3>10, <4>2
      <3>6. Copies(AddLocks(d.lkbs, T), due[k], master, R \cup Reader(f), quiet[k])
        BY <2>1, <3>3, <3>4, <3>5, <3>9, CopiesAdd
      <3>7. \A l \in due[k] : (R \cup Reader(f)) \cap {l.home, master[l.rsb]}
                                = (R \cup {f}) \cap {l.home, master[l.rsb]}
        BY <2>2, <3>4, <3>5
      <3>8. Copies(AddLocks(d.lkbs, T), due[k], master, R \cup {f}, quiet[k])
        BY ONLY <3>6, <3>7, CopiesSame
      <3> QED BY <2>3, <3>1, <3>8
    <2> QED BY <2>5, <2>6
  <1> QED BY <1>1, <1>5, <1>6, <1>8, <1>9, <1>10, FinishExact

\* The nodes that a configuration change reports as gone have left the group.
LEMMA LeftTheGroup ==
    ASSUME Types, Common, NEW n \in group, inbox[n] # <<>>, Head(inbox[n]).type = "confchg"
    PROVE  Head(inbox[n]).left \cap group = {}
  <1>1. PICK log, st, pos : Follow(log, st, pos)
    BY DEF Common
  <1> DEFINE p == pos[n]
             L == Len(log)
             h == log[p + 1]
  <1>2. /\ log \in Seq(Message) /\ inbox[n] \in Seq(Message) /\ p \in 0 .. L
        /\ Placed(dl[n], inbox[n], log, st, p)
    BY <1>1, FollowNode
  <1>3. p + 1 \in DOMAIN log /\ Head(inbox[n]) = h
    BY <1>2, RestTail DEF Placed
  <1>4. (p + 1) - 1 = p
    BY <1>2, SMT
  <1>5. Fits(st[p], h, group)
    BY <1>1, <1>3, <1>4 DEF Follow, LogOK
  <1> QED BY <1>3, <1>5 DEF Fits

LEMMA ConfchgExact ==
    ASSUME Types, Common, Exact, NEW n \in Nodes, Confchg(n)
    PROVE  Exact'
  <1> DEFINE m == Head(inbox[n])
             d == dl[n]
             k == begun[n]
             u == UpdateNodes(d, m)
  <1>1. n \in group /\ inbox[n] # <<>> /\ m.type = "confchg"
    BY DEF Confchg, Receives
  <1>2. m \in Message /\ d \in Daemons /\ (~d.init => d = NewDaemon)
    <2>1. ~d.init => d = NewDaemon
      BY DEF Types, Fresh
    <2> QED BY <1>1, <2>1, HeadType DEF Types
  <1>3. PICK r \in deadlk_confchg(n, d, m) : Finish(n, r)
    BY DEF Confchg
  <1>4. Handled(n, m, r.d, r.out)
    BY <1>1, <1>2, ConfchgHandled
  <1>5. ASSUME NEW e \in Daemons, r \in run_deadlock(n, e) \/ r \in Quiet(e),
               e.running = d.running, e.transactions = d.transactions,
               Wrote(n) /\ ~HasEnd(inbox[n]) /\ k # 0 =>
                   Copies(e.lkbs, due[k], master, e.ready \cup {n}, quiet[k])
        PROVE  Exact'
    BY <1>1, <1>3, <1>4, <1>5, FinishExact
  <1>6. CASE ~d.init
    <2>1. r \in Quiet(FirstConfchg(d, m))
      BY <1>6 DEF deadlk_confchg
    <2>2. m.members \in SUBSET Nodes
      BY <1>1, <1>2, MessageFields
    <2>3. /\ FirstConfchg(d, m) \in Daemons
          /\ FirstConfchg(d, m) = [NewDaemon EXCEPT !.init = TRUE, !.nodes = m.members]
      BY <1>2, <1>6, <2>2, FirstType
    <2>4. /\ FirstConfchg(d, m).running = d.running /\ d.running = FALSE
          /\ FirstConfchg(d, m).transactions = d.transactions
      BY <1>2, <1>6, <2>3 DEF NewDaemon
    <2>5. ~Wrote(n)
      BY <2>4 DEF Wrote
    <2> HIDE DEF d, m, k
    <2> QED BY <1>5, <2>1, <2>3, <2>4, <2>5
  <1>7. CASE d.init
    <2> DEFINE p == purge_locks(u, m.left)
    <2>1. /\ u \in Daemons /\ u.running = d.running /\ u.transactions = d.transactions
          /\ u.ready = d.ready \ m.left /\ u.lkbs = d.lkbs
      BY <1>1, <1>2, UpdateType
    <2>2. /\ p \in Daemons /\ p.running = u.running /\ p.transactions = u.transactions
          /\ p.ready = u.ready /\ p.lkbs = {c \in u.lkbs : c.home \notin m.left}
      <3>1. p \in Daemons
        BY <2>1, PurgeType
      <3> QED BY <2>1, <3>1 DEF purge_locks, Daemons, DaemonRecord
    <2>3. \/ r \in Quiet(u) \/ r \in Quiet(p)
          \/ r \in run_deadlock(n, u) \/ r \in run_deadlock(n, p)
      BY <1>7 DEF deadlk_confchg, LeftDuringCycle
    <2> HIDE DEF u, p
    <2>4. ASSUME Wrote(n), ~HasEnd(inbox[n]), k # 0
          PROVE  /\ Copies(u.lkbs, due[k], master, u.ready \cup {n}, quiet[k])
                 /\ Copies(p.lkbs, due[k], master, p.ready \cup {n}, quiet[k])
      <3>1. Copies(d.lkbs, due[k], master, d.ready \cup {n}, quiet[k])
        BY <1>1, <2>4 DEF Exact, Gathered
      <3>2. k \in Cycles
        BY <2>4 DEF Types
      <3>3. m.left \cap group = {}
        BY <1>1, LeftTheGroup
      <3>4. /\ due[k] \in SUBSET LockType
            /\ \A l \in due[k] : l.home \in group /\ master[l.rsb] \in group
        BY <3>2, DueInGroup
      <3> HIDE DEF k, d, m
      <3>5. \A l \in due[k] : (d.ready \cup {n}) \cap {l.home, master[l.rsb]}
                                = (u.ready \cup {n}) \cap {l.home, master[l.rsb]}
        BY <2>1, <3>3, <3>4
      <3>6. Copies(u.lkbs, due[k], master, u.ready \cup {n}, quiet[k])
        <4>1. Copies(d.lkbs, due[k], master, u.ready \cup {n}, quiet[k])
          BY ONLY <3>1, <3>5, CopiesSame
        <4> QED BY <2>1, <4>1
      <3>7. \A l \in due[k] : l.home \notin m.left
        BY <3>3, <3>4
      <3>8. Copies(p.lkbs, due[k], master, u.ready \cup {n}, quiet[k])
        <4>1. p.lkbs = {c \in u.lkbs : c.home \notin m.left}
          BY <2>2
        <4> QED BY ONLY <3>4, <3>6, <3>7, <4>1, CopiesPurged, ZenonT(30)
      <3> QED BY <2>2, <3>6, <3>8
    <2> HIDE DEF d, m, k
    <2> QED BY <1>5, <2>1, <2>2, <2>3, <2>4
  <1> QED BY <1>6, <1>7

-----------------------------------------------------------------------------
(* The other steps *)

LEMMA DepartExact ==
    ASSUME Types, Exact, NEW n \in Nodes, Depart(n)
    PROVE  Exact'
  <1> DEFINE ev == Event(group \ {n}, {}, {n})
  <1>1. /\ n \in group /\ group' = group \ {n} /\ gone' = gone \cup {n}
        /\ dl' = [dl EXCEPT ![n] = NewDaemon] /\ inbox' = [Post(inbox, ev) EXCEPT ![n] = <<>>]
        /\ locks' = {l \in locks : l.home # n}
        /\ master' \in [Rsbs -> group \ {n}] /\ (\A r \in Rsbs : master[r] # n => master'[r] = master[r])
        /\ due' = StillDue({l \in locks : l.home # n /\ master[l.rsb] # n})
        /\ quiet' = [k \in Cycles |-> FALSE] /\ unread' = unread \ {n}
        /\ UNCHANGED <<ckpt, begun, missed, false>>
    BY DEF Depart
  <1>2. ev \in Message /\ ev.members = group \ {n}
    <2>1. group \ {n} \in SUBSET Nodes /\ {n} \in SUBSET Nodes /\ {} \in SUBSET Nodes
      BY DEF Types
    <2> QED BY <2>1 DEF Event, Message
  <1> HIDE DEF ev
  <1>3. \A m \in group \ {n} : inbox'[m] = Append(inbox[m], ev)
    <2>1. /\ Post(inbox, ev) \in [Nodes -> Seq(Message)]
          /\ \A m \in Nodes : Post(inbox, ev)[m] = IF m \in ev.members THEN Append(inbox[m], ev) ELSE inbox[m]
      BY <1>2, PostForm DEF Types
    <2> QED BY <1>1, <1>2, <2>1 DEF Types
  <1>4. Kern'
    BY <1>1 DEF Exact, Kern, LockTable
  <1>5. ASSUME NEW k \in Cycles
        PROVE  /\ due'[k] = due[k] \cap {l \in locks : l.home # n /\ master[l.rsb] # n}
               /\ quiet'[k] = FALSE
    BY <1>1 DEF StillDue
  <1>6. Hist'
    <2>1. due' \in [Cycles -> SUBSET locks']
      BY <1>1 DEF StillDue
    <2> QED BY <1>1, <1>5, <2>1 DEF Hist
  <1>7. ASSUME NEW k \in Cycles, NEW S, NEW R, NEW R2, R2 \ {n} = R \ {n},
               Copies(S, due[k], master, R, quiet[k])
        PROVE  Copies(S, due'[k], master', R2, quiet'[k])
    <2>1. due'[k] \in SUBSET due[k]
      BY <1>5
    <2>2. ASSUME NEW l \in due'[k]
          PROVE  /\ master'[l.rsb] = master[l.rsb]
                 /\ R \cap {l.home, master[l.rsb]} = R2 \cap {l.home, master[l.rsb]}
      <3>1. l.home # n /\ master[l.rsb] # n /\ l \in locks
        BY <1>5
      <3>2. l.rsb \in Rsbs
        BY <3>1, KnownFields DEF Types
      <3> QED BY <1>1, <1>7, <3>1, <3>2
    <2>3. quiet'[k] => quiet[k] /\ due[k] \subseteq due'[k]
      BY <1>5
    <2>4. PICK D2, mas2, only2 : D2 = due'[k] /\ mas2 = master' /\ only2 = quiet'[k]
      OBVIOUS
    <2>5. /\ Copies(S, due[k], master, R, quiet[k]) /\ D2 \in SUBSET due[k]
          /\ \A l \in D2 : /\ mas2[l.rsb] = master[l.rsb]
                          /\ R \cap {l.home, master[l.rsb]} = R2 \cap {l.home, master[l.rsb]}
          /\ only2 => quiet[k] /\ due[k] \subseteq D2
      BY <1>7, <2>1, <2>2, <2>3, <2>4
    <2>6. Copies(S, D2, mas2, R2, only2)
      BY ONLY <2>5, CopiesStay
    <2> QED BY <2>4, <2>6
  <1>8. dl'[n].running = FALSE
    <2>1. NewDaemon.running = FALSE
      BY DEF NewDaemon
    <2> QED BY <1>1, <2>1 DEF Types
  <1>9. \A m \in Nodes \ {n} : dl'[m] = dl[m] /\ (m \in unread' <=> m \in unread)
    BY <1>1 DEF Types
  <1>10. ASSUME NEW m \in Nodes
         PROVE  Snapshot(m)'
    <2>1. m # n => (Wrote(m)' <=> Wrote(m))
      BY <1>9 DEF Wrote
    <2>2. ~Wrote(n)'
      BY <1>8 DEF Wrote
    <2>3. m \notin gone' /\ ~Wrote(m)' => ckpt'[m] = {}
      BY <1>1, <2>1 DEF Exact, Snapshot
    <2>4. Reader(m)' \ {n} = Reader(m) \ {n}
      BY <2>1, <2>2 DEF Reader
    <2>5. ASSUME begun'[m] # 0
          PROVE  Copies(ckpt'[m], due'[begun'[m]], master', Reader(m)', quiet'[begun'[m]])
      <3>1. begun'[m] = begun[m] /\ begun[m] \in Cycles
        BY <1>1, <2>5 DEF Types
      <3>2. Copies(ckpt[m], due[begun[m]], master, Reader(m), quiet[begun[m]])
        BY <2>5, <3>1 DEF Exact, Snapshot
      <3>3. Copies(ckpt[m], due'[begun[m]], master', Reader(m)', quiet'[begun[m]])
        BY <1>7, <2>4, <3>1, <3>2
      <3> QED BY <1>1, <3>1, <3>3
    <2> QED BY <2>3, <2>5 DEF Snapshot
  <1>11. ASSUME NEW m \in group'
         PROVE  Gathered(m)'
    <2>1. m \in group \ {n} /\ m \in Nodes /\ dl'[m] = dl[m] /\ inbox[m] \in Seq(Message)
      BY <1>1, <1>9 DEF Types
    <2>2. HasEnd(inbox[m]) => HasEnd(inbox'[m])
      BY <1>2, <1>3, <2>1, HasEndAppend
    <2>3. Wrote(m)' <=> Wrote(m)
      BY <1>9, <2>1 DEF Wrote
    <2>4. dl'[m].transactions # {} => HasEnd(inbox'[m])
      BY <2>1, <2>2 DEF Exact, Gathered
    <2>5. ASSUME Wrote(m)', ~HasEnd(inbox'[m]), begun'[m] # 0
          PROVE  Copies(dl'[m].lkbs, due'[begun'[m]], master', dl'[m].ready \cup {m}, quiet'[begun'[m]])
      <3>1. begun'[m] = begun[m] /\ begun[m] \in Cycles
        BY <1>1, <2>1, <2>5 DEF Types
      <3>2. Copies(dl[m].lkbs, due[begun[m]], master, dl[m].ready \cup {m}, quiet[begun[m]])
        BY <2>1, <2>2, <2>3, <2>5, <3>1 DEF Exact, Gathered
      <3>3. Copies(dl[m].lkbs, due'[begun[m]], master', dl[m].ready \cup {m}, quiet'[begun[m]])
        BY <1>7, <3>1, <3>2
      <3> QED BY <2>1, <3>1, <3>3
    <2> QED BY <2>4, <2>5 DEF Gathered
  <1> QED BY <1>1, <1>4, <1>6, <1>10, <1>11 DEF Exact

LEMMA DeliverExact ==
    ASSUME Types, Common, Exact, NEW n \in Nodes, Deliver(n)
    PROVE  Exact'
  <1>1. CASE CycleStart(n)
    BY <1>1, StartExact
  <1>2. CASE CycleStartUnreadable(n)
    BY <1>2, UnreadableExact
  <1>3. CASE CheckpointReady(n)
    BY <1>3, ReadyExact
  <1>4. CASE CycleEnd(n)
    BY <1>4, EndExact
  <1>5. CASE Ignored(n)
    BY <1>5, IgnoredExact
  <1>6. CASE ReceiveCancel(n)
    BY <1>6, CancelExact
  <1>7. CASE Confchg(n)
    BY <1>7, ConfchgExact
  <1> QED BY <1>1, <1>2, <1>3, <1>4, <1>5, <1>6, <1>7 DEF Deliver

LEMMA ExactInit ==
    ASSUME Init
    PROVE  Exact
  <1>1. /\ group = Founders /\ locks \in Tables /\ master = Master /\ gone = {}
        /\ due = [k \in Cycles |-> {}] /\ quiet = [k \in Cycles |-> FALSE]
        /\ ckpt = [n \in Nodes |-> {}] /\ begun = [n \in Nodes |-> 0] /\ missed = {} /\ false = {}
    BY DEF Init, InitWith
  <1>2. Kern
    <2>1. LockTable(locks)
      BY <1>1, DeadlockAssumption
    <2>2. ASSUME NEW l \in locks
          PROVE  l.home \in group
      <3>1. l \in KernelLock
        BY <2>1 DEF LockTable
      <3>2. l.xid \in Xids /\ l.home = Home[l.xid]
        BY <3>1, KernelFields
      <3> QED BY <1>1, <3>2, DeadlockAssumption
    <2>3. \A r \in Rsbs : master[r] \in group
      BY <1>1, DeadlockAssumption
    <2> QED BY <1>1, <2>1, <2>2, <2>3 DEF Kern
  <1>3. Hist
    BY <1>1 DEF Hist
  <1>4. \A m \in Nodes : Snapshot(m)
    BY <1>1 DEF Snapshot
  <1>5. ASSUME NEW n \in group
        PROVE  Gathered(n)
    <2>1. n \in Nodes
      BY <1>1, DeadlockAssumption
    <2>2. dl[n] = FirstConfchg(NewDaemon, [members |-> Founders])
      BY <1>1, <2>1 DEF Init, InitWith
    <2>3. dl[n].transactions = {}
      BY <2>2 DEF FirstConfchg, NewDaemon
    <2> QED BY <1>1, <2>1, <2>3 DEF Gathered
  <1> QED BY <1>1, <1>2, <1>3, <1>4, <1>5 DEF Exact

LEMMA ExactNext ==
    ASSUME Types, Common, Exact, [Next]_vars
    PROVE  Exact'
  <1>1. CASE \E n \in Nodes : SendCycleStart(n)
    BY <1>1, SendExact
  <1>2. CASE \E n \in Nodes : Deliver(n)
    BY <1>2, DeliverExact
  <1>3. CASE \E n \in Nodes : Join(n)
    BY <1>3, JoinExact
  <1>4. CASE \E n \in Nodes : Depart(n)
    BY <1>4, DepartExact
  <1>5. CASE Kernel
    BY <1>5, KernelExact
  <1>6. CASE UNCHANGED vars
    <2>1. /\ UNCHANGED <<dl, inbox, ckpt, group, locks, master, gone>>
          /\ UNCHANGED <<due, begun, quiet, missed, false, unread>>
      BY <1>6 DEF vars, daemonVars, kernelVars, history
    <2>2. Kern' /\ Hist' /\ \A k \in Cycles : Fewer(k)
      BY <2>1, SameKernel, SameHistory DEF Exact
    <2> QED BY <2>1, <2>2, ExactStays
  <1> QED BY <1>1, <1>2, <1>3, <1>4, <1>5, <1>6 DEF Next

\* When no node joins while a cycle runs, the node that looks for deadlocks misses none:
\* transactions that were deadlocked when the first node began the cycle are found, if the
\* locks they are deadlocked on are as they were, with the same masters, whatever the other
\* transactions do meanwhile and whichever nodes fail.  The node has put these locks
\* together from debugfs and the checkpoints as dlm-kernel has them.
THEOREM EveryDeadlockFound ==
    ASSUME ~JoinInCycle
    PROVE  Spec => []NoDeadlockMissed
  <1>1. Init => Types /\ Common /\ Exact
    BY TypesInit, CommonInit, ExactInit
  <1>2. Types /\ Common /\ Exact /\ [Next]_vars => (Types /\ Common /\ Exact)'
    BY TypesNext, CommonNext, ExactNext
  <1>3. Types /\ Common /\ Exact => NoDeadlockMissed
    BY DEF Exact, NoDeadlockMissed
  <1> QED BY <1>1, <1>2, <1>3, PTL DEF Spec

\* When no node joins while a cycle runs, a cycle in which no lock changes and no node
\* fails finds nothing but deadlocks: the copies of a lock on several nodes are put
\* together, and no transaction waits for what a stale or partial copy shows.
THEOREM NothingFoundInVain ==
    ASSUME ~JoinInCycle
    PROVE  Spec => []NoFalseDeadlock
  <1>1. Init => Types /\ Common /\ Exact
    BY TypesInit, CommonInit, ExactInit
  <1>2. Types /\ Common /\ Exact /\ [Next]_vars => (Types /\ Common /\ Exact)'
    BY TypesNext, CommonNext, ExactNext
  <1>3. Types /\ Common /\ Exact => NoFalseDeadlock
    BY DEF Exact, NoFalseDeadlock
  <1> QED BY <1>1, <1>2, <1>3, PTL DEF Spec
=============================================================================
