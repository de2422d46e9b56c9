---------------------------- MODULE CycleProofs ----------------------------
(***************************************************************************)
(* The cycles of DeadlockGroup, for any number of nodes, locks, cycles and *)
(* failures.                                                               *)
(*                                                                         *)
(* CPG gives every node the same events in the same order, so the nodes    *)
(* are at their own places pos[n] of one log, and what a node knows of the *)
(* cycle is a function st of the place.  Common says that there is such a  *)
(* log, and what is true of its places.                                    *)
(*                                                                         *)
(* Copies says what the debugfs files of some nodes show together of some  *)
(* locks.  Exact, on top of Common, says of which nodes and which locks    *)
(* there are copies in the checkpoints and on the nodes until a cycle      *)
(* ends.                                                                   *)
(***************************************************************************)
EXTENDS DeadlockGroup, TLAPS

\* A leaf that names no prover is left to Zenon.
USE ZenonT(30)

-----------------------------------------------------------------------------
(* What the nodes know of a cycle *)

\* The part of a daemon's record that depends on the log alone, and the number of the
\* start message that began the latest cycle
View == [running : BOOLEAN, all_ready : BOOLEAN, nodes : SUBSET Nodes, in_cycle : SUBSET Nodes,
         ready : SUBSET Nodes, low : Nodes \cup {NoNode}, no : Cycles \cup {0}]

\* Between cycles in_cycle is left over from the last one, and before all checkpoints are
\* ready so is low.
Agree(d, s) ==
    /\ d.running = s.running /\ d.all_ready = s.all_ready
    /\ d.nodes = s.nodes /\ d.ready = s.ready
    /\ s.running => d.in_cycle = s.in_cycle
    /\ s.all_ready => d.low = s.low

InCycle(s) == s.nodes \cap s.in_cycle

\* run_deadlock
Look(s) == IF InCycle(s) \subseteq s.ready THEN [s EXCEPT !.all_ready = TRUE, !.low = Lowest(InCycle(s))]
           ELSE s

Without(s, m) == [s EXCEPT !.nodes = (@ \cup m.joined) \ m.left,
                           !.in_cycle = @ \ m.left, !.ready = @ \ m.left]

\* LeftDuringCycle calls run_deadlock.
LooksAgain(s, m) == s.running /\ m.left # {} /\ (~s.all_ready \/ s.low \in m.left)

Begins(s, m) == [s EXCEPT !.running = TRUE, !.in_cycle = s.nodes, !.no = m.no]

\* What the event m makes of it
Step(s, m) ==
    IF m.type = "start" THEN IF s.running THEN s ELSE Begins(s, m)
    ELSE IF m.type = "ready" THEN Look([s EXCEPT !.ready = @ \cup ({m.from} \cap s.nodes)])
    ELSE IF m.type = "end" THEN IF s.running THEN [s EXCEPT !.running = FALSE, !.all_ready = FALSE, !.ready = {}] ELSE s
    ELSE IF m.type = "confchg" THEN IF LooksAgain(s, m) THEN Look(Without(s, m)) ELSE Without(s, m)
    ELSE s

\* The event m makes n look for deadlocks, and end the cycle.
Fires(s, m, n) ==
    /\ m.type = "ready" \/ (m.type = "confchg" /\ LooksAgain(s, m))
    /\ Step(s, m).all_ready /\ Step(s, m).low = n

-----------------------------------------------------------------------------
(* What is true of the log, when the nodes G are in the group *)

\* At every place: the flags of a cycle are those of a cycle that runs, and all members
\* are in it.
Sane(s, G) ==
    /\ ~s.running => s.ready = {} /\ ~s.all_ready
    /\ s.all_ready => InCycle(s) \subseteq s.ready
    /\ s.running => G \subseteq InCycle(s)

\* At every event: a node says once that its checkpoint is ready, while the cycle runs;
\* a cycle that runs is ended; nobody joins it.
Fits(s, m, G) ==
    /\ m.type = "ready" => s.running /\ m.from \in InCycle(s) \ s.ready
    /\ m.type = "end" => s.running
    /\ m.type = "confchg" => m.left \cap G = {} /\ (m.joined # {} => ~s.running)

NoEnd(log, i, j) == \A k \in i + 1 .. j : log[k].type # "end"

Runs(st, i, j) == \A k \in i .. j : st[k].running

\* A cycle runs until it is ended ...
RunsOn(log, st) ==
    \A i, j \in DOMAIN st : i <= j /\ st[i].running /\ NoEnd(log, i, j) => st[j].running

\* ... and stays the same one ...
OneCycle(st) == \A i, j \in DOMAIN st : i <= j /\ Runs(st, i, j) => st[i].no = st[j].no

\* ... and the lowest node stays the one to end it while it is a member.
StaysLow(log, st, G) ==
    \A i, j \in DOMAIN st : i <= j /\ st[i].all_ready /\ st[i].low \in G /\ NoEnd(log, i, j)
                            => st[j].all_ready /\ st[j].low = st[i].low

\* A member that has an end before it has begun the cycle, and will not end it itself.
Ended(log, st, pos, G) ==
    \A e \in DOMAIN log, n \in G : log[e].type = "end" /\ pos[n] < e =>
        /\ Runs(st, pos[n], e - 1)
        /\ \A i \in pos[n] + 1 .. e - 1 : ~Fires(st[i - 1], log[i], n)

\* A member whose checkpoint is ready has begun the cycle.
Begun(st, pos, G) ==
    \A p \in DOMAIN st, n \in G : n \in st[p].ready /\ pos[n] < p => Runs(st, pos[n], p)

LogOK(log, st, pos, G) ==
    /\ \A p \in DOMAIN st : Sane(st[p], G)
    /\ \A p \in DOMAIN log : st[p] = Step(st[p - 1], log[p]) /\ Fits(st[p - 1], log[p], G)
    /\ RunsOn(log, st) /\ OneCycle(st) /\ StaysLow(log, st, G)
    /\ Ended(log, st, pos, G) /\ Begun(st, pos, G)

-----------------------------------------------------------------------------
(* The invariant *)

\* Between cycles nothing is kept.
Clean(d) == ~d.running => d.lkbs = {} /\ d.transactions = {}

\* A daemon that has had its first confchg, and one that has not
Member(d, s) == Agree(d, s) /\ Clean(d)

Newcomer(d, log, st, p) ==
    /\ d = NewDaemon /\ p + 1 \in DOMAIN log
    /\ log[p + 1].type = "confchg" /\ log[p + 1].members = st[p + 1].nodes /\ ~st[p + 1].running

\* What CPG has yet to deliver, q, is the log from the place p on.
Rest(q, log, p) == p + Len(q) = Len(log) /\ \A i \in DOMAIN q : q[i] = log[p + i]

Placed(d, q, log, st, p) ==
    /\ Rest(q, log, p)
    /\ IF d.init THEN Member(d, st[p]) ELSE Newcomer(d, log, st, p)

Shape(log, st, pos) ==
    log \in Seq(Message) /\ st \in [0 .. Len(log) -> View] /\ pos \in [Nodes -> 0 .. Len(log)]

\* st says what the nodes know at each place of the log, and pos where they are.
Follow(log, st, pos) ==
    /\ Shape(log, st, pos) /\ LogOK(log, st, pos, group)
    /\ st[Len(log)].nodes = group
    /\ \A n \in group : Placed(dl[n], inbox[n], log, st, pos[n])
    /\ \A n \in Nodes \ group : dl[n] = NewDaemon /\ inbox[n] = <<>>

\* n has read its locks for the cycle that it runs, and its checkpoint is there.
Wrote(n) == dl[n].running /\ n \notin unread

Writers == {n \in Nodes : n \in group => Wrote(n)}

\* A member that runs a cycle knows it by the number of its start message ...
Counts(st, pos) == \A n \in group : dl[n].running => begun[n] = st[pos[n]].no

\* ... and so do those, members or not, that are ready in the last cycle of the log: b says
\* which cycle the nodes have begun, and W whose checkpoint is there.
Prepared(log, st, b, W) ==
    \A p \in DOMAIN st : NoEnd(log, p, Len(log)) =>
        \A m \in st[p].ready : b[m] = st[p].no /\ m \in W

Common == \E log, st, pos : Follow(log, st, pos) /\ Counts(st, pos) /\ Prepared(log, st, begun, Writers)

-----------------------------------------------------------------------------
(* Events and steps *)

\* The fields of the messages
LEMMA MessageFields ==
    ASSUME NEW m \in Message
    PROVE  /\ m.type \in {"ready", "end", "start", "cancel", "confchg"}
           /\ m.type = "ready" => m.from \in Nodes
           /\ m.type = "start" => m.no \in Cycles
           /\ m.type = "cancel" => m.from \in Nodes /\ m.id \in Xids \X Rsbs
           /\ m.type = "confchg" => /\ m.members \in SUBSET Nodes /\ m.joined \in SUBSET Nodes
                                    /\ m.left \in SUBSET Nodes
  BY SMT DEF Message

\* run_deadlock takes a node of the cycle for the lowest one, if any.
LEMMA LowestType ==
    ASSUME NEW S \in SUBSET Nodes
    PROVE  Lowest(S) \in Nodes \cup {NoNode}
  BY DEF Lowest

LEMMA LookType ==
    ASSUME NEW s \in View
    PROVE  Look(s) \in View
  <1>1. InCycle(s) \in SUBSET Nodes
    BY DEF View, InCycle
  <1>2. Lowest(InCycle(s)) \in Nodes \cup {NoNode}
    BY <1>1, LowestType
  <1> QED BY <1>2 DEF Look, View

LEMMA WithoutType ==
    ASSUME NEW s \in View, NEW m \in Message, m.type = "confchg"
    PROVE  Without(s, m) \in View
  <1>1. m.joined \in SUBSET Nodes /\ m.left \in SUBSET Nodes
    BY MessageFields
  <1>2. /\ (s.nodes \cup m.joined) \ m.left \in SUBSET Nodes
        /\ s.in_cycle \ m.left \in SUBSET Nodes /\ s.ready \ m.left \in SUBSET Nodes
    BY <1>1 DEF View
  <1> QED BY <1>2 DEF Without, View

LEMMA BeginsView ==
    ASSUME NEW s \in View, NEW m \in Message, m.type = "start"
    PROVE  /\ Begins(s, m) \in View
           /\ Begins(s, m).running = TRUE /\ Begins(s, m).in_cycle = s.nodes /\ Begins(s, m).no = m.no
           /\ Begins(s, m).nodes = s.nodes /\ Begins(s, m).ready = s.ready
           /\ Begins(s, m).all_ready = s.all_ready /\ Begins(s, m).low = s.low
  <1>1. m.no \in Cycles \cup {0}
    BY MessageFields
  <1> QED BY <1>1 DEF Begins, View

LEMMA StepType ==
    ASSUME NEW s \in View, NEW m \in Message
    PROVE  Step(s, m) \in View
  <1>1. CASE m.type = "start"
    BY <1>1, BeginsView DEF Step
  <1>2. CASE m.type = "ready"
    <2>1. [s EXCEPT !.ready = @ \cup ({m.from} \cap s.nodes)] \in View
      BY SMT DEF View
    <2> QED BY <1>2, <2>1, LookType DEF Step
  <1>3. CASE m.type = "end"
    BY <1>3 DEF Step, View
  <1>4. CASE m.type = "confchg"
    BY <1>4, WithoutType, LookType DEF Step
  <1>5. CASE m.type = "cancel"
    BY <1>5 DEF Step
  <1> QED BY <1>1, <1>2, <1>3, <1>4, <1>5, MessageFields

\* Cycles end with end events only, and begin with start events only.
LEMMA StepRuns ==
    ASSUME NEW s \in View, NEW m \in Message
    PROVE  /\ s.running /\ m.type # "end" => Step(s, m).running
           /\ ~s.running /\ m.type # "start" => ~Step(s, m).running
           /\ m.type = "start" => Step(s, m).running
           /\ m.type = "end" => ~Step(s, m).running
  <1>1. ASSUME NEW t \in View
        PROVE  Look(t).running = t.running
    BY <1>1 DEF Look, View
  <1>2. CASE m.type = "start"
    BY <1>2, BeginsView DEF Step
  <1>3. CASE m.type = "ready"
    <2>1. [s EXCEPT !.ready = @ \cup ({m.from} \cap s.nodes)] \in View
      BY SMT DEF View
    <2> QED BY <1>1, <1>3, <2>1 DEF Step, View
  <1>4. CASE m.type = "end"
    BY <1>4 DEF Step, View
  <1>5. CASE m.type = "confchg"
    <2>1. Without(s, m) \in View /\ Without(s, m).running = s.running
      BY <1>5, WithoutType DEF Without, View
    <2> QED BY <1>1, <1>5, <2>1 DEF Step
  <1>6. CASE m.type = "cancel"
    BY <1>6 DEF Step
  <1> QED BY <1>2, <1>3, <1>4, <1>5, <1>6, MessageFields

\* Only the beginning of a cycle changes its number.
LEMMA StepNo ==
    ASSUME NEW s \in View, NEW m \in Message, s.running \/ m.type # "start"
    PROVE  Step(s, m).no = s.no
  <1>1. ASSUME NEW t \in View
        PROVE  Look(t).no = t.no
    BY <1>1 DEF Look, View
  <1>2. CASE m.type = "start"
    BY <1>2 DEF Step
  <1>3. CASE m.type = "ready"
    <2> DEFINE t == [s EXCEPT !.ready = @ \cup ({m.from} \cap s.nodes)]
    <2>1. t \in View
      BY SMT DEF View
    <2>2. t.no = s.no /\ Step(s, m) = Look(t)
      BY <1>3 DEF Step, View
    <2> HIDE DEF t
    <2> QED BY <1>1, <2>1, <2>2
  <1>4. CASE m.type = "end"
    BY <1>4 DEF Step, View
  <1>5. CASE m.type = "confchg"
    <2>1. Without(s, m) \in View /\ Without(s, m).no = s.no
      BY <1>5, WithoutType DEF Without, View
    <2> QED BY <1>1, <1>5, <2>1 DEF Step
  <1>6. CASE m.type = "cancel"
    BY <1>6 DEF Step
  <1> QED BY <1>2, <1>3, <1>4, <1>5, <1>6, MessageFields

\* A cycle begins with all members in it; run_deadlock finds all of them ready.
LEMMA StepSane ==
    ASSUME NEW s \in View, NEW m \in Message, NEW G \in SUBSET Nodes,
           Sane(s, G), Fits(s, m, G), m.type = "start" => G \subseteq s.nodes
    PROVE  Sane(Step(s, m), G)
  <1>1. ASSUME NEW t \in View, Sane(t, G), t.running
        PROVE  Sane(Look(t), G)
    <2>1. CASE InCycle(t) \subseteq t.ready
      <3> DEFINE u == [t EXCEPT !.all_ready = TRUE, !.low = Lowest(InCycle(t))]
      <3>1. u.running = t.running /\ u.nodes = t.nodes /\ u.in_cycle = t.in_cycle /\ u.ready = t.ready
        BY DEF View
      <3>2. Look(t) = u
        BY <2>1 DEF Look
      <3> QED BY <1>1, <2>1, <3>1, <3>2 DEF Sane, InCycle
    <2>2. CASE ~(InCycle(t) \subseteq t.ready)
      BY <1>1, <2>2 DEF Look
    <2> QED BY <2>1, <2>2
  <1>2. CASE m.type = "start"
    <2>1. CASE s.running
      BY <1>2, <2>1 DEF Step
    <2>2. CASE ~s.running
      <3> DEFINE u == Begins(s, m)
      <3>1. /\ u.running /\ u.nodes = s.nodes /\ u.in_cycle = s.nodes /\ u.ready = s.ready
            /\ u.all_ready = s.all_ready
        BY <1>2, BeginsView
      <3>2. Step(s, m) = u
        BY <1>2, <2>2 DEF Step
      <3> HIDE DEF u
      <3> QED BY <1>2, <2>2, <3>1, <3>2 DEF Sane, InCycle
    <2> QED BY <2>1, <2>2
  <1>3. CASE m.type = "ready"
    <2> DEFINE t == [s EXCEPT !.ready = @ \cup ({m.from} \cap s.nodes)]
    <2>1. t \in View
      BY SMT DEF View
    <2>2. /\ t.running = s.running /\ t.nodes = s.nodes /\ t.in_cycle = s.in_cycle
          /\ t.all_ready = s.all_ready /\ s.ready \subseteq t.ready
      BY DEF View
    <2>3. s.running
      BY <1>3 DEF Fits
    <2>4. Sane(t, G)
      BY <2>2, <2>3 DEF Sane, InCycle
    <2>5. Step(s, m) = Look(t)
      BY <1>3 DEF Step
    <2> HIDE DEF t
    <2> QED BY <1>1, <2>1, <2>2, <2>3, <2>4, <2>5
  <1>4. CASE m.type = "end"
    <2>1. s.running
      BY <1>4 DEF Fits
    <2> DEFINE u == [s EXCEPT !.running = FALSE, !.all_ready = FALSE, !.ready = {}]
    <2>2. ~u.running /\ ~u.all_ready /\ u.ready = {}
      BY DEF View
    <2>3. Step(s, m) = u
      BY <1>4, <2>1 DEF Step
    <2> QED BY <2>2, <2>3 DEF Sane
  <1>5. CASE m.type = "confchg"
    <2> DEFINE t == Without(s, m)
    <2>1. t \in View
      BY <1>5, WithoutType
    <2>2. /\ t.running = s.running /\ t.all_ready = s.all_ready
          /\ t.nodes = (s.nodes \cup m.joined) \ m.left
          /\ t.in_cycle = s.in_cycle \ m.left /\ t.ready = s.ready \ m.left
      BY DEF Without, View
    <2>3. m.left \cap G = {} /\ (s.running => m.joined = {})
      BY <1>5 DEF Fits
    <2>4. InCycle(t) \subseteq InCycle(s) \ m.left \/ ~s.running
      BY <2>2, <2>3 DEF InCycle
    <2>5. s.running => G \subseteq InCycle(t)
      BY <2>2, <2>3 DEF Sane, InCycle
    <2>6. s.all_ready => InCycle(t) \subseteq t.ready
      BY <2>2, <2>4 DEF Sane
    <2>7. Sane(t, G)
      BY <2>2, <2>5, <2>6 DEF Sane
    <2>8. Step(s, m) = IF LooksAgain(s, m) THEN Look(t) ELSE t
      BY <1>5 DEF Step
    <2> HIDE DEF t
    <2> QED BY <1>1, <2>1, <2>2, <2>7, <2>8 DEF LooksAgain
  <1>6. CASE m.type = "cancel"
    BY <1>6 DEF Step
  <1> QED BY <1>2, <1>3, <1>4, <1>5, <1>6, MessageFields

\* When the lowest node has been found it is not looked for again, nor does it look again,
\* while it is a member.
LEMMA StepLow ==
    ASSUME NEW s \in View, NEW m \in Message, NEW G \in SUBSET Nodes,
           Sane(s, G), Fits(s, m, G), s.all_ready, s.low \in G
    PROVE  /\ m.type # "end" => Step(s, m).all_ready /\ Step(s, m).low = s.low
           /\ \A n : ~Fires(s, m, n)
  <1>1. s.running
    BY DEF Sane
  <1>2. m.type # "ready"
    BY DEF Sane, Fits
  <1>3. ASSUME m.type = "confchg"
        PROVE  ~LooksAgain(s, m)
    BY <1>3 DEF LooksAgain, Fits
  <1>4. \A n : ~Fires(s, m, n)
    BY <1>2, <1>3 DEF Fires
  <1>5. ASSUME m.type = "confchg"
        PROVE  Step(s, m).all_ready /\ Step(s, m).low = s.low
    BY <1>3, <1>5 DEF Step, Without, View
  <1>6. ASSUME m.type \in {"start", "cancel"}
        PROVE  Step(s, m) = s
    BY <1>1, <1>6 DEF Step
  <1> QED BY <1>2, <1>4, <1>5, <1>6, MessageFields

-----------------------------------------------------------------------------
(* The log grows *)

\* log2 and st2 go on from log and st.
Longer(log, st, log2, st2) ==
    /\ Len(log) <= Len(log2)
    /\ \A i \in 1 .. Len(log) : log2[i] = log[i]
    /\ \A i \in 0 .. Len(log) : st2[i] = st[i]

\* The nodes advance, and some leave.
LEMMA Advance ==
    ASSUME NEW log, NEW st, NEW pos, NEW pos2, NEW G \in SUBSET Nodes, NEW H \in SUBSET G,
           Shape(log, st, pos), Shape(log, st, pos2), \A n \in H : pos[n] <= pos2[n],
           LogOK(log, st, pos, G)
    PROVE  LogOK(log, st, pos2, H)
  <1>1. \A s : Sane(s, G) => Sane(s, H)
    BY DEF Sane
  <1>2. \A s, m : Fits(s, m, G) => Fits(s, m, H)
    BY DEF Fits
  <1>3. StaysLow(log, st, H)
    BY DEF StaysLow, LogOK
  <1>4. Len(log) \in Nat /\ DOMAIN log = 1 .. Len(log) /\ DOMAIN st = 0 .. Len(log)
    BY SMT DEF Shape
  <1>5. ASSUME NEW n \in H
        PROVE  /\ pos[n] \in Nat /\ pos2[n] \in Nat /\ pos[n] <= pos2[n]
               /\ \A j : Runs(st, pos[n], j) => Runs(st, pos2[n], j)
    <2>1. pos[n] \in 0 .. Len(log) /\ pos2[n] \in 0 .. Len(log) /\ pos[n] <= pos2[n]
      BY DEF Shape
    <2>2. pos[n] \in Nat /\ pos2[n] \in Nat
      BY <1>4, <2>1, SMT
    <2>3. ASSUME NEW j, NEW k \in pos2[n] .. j
          PROVE  k \in pos[n] .. j
      BY <2>1, <2>2, <2>3, SMT
    <2> QED BY <2>1, <2>2, <2>3 DEF Runs
  <1>6. Ended(log, st, pos2, H)
    <2> SUFFICES ASSUME NEW e \in DOMAIN log, NEW n \in H, log[e].type = "end", pos2[n] < e
                 PROVE  /\ Runs(st, pos2[n], e - 1)
                        /\ \A i \in pos2[n] + 1 .. e - 1 : ~Fires(st[i - 1], log[i], n)
      BY DEF Ended
    <2>1. pos[n] < e
      BY <1>4, <1>5, SMT
    <2>2. /\ Runs(st, pos[n], e - 1)
          /\ \A i \in pos[n] + 1 .. e - 1 : ~Fires(st[i - 1], log[i], n)
      BY <2>1 DEF LogOK, Ended
    <2>3. \A i \in pos2[n] + 1 .. e - 1 : i \in pos[n] + 1 .. e - 1
      BY <1>4, <1>5, SMT
    <2> QED BY <1>5, <2>2, <2>3
  <1>7. Begun(st, pos2, H)
    <2> SUFFICES ASSUME NEW p \in DOMAIN st, NEW n \in H, n \in st[p].ready, pos2[n] < p
                 PROVE  Runs(st, pos2[n], p)
      BY DEF Begun
    <2>1. pos[n] < p
      BY <1>4, <1>5, SMT
    <2> QED BY <1>5, <2>1 DEF LogOK, Begun
  <1> QED BY <1>1, <1>2, <1>3, <1>6, <1>7 DEF LogOK

\* Cancel messages say nothing about the cycle.
Idles(log, st, log2, st2) ==
    \A i \in Len(log) + 1 .. Len(log2) : log2[i].type = "cancel" /\ st2[i] = st[Len(log)]

LEMMA AppendCancels ==
    ASSUME NEW log, NEW st, NEW pos, NEW log2, NEW st2, NEW G \in SUBSET Nodes,
           Shape(log, st, pos), Shape(log2, st2, pos), Longer(log, st, log2, st2),
           Idles(log, st, log2, st2), LogOK(log, st, pos, G)
    PROVE  LogOK(log2, st2, pos, G)
  <1> DEFINE L == Len(log)
             M == Len(log2)
             Old(i) == IF i <= L THEN i ELSE L
  <1>1. /\ L \in Nat /\ M \in Nat /\ L <= M
        /\ DOMAIN log = 1 .. L /\ DOMAIN st = 0 .. L
        /\ DOMAIN log2 = 1 .. M /\ DOMAIN st2 = 0 .. M
    BY SMT DEF Shape, Longer
  <1>2. /\ \A i \in 1 .. L : log2[i] = log[i]
        /\ \A i \in L + 1 .. M : log2[i].type = "cancel"
    BY DEF Longer, Idles
  <1>3. \A i \in 0 .. L : st2[i] = st[i]
    BY DEF Longer
  <1>4. \A i \in L + 1 .. M : st2[i] = st[L]
    BY DEF Idles
  <1> HIDE DEF L, M
  <1>5. ASSUME NEW i \in 0 .. M
        PROVE  Old(i) \in 0 .. L /\ st2[i] = st[Old(i)]
    <2>1. i \in 0 .. L \/ i \in L + 1 .. M
      BY <1>1, SMT
    <2>2. CASE i \in 0 .. L
      BY <1>1, <1>3, <2>2, SMT
    <2>3. CASE i \in L + 1 .. M
      <3>1. Old(i) = L /\ L \in 0 .. L
        BY <1>1, <2>3, SMT
      <3> QED BY <1>4, <2>3, <3>1
    <2> QED BY <2>1, <2>2, <2>3
  <1>6. ASSUME NEW i \in 0 .. M, NEW j \in 0 .. M, i <= j
        PROVE  Old(i) <= Old(j)
    BY <1>1, <1>6, SMT
  <1>7. ASSUME NEW i \in 0 .. M, NEW j \in 0 .. M, NoEnd(log2, i, j)
        PROVE  NoEnd(log, Old(i), Old(j))
    <2> SUFFICES ASSUME NEW k \in Old(i) + 1 .. Old(j)
                 PROVE  log[k].type # "end"
      BY DEF NoEnd
    <2>1. k \in 1 .. L /\ k \in i + 1 .. j
      BY <1>1, SMT
    <2> QED BY <1>2, <1>7, <2>1 DEF NoEnd
  <1> HIDE DEF Old
  <1>8. \A p \in 0 .. M : Sane(st2[p], G)
    BY <1>1, <1>5 DEF LogOK
  <1>9. ASSUME NEW p \in 1 .. M
        PROVE  st2[p] = Step(st2[p - 1], log2[p]) /\ Fits(st2[p - 1], log2[p], G)
    <2>1. CASE p <= L
      <3>1. p \in 1 .. L /\ p \in 0 .. L /\ p - 1 \in 0 .. L
        BY <1>1, <2>1, SMT
      <3>2. st2[p] = st[p] /\ st2[p - 1] = st[p - 1] /\ log2[p] = log[p]
        BY <1>2, <1>3, <3>1
      <3> QED BY <1>1, <3>1, <3>2 DEF LogOK
    <2>2. CASE ~(p <= L)
      <3>1. p \in L + 1 .. M /\ (p - 1 = L \/ p - 1 \in L + 1 .. M) /\ L \in 0 .. L
        BY <1>1, <2>2, SMT
      <3>2. st2[p] = st[L] /\ log2[p].type = "cancel"
        BY <1>2, <1>4, <3>1
      <3>3. CASE p - 1 = L
        BY <1>3, <3>1, <3>2, <3>3 DEF Step, Fits
      <3>4. CASE p - 1 \in L + 1 .. M
        BY <1>4, <3>2, <3>4 DEF Step, Fits
      <3> QED BY <3>1, <3>3, <3>4
    <2> QED BY <2>1, <2>2
  <1>10. RunsOn(log2, st2)
    <2> SUFFICES ASSUME NEW i \in 0 .. M, NEW j \in 0 .. M, i <= j, st2[i].running, NoEnd(log2, i, j)
                 PROVE  st2[j].running
      BY <1>1 DEF RunsOn
    <2> QED BY <1>1, <1>5, <1>6, <1>7 DEF LogOK, RunsOn
  <1>15. OneCycle(st2)
    <2> SUFFICES ASSUME NEW i \in 0 .. M, NEW j \in 0 .. M, i <= j, Runs(st2, i, j)
                 PROVE  st2[i].no = st2[j].no
      BY <1>1 DEF OneCycle
    <2>1. ASSUME NEW k \in Old(i) .. Old(j)
          PROVE  st[k].running
      <3>1. CASE i <= L
        <4>1. k \in i .. j /\ k \in 0 .. L
          BY <1>1, <3>1, SMT DEF Old
        <4> QED BY <1>3, <4>1 DEF Runs
      <3>2. CASE ~(i <= L)
        <4>1. k = Old(i) /\ i \in i .. j
          BY <1>1, <3>2, SMT DEF Old
        <4> QED BY <1>5, <4>1 DEF Runs
      <3> QED BY <3>1, <3>2
    <2>2. st2[i] = st[Old(i)] /\ st2[j] = st[Old(j)] /\ Old(i) \in DOMAIN st /\ Old(j) \in DOMAIN st
      BY <1>1, <1>5
    <2>3. Old(i) <= Old(j) /\ Runs(st, Old(i), Old(j)) /\ OneCycle(st)
      BY <1>6, <2>1 DEF Runs, LogOK
    <2> QED BY <2>2, <2>3 DEF OneCycle
  <1>11. StaysLow(log2, st2, G)
    <2> SUFFICES ASSUME NEW i \in 0 .. M, NEW j \in 0 .. M, i <= j, st2[i].all_ready, st2[i].low \in G,
                        NoEnd(log2, i, j)
                 PROVE  st2[j].all_ready /\ st2[j].low = st2[i].low
      BY <1>1 DEF StaysLow
    <2>1. st2[i] = st[Old(i)] /\ st2[j] = st[Old(j)] /\ Old(i) \in DOMAIN st /\ Old(j) \in DOMAIN st
      BY <1>1, <1>5
    <2>2. Old(i) <= Old(j) /\ NoEnd(log, Old(i), Old(j))
      BY <1>6, <1>7
    <2>3. StaysLow(log, st, G)
      BY DEF LogOK
    <2> QED BY <2>1, <2>2, <2>3 DEF StaysLow
  <1>12. ASSUME NEW n \in G
         PROVE  pos[n] \in 0 .. L
    BY DEF Shape, L
  <1>13. Ended(log2, st2, pos, G)
    <2> SUFFICES ASSUME NEW e \in 1 .. M, NEW n \in G, log2[e].type = "end", pos[n] < e
                 PROVE  /\ Runs(st2, pos[n], e - 1)
                        /\ \A i \in pos[n] + 1 .. e - 1 : ~Fires(st2[i - 1], log2[i], n)
      BY <1>1 DEF Ended
    <2>1. e \in 1 .. L
      <3>1. e \notin L + 1 .. M
        BY <1>2
      <3> QED BY <1>1, <3>1, SMT
    <2>2. /\ Runs(st, pos[n], e - 1)
          /\ \A i \in pos[n] + 1 .. e - 1 : ~Fires(st[i - 1], log[i], n)
      BY <1>1, <1>2, <2>1 DEF LogOK, Ended
    <2>3. ASSUME NEW k \in pos[n] .. e - 1
          PROVE  st2[k].running
      <3>1. k \in 0 .. L
        BY <1>1, <1>12, <2>1, SMT
      <3> QED BY <1>3, <2>2, <3>1 DEF Runs
    <2>4. ASSUME NEW i \in pos[n] + 1 .. e - 1
          PROVE  ~Fires(st2[i - 1], log2[i], n)
      <3>1. i \in 1 .. L /\ i - 1 \in 0 .. L
        BY <1>1, <1>12, <2>1, SMT
      <3>2. st2[i - 1] = st[i - 1] /\ log2[i] = log[i]
        BY <1>2, <1>3, <3>1
      <3> QED BY <2>2, <3>2
    <2> QED BY <2>3, <2>4 DEF Runs
  <1>14. Begun(st2, pos, G)
    <2> SUFFICES ASSUME NEW p \in 0 .. M, NEW n \in G, n \in st2[p].ready, pos[n] < p,
                        NEW k \in pos[n] .. p
                 PROVE  st2[k].running
      BY <1>1 DEF Begun, Runs
    <2>1. k \in 0 .. M /\ Old(k) \in pos[n] .. Old(p)
      BY <1>1, <1>12, SMT DEF Old
    <2>2. n \in st[Old(p)].ready /\ Old(p) \in 0 .. L /\ st2[k] = st[Old(k)]
      BY <1>5, <2>1
    <2>3. CASE pos[n] < Old(p)
      BY <1>1, <2>1, <2>2, <2>3 DEF LogOK, Begun, Runs
    <2>4. CASE ~(pos[n] < Old(p))
      <3>1. Old(k) = Old(p)
        BY <1>1, <1>12, <2>1, <2>2, <2>4, SMT
      <3> QED BY <1>1, <2>2, <3>1 DEF LogOK, Sane
    <2> QED BY <2>3, <2>4
  <1> QED BY <1>1, <1>8, <1>9, <1>10, <1>11, <1>13, <1>14, <1>15 DEF LogOK

\* The event m is the next one.
Appends(log, st, log2, st2, m) ==
    /\ Len(log2) = Len(log) + 1 /\ log2[Len(log2)] = m
    /\ st2[Len(log2)] = Step(st[Len(log)], m)

\* A node that says it is ready, or that ends the cycle, has its reasons.
Timely(log, st, pos, G, m) ==
    /\ m.type = "ready" => Runs(st, pos[m.from], Len(log))
    /\ m.type = "end" => \A n \in G :
         /\ Runs(st, pos[n], Len(log))
         /\ \A i \in pos[n] + 1 .. Len(log) : ~Fires(st[i - 1], log[i], n)

\* Only a ready event makes a node ready.
LEMMA StepReady ==
    ASSUME NEW s \in View, NEW m \in Message, NEW n \in Step(s, m).ready
    PROVE  n \in s.ready \/ (m.type = "ready" /\ n = m.from)
  <1>1. ASSUME NEW t \in View
        PROVE  Look(t).ready = t.ready
    BY <1>1 DEF Look, View
  <1>2. CASE m.type = "start"
    BY <1>2, BeginsView DEF Step
  <1>3. CASE m.type = "ready"
    <2> DEFINE t == [s EXCEPT !.ready = @ \cup ({m.from} \cap s.nodes)]
    <2>1. t \in View
      BY SMT DEF View
    <2>2. t.ready = s.ready \cup ({m.from} \cap s.nodes)
      BY DEF View
    <2>3. Step(s, m).ready = t.ready
      BY <1>1, <1>3, <2>1 DEF Step
    <2> QED BY <1>3, <2>2, <2>3
  <1>4. CASE m.type = "end"
    BY <1>4 DEF Step, View
  <1>5. CASE m.type = "confchg"
    <2>1. Without(s, m) \in View /\ Without(s, m).ready = s.ready \ m.left
      BY <1>5, WithoutType DEF Without, View
    <2> QED BY <1>1, <1>5, <2>1 DEF Step
  <1>6. CASE m.type = "cancel"
    BY <1>6 DEF Step
  <1> QED BY <1>2, <1>3, <1>4, <1>5, <1>6, MessageFields

LEMMA AppendOne ==
    ASSUME NEW log, NEW st, NEW pos, NEW log2, NEW st2, NEW m \in Message, NEW G \in SUBSET Nodes,
           Shape(log, st, pos), Shape(log2, st2, pos), Longer(log, st, log2, st2),
           Appends(log, st, log2, st2, m), LogOK(log, st, pos, G),
           m.type = "start" => G \subseteq st[Len(log)].nodes, Fits(st[Len(log)], m, G),
           Timely(log, st, pos, G, m)
    PROVE  LogOK(log2, st2, pos, G)
  <1> DEFINE L == Len(log)
             M == Len(log2)
  <1>1. /\ L \in Nat /\ M = L + 1
        /\ DOMAIN log = 1 .. L /\ DOMAIN st = 0 .. L
        /\ DOMAIN log2 = 1 .. M /\ DOMAIN st2 = 0 .. M
    BY SMT DEF Shape, Appends
  <1>2. log2[M] = m /\ \A i \in 1 .. L : log2[i] = log[i]
    BY DEF Longer, Appends
  <1>3. st2[M] = Step(st[L], m) /\ \A i \in 0 .. L : st2[i] = st[i]
    BY DEF Longer, Appends
  <1>4. /\ st[L] \in View /\ Sane(st[L], G) /\ Fits(st[L], m, G) /\ (m.type = "start" => G \subseteq st[L].nodes)
        /\ L \in 0 .. L
    <2>1. L \in 0 .. L
      BY <1>1, SMT
    <2> QED BY <1>1, <2>1 DEF Shape, LogOK
  <1>5. Timely(log, st, pos, G, m) /\ \A n \in G : pos[n] \in 0 .. L
    BY DEF Shape
  <1>6. /\ m.type = "ready" => Runs(st, pos[m.from], L)
        /\ m.type = "end" => \A n \in G :
             Runs(st, pos[n], L) /\ \A i \in pos[n] + 1 .. L : ~Fires(st[i - 1], log[i], n)
    BY DEF Timely
  <1> HIDE DEF L, M
  <1>7. \A i \in 0 .. M : i \in 0 .. L \/ i = M
    BY <1>1, SMT
  <1>8. \A i \in 1 .. M : i \in 1 .. L \/ i = M
    BY <1>1, SMT
  <1>9. Sane(st2[M], G)
    BY <1>3, <1>4, StepSane
  <1>10. \A p \in 0 .. M : Sane(st2[p], G)
    BY <1>1, <1>3, <1>7, <1>9 DEF LogOK
  <1>11. ASSUME NEW p \in 1 .. M
         PROVE  st2[p] = Step(st2[p - 1], log2[p]) /\ Fits(st2[p - 1], log2[p], G)
    <2>1. CASE p \in 1 .. L
      <3>1. p \in 0 .. L /\ p - 1 \in 0 .. L
        BY <1>1, <2>1, SMT
      <3>2. st2[p] = st[p] /\ st2[p - 1] = st[p - 1] /\ log2[p] = log[p]
        BY <1>2, <1>3, <2>1, <3>1
      <3> QED BY <1>1, <2>1, <3>2 DEF LogOK
    <2>2. CASE p = M
      <3>1. p - 1 = L
        BY <1>1, <2>2, SMT
      <3> QED BY <1>2, <1>3, <1>4, <2>2, <3>1
    <2> QED BY <1>8, <2>1, <2>2
  <1>12. ASSUME NEW i \in 0 .. L, NEW j \in 0 .. L, NoEnd(log2, i, j)
         PROVE  NoEnd(log, i, j)
    <2> SUFFICES ASSUME NEW k \in i + 1 .. j
                 PROVE  log[k].type # "end"
      BY DEF NoEnd
    <2>1. k \in 1 .. L
      BY <1>1, SMT
    <2> QED BY <1>2, <1>12, <2>1 DEF NoEnd
  <1>13. ASSUME NEW i \in 0 .. L, NoEnd(log2, i, M)
         PROVE  NoEnd(log2, i, L) /\ m.type # "end"
    <2>1. M \in i + 1 .. M /\ \A k \in i + 1 .. L : k \in i + 1 .. M
      BY <1>1, SMT
    <2> QED BY <1>2, <1>13, <2>1 DEF NoEnd
  <1>14. \A i \in 0 .. L : i <= L
    BY <1>1, SMT
  <1>15. RunsOn(log2, st2)
    <2> SUFFICES ASSUME NEW i \in 0 .. M, NEW j \in 0 .. M, i <= j, st2[i].running, NoEnd(log2, i, j)
                 PROVE  st2[j].running
      BY <1>1 DEF RunsOn
    <2>1. ASSUME NEW k \in 0 .. L, i \in 0 .. L, i <= k, NoEnd(log2, i, k)
          PROVE  st[k].running
      BY <1>1, <1>3, <1>12, <2>1 DEF LogOK, RunsOn
    <2>2. CASE j \in 0 .. L
      <3>1. i \in 0 .. L
        BY <1>1, <2>2, SMT
      <3> QED BY <1>3, <2>1, <2>2, <3>1
    <2>3. CASE j = M /\ i \in 0 .. L
      <3>1. st[L].running /\ m.type # "end"
        BY <1>4, <1>13, <1>14, <2>1, <2>3
      <3>2. Step(st[L], m).running
        BY <1>4, <3>1, StepRuns
      <3> QED BY <1>3, <2>3, <3>2
    <2> QED BY <1>7, <2>2, <2>3
  <1>19. OneCycle(st2)
    <2> SUFFICES ASSUME NEW i \in 0 .. M, NEW j \in 0 .. M, i <= j, Runs(st2, i, j)
                 PROVE  st2[i].no = st2[j].no
      BY <1>1 DEF OneCycle
    <2>1. ASSUME NEW k \in 0 .. L, i \in 0 .. L, i <= k, k <= j
          PROVE  st[i].no = st[k].no /\ st[k].running
      <3>1. k \in i .. j /\ \A h \in i .. k : h \in i .. j /\ h \in 0 .. L
        BY <1>1, <2>1, SMT
      <3>2. Runs(st, i, k) /\ OneCycle(st)
        BY <1>3, <3>1 DEF Runs, LogOK
      <3> QED BY <1>1, <1>3, <2>1, <3>1, <3>2 DEF OneCycle, Runs
    <2>2. CASE j \in 0 .. L
      <3>1. i \in 0 .. L /\ j <= j
        BY <1>1, <2>2, SMT
      <3> QED BY <1>3, <2>1, <2>2, <3>1
    <2>3. CASE j = M /\ i \in 0 .. L
      <3>1. L <= j
        BY <1>1, <2>3, SMT
      <3>2. st[i].no = st[L].no /\ st[L].running
        BY <1>4, <1>14, <2>1, <2>3, <3>1
      <3>3. Step(st[L], m).no = st[L].no
        BY <1>4, <3>2, StepNo
      <3> QED BY <1>3, <2>3, <3>2, <3>3
    <2>4. CASE i = M
      <3>1. j = M
        BY <1>1, <2>4, SMT
      <3> QED BY <2>4, <3>1
    <2> QED BY <1>7, <2>2, <2>3, <2>4
  <1>16. StaysLow(log2, st2, G)
    <2> SUFFICES ASSUME NEW i \in 0 .. M, NEW j \in 0 .. M, i <= j, st2[i].all_ready, st2[i].low \in G,
                        NoEnd(log2, i, j)
                 PROVE  st2[j].all_ready /\ st2[j].low = st2[i].low
      BY <1>1 DEF StaysLow
    <2>1. ASSUME NEW k \in 0 .. L, i \in 0 .. L, i <= k, NoEnd(log2, i, k)
          PROVE  st[k].all_ready /\ st[k].low = st[i].low
      <3>1. StaysLow(log, st, G) /\ NoEnd(log, i, k)
        BY <1>12, <2>1 DEF LogOK
      <3> QED BY <1>1, <1>3, <2>1, <3>1 DEF StaysLow
    <2>2. CASE j \in 0 .. L
      <3>1. i \in 0 .. L
        BY <1>1, <2>2, SMT
      <3> QED BY <1>3, <2>1, <2>2, <3>1
    <2>3. CASE j = M /\ i \in 0 .. L
      <3>1. m.type # "end" /\ st[L].all_ready /\ st[L].low = st[i].low /\ st2[i] = st[i]
        BY <1>3, <1>4, <1>13, <1>14, <2>1, <2>3
      <3>2. Step(st[L], m).all_ready /\ Step(st[L], m).low = st[L].low
        BY <1>4, <3>1, StepLow
      <3> QED BY <1>3, <2>3, <3>1, <3>2
    <2> QED BY <1>7, <2>2, <2>3
  <1>17. Ended(log2, st2, pos, G)
    <2> SUFFICES ASSUME NEW e \in 1 .. M, NEW n \in G, log2[e].type = "end", pos[n] < e
                 PROVE  /\ Runs(st2, pos[n], e - 1)
                        /\ \A i \in pos[n] + 1 .. e - 1 : ~Fires(st2[i - 1], log2[i], n)
      BY <1>1 DEF Ended
    <2>1. /\ Runs(st, pos[n], e - 1)
          /\ \A i \in pos[n] + 1 .. e - 1 : ~Fires(st[i - 1], log[i], n)
      <3>1. CASE e \in 1 .. L
        BY <1>1, <1>2, <3>1 DEF LogOK, Ended
      <3>2. CASE e = M
        <4>1. e - 1 = L
          BY <1>1, <3>2, SMT
        <4> QED BY <1>2, <1>6, <3>2, <4>1
      <3> QED BY <1>8, <3>1, <3>2
    <2>2. ASSUME NEW k \in pos[n] .. e - 1
          PROVE  st2[k].running
      <3>1. k \in 0 .. L
        BY <1>1, <1>5, SMT
      <3> QED BY <1>3, <2>1, <3>1 DEF Runs
    <2>3. ASSUME NEW i \in pos[n] + 1 .. e - 1
          PROVE  ~Fires(st2[i - 1], log2[i], n)
      <3>1. i \in 1 .. L /\ i - 1 \in 0 .. L
        BY <1>1, <1>5, SMT
      <3>2. st2[i - 1] = st[i - 1] /\ log2[i] = log[i]
        BY <1>2, <1>3, <3>1
      <3> QED BY <2>1, <3>2
    <2> QED BY <2>2, <2>3 DEF Runs
  <1>18. Begun(st2, pos, G)
    <2> SUFFICES ASSUME NEW p \in 0 .. M, NEW n \in G, n \in st2[p].ready, pos[n] < p,
                        NEW k \in pos[n] .. p
                 PROVE  st2[k].running
      BY <1>1 DEF Begun, Runs
    <2>1. CASE p \in 0 .. L
      <3>1. k \in 0 .. L
        BY <1>1, <1>5, <2>1, SMT
      <3> QED BY <1>1, <1>3, <2>1, <3>1 DEF LogOK, Begun, Runs
    <2>2. CASE p = M
      <3>1. CASE k = M
        BY <1>9, <2>2, <3>1 DEF Sane
      <3>2. CASE k # M
        <4>1. k \in 0 .. L /\ k \in pos[n] .. L
          BY <1>1, <1>5, <2>2, <3>2, SMT
        <4>2. Runs(st, pos[n], L)
          <5>1. CASE n \in st[L].ready /\ pos[n] < L
            BY <1>1, <1>4, <5>1 DEF LogOK, Begun
          <5>2. CASE n \in st[L].ready /\ ~(pos[n] < L)
            <6>1. pos[n] = L /\ \A i \in L .. L : i = L
              BY <1>1, <1>5, <5>2, SMT
            <6> QED BY <1>4, <5>2, <6>1 DEF Sane, Runs
          <5>3. CASE m.type = "ready" /\ n = m.from
            BY <1>6, <5>3
          <5> QED BY <1>3, <1>4, <2>2, <5>1, <5>2, <5>3, StepReady
        <4> QED BY <1>3, <4>1, <4>2 DEF Runs
      <3> QED BY <3>1, <3>2
    <2> QED BY <1>7, <2>1, <2>2
  <1> QED BY <1>1, <1>10, <1>11, <1>15, <1>16, <1>17, <1>18, <1>19 DEF LogOK

-----------------------------------------------------------------------------
(* The handlers keep the types *)

\* What is left on the list of transactions when one is cancelled of those that a reduction of
\* the graph of some locks left.  DeadlockProofs shows that these are transactions.
Kept(lkbs, g) ==
    UNION {UNION {cancel_trans(g, x, rem).trans : rem \in Remembered(lkbs, x)} : x \in Cancellable(g)}

Listed == UNION {Kept(lkbs, reduce_waitfor_graph_loop(create_waitfor_graph(lkbs))) : lkbs \in SUBSET LockType}

DaemonRecord == [init : BOOLEAN, nodes : SUBSET Nodes, in_cycle : SUBSET Nodes, ready : SUBSET Nodes,
                 running : BOOLEAN, all_ready : BOOLEAN, low : Nodes \cup {NoNode},
                 lkbs : SUBSET LockType, transactions : SUBSET Listed]

Daemons == {d \in DaemonRecord : d.in_cycle \cup d.ready \subseteq d.nodes}

\* The messages of find_deadlock: cancels, if any, and the end of the cycle
Ending(out) ==
    /\ out \in Seq(Message) /\ Len(out) > 0 /\ out[Len(out)] = CycleEndMsg
    /\ \A i \in 1 .. Len(out) - 1 : out[i].type = "cancel"

LEMMA ModesType == IV \in Modes /\ NL \in Modes /\ EX \in Modes
  BY SMT DEF IV, NL, EX, Modes

LEMMA StatusType == UNSET \in Status /\ GRANTED \in Status /\ WAITING \in Status
  BY DEF Status

\* What is read from debugfs and from checkpoints is locks.
LEMMA AddLocksType ==
    ASSUME NEW lkbs \in SUBSET LockType, NEW new \in SUBSET LockType
    PROVE  AddLocks(lkbs, new) \in SUBSET LockType
  <1>1. ASSUME NEW lock \in new, NEW old \in lkbs
        PROVE  Merge(old, lock) \in LockType
    <2>1. lock \in LockType /\ old \in LockType
      OBVIOUS
    <2>2. [old EXCEPT !.xid = lock.xid] \in LockType /\ [lock EXCEPT !.xid = old.xid] \in LockType
      BY <2>1 DEF LockType
    <2> QED BY <2>2 DEF Merge
  <1>2. ASSUME NEW lock \in new
        PROVE  add_lock(lkbs, lock) \subseteq LockType
    BY <1>1 DEF add_lock, get_lkb
  <1> QED BY <1>2 DEF AddLocks

LEMMA TakenType ==
    ASSUME NEW lock \in LockType, NEW from \in Nodes
    PROVE  Taken(lock, from) \in LockType /\ Taken(lock, from).id = lock.id
  <1>1. /\ [lock EXCEPT !.home = from] \in LockType
        /\ [lock EXCEPT !.home = from].id = lock.id
        /\ [lock EXCEPT !.status = UNSET, !.grmode = NL, !.rqmode = NL] \in LockType
        /\ [lock EXCEPT !.status = UNSET, !.grmode = NL, !.rqmode = NL].id = lock.id
    BY ModesType, StatusType DEF LockType
  <1> QED BY <1>1 DEF Taken

LEMMA DebugfsType ==
    ASSUME NEW n, NEW m, NEW S \in SUBSET LockType
    PROVE  Debugfs(n, m, S) \in SUBSET LockType
  <1>1. ASSUME NEW lock \in LockType
        PROVE  set_copy(n, m, lock) \in LockType
    <2>1. 0 \in Xids \cup {0} /\ LOCAL_COPY \in {LOCAL_COPY, MASTER_COPY}
          /\ MASTER_COPY \in {LOCAL_COPY, MASTER_COPY}
      OBVIOUS
    <2>2. /\ [lock EXCEPT !.copy = LOCAL_COPY] \in LockType
          /\ [lock EXCEPT !.copy = MASTER_COPY, !.xid = 0] \in LockType
          /\ [lock EXCEPT !.copy = MASTER_COPY, !.status = UNSET, !.grmode = NL, !.rqmode = NL] \in LockType
      BY <2>1, ModesType, StatusType DEF LockType
    <2> QED BY <2>2 DEF set_copy
  <1> QED BY <1>1 DEF Debugfs

\* find_deadlock changes the transactions only, and ends the cycle in any case.
LEMMA FindDeadlock ==
    ASSUME NEW n \in Nodes, NEW d \in Daemons, NEW r \in find_deadlock(n, d)
    PROVE  /\ r.d = [d EXCEPT !.transactions = r.d.transactions]
           /\ r.d.transactions \in SUBSET Listed
           /\ Ending(r.out)
  <1>1. CycleEndMsg \in Message
    BY DEF CycleEndMsg, Message
  <1>2. CASE r \in NothingFound(d)
    <2>1. r.d = d /\ r.out = <<CycleEndMsg>>
      BY <1>2, SMT DEF NothingFound
    <2>2. d = [d EXCEPT !.transactions = d.transactions] /\ d.transactions \in SUBSET Listed
      BY DEF Daemons, DaemonRecord
    <2>3. Ending(<<CycleEndMsg>>)
      BY <1>1, SMT DEF Ending
    <2> QED BY <2>1, <2>2, <2>3
  <1>3. CASE r \notin NothingFound(d)
    <2> DEFINE h == create_waitfor_graph(d.lkbs)
               g == reduce_waitfor_graph_loop(h)
    <2>1. r \in Cancelled(n, d, g)
      BY <1>3 DEF find_deadlock
    <2> HIDE DEF g
    <2> DEFINE Result(x, rem, cancels) == [d |-> [d EXCEPT !.transactions = cancel_trans(g, x, rem).trans],
                                           out |-> cancels \o <<CycleEndMsg>>, found |-> g.trans]
               Results(x) == {Result(x, rem, cancels) : rem \in Remembered(d.lkbs, x),
                                                        cancels \in CancelMessages(n, d, x)}
    <2>4. Cancelled(n, d, g) = UNION {Results(x) : x \in Cancellable(g)}
      BY SMT DEF Cancelled
    <2> HIDE DEF Results
    <2>5. PICK x \in Cancellable(g) : r \in Results(x)
      BY <2>1, <2>4
    <2> HIDE DEF Result
    <2>6. PICK rem \in Remembered(d.lkbs, x), cancels \in CancelMessages(n, d, x) : r = Result(x, rem, cancels)
      BY <2>5, SMT DEF Results
    <2>7. /\ r.d = [d EXCEPT !.transactions = cancel_trans(g, x, rem).trans]
          /\ r.out = cancels \o <<CycleEndMsg>>
      BY <2>6, SMT DEF Result
    <2>8. cancel_trans(g, x, rem).trans \in SUBSET Listed
      <3>1. d.lkbs \in SUBSET LockType
        BY DEF Daemons, DaemonRecord
      <3>2. cancel_trans(g, x, rem).trans \subseteq Kept(d.lkbs, g)
        BY SMT DEF Kept
      <3> QED BY <3>1, <3>2 DEF Listed, g
    <2>9. cancels \in Seq(Message) /\ \A i \in 1 .. Len(cancels) : cancels[i].type = "cancel"
      <3> DEFINE msgs == {send_cancel_lock(n, lkb) : lkb \in WaitingLocks(d.lkbs, x)}
      <3>1. ASSUME NEW m \in msgs
            PROVE  m \in Message /\ m.type = "cancel"
        <4>1. PICK lkb \in WaitingLocks(d.lkbs, x) : m = send_cancel_lock(n, lkb)
          OBVIOUS
        <4>2. lkb.home \in Nodes /\ lkb.id \in Xids \X Rsbs
          BY DEF WaitingLocks, Daemons, DaemonRecord, LockType
        <4> QED BY <4>1, <4>2 DEF send_cancel_lock, Message
      <3>2. PICK k \in 0 .. Cardinality(msgs) : cancels \in [1 .. k -> msgs]
        BY DEF CancelMessages
      <3> HIDE DEF msgs
      <3>3. k \in Nat
        BY SMT
      <3> QED BY <3>1, <3>2, <3>3, SMT
    <2>10. Ending(r.out)
      <3> DEFINE out == cancels \o <<CycleEndMsg>>
      <3>1. /\ out \in Seq(Message) /\ Len(out) = Len(cancels) + 1 /\ Len(cancels) \in Nat
            /\ out[Len(out)] = CycleEndMsg /\ \A i \in 1 .. Len(out) - 1 : i \in 1 .. Len(cancels) /\ out[i] = cancels[i]
        BY <1>1, <2>9, SMT
      <3>2. Len(out) > 0
        BY <3>1, SMT
      <3> HIDE DEF out
      <3>3. Ending(out)
        BY <2>9, <3>1, <3>2 DEF Ending
      <3> QED BY <2>7, <3>3 DEF out
    <2>11. r.d.transactions = cancel_trans(g, x, rem).trans
      BY <2>7 DEF Daemons, DaemonRecord
    <2> QED BY <2>7, <2>8, <2>10, <2>11
  <1> QED BY <1>2, <1>3

\* A handler's result: the daemon, and nothing sent or the end of the cycle
Outcome(r, d) == /\ r.d \in Daemons /\ r.d.init = d.init
                 /\ r.out = <<>> \/ Ending(r.out)

LEMMA QuietResult ==
    ASSUME NEW d, NEW r \in Quiet(d)
    PROVE  r.d = d /\ r.out = <<>>
  BY SMT DEF Quiet

\* run_deadlock sets the flag and the lowest node if the cycle's checkpoints are ready, and
\* sends something only if it is that node.
LEMMA RunDeadlock ==
    ASSUME NEW n \in Nodes, NEW d \in Daemons, NEW r \in run_deadlock(n, d)
    PROVE  /\ Outcome(r, d)
           /\ r.d.lkbs = d.lkbs
           /\ r.d.running = d.running /\ r.d.nodes = d.nodes /\ r.d.in_cycle = d.in_cycle /\ r.d.ready = d.ready
           /\ IF d.nodes \cap d.in_cycle \subseteq d.ready
              THEN r.d.all_ready /\ r.d.low = Lowest(d.nodes \cap d.in_cycle)
              ELSE r.d.all_ready = d.all_ready /\ r.d.low = d.low
           /\ r.out # <<>> => d.nodes \cap d.in_cycle \subseteq d.ready /\ Lowest(d.nodes \cap d.in_cycle) = n
  <1> DEFINE cycle == d.nodes \cap d.in_cycle
             e == [d EXCEPT !.all_ready = TRUE, !.low = Lowest(cycle)]
  <1>1. CASE ~(cycle \subseteq d.ready)
    <2>1. r \in Quiet(d)
      BY <1>1 DEF run_deadlock
    <2> QED BY <1>1, <2>1, QuietResult DEF Outcome
  <1>2. CASE cycle \subseteq d.ready
    <2>1. cycle \in SUBSET Nodes
      BY DEF Daemons, DaemonRecord
    <2>2. Lowest(cycle) \in Nodes \cup {NoNode}
      BY <2>1, LowestType
    <2>3. /\ e.init = d.init /\ e.lkbs = d.lkbs /\ e.running = d.running /\ e.nodes = d.nodes
          /\ e.in_cycle = d.in_cycle /\ e.ready = d.ready /\ e.all_ready /\ e.low = Lowest(cycle)
      BY DEF Daemons, DaemonRecord
    <2>4. e \in DaemonRecord
      BY <2>2 DEF Daemons, DaemonRecord
    <2>5. e \in Daemons
      BY <2>3, <2>4 DEF Daemons
    <2>6. r \in IF Lowest(cycle) = n THEN find_deadlock(n, e) ELSE Quiet(e)
      BY <1>2 DEF run_deadlock
    <2> HIDE DEF e
    <2>7. CASE Lowest(cycle) = n
      <3>1. /\ r.d = [e EXCEPT !.transactions = r.d.transactions]
            /\ r.d.transactions \in SUBSET Listed /\ Ending(r.out)
        BY <2>5, <2>6, <2>7, FindDeadlock
      <3> DEFINE T == r.d.transactions
                 u == [e EXCEPT !.transactions = T]
      <3>2. T \in SUBSET Listed /\ r.d = u
        BY <3>1
      <3> HIDE DEF T
      <3>3. /\ u \in DaemonRecord
            /\ u.init = e.init /\ u.lkbs = e.lkbs /\ u.running = e.running /\ u.nodes = e.nodes
            /\ u.in_cycle = e.in_cycle /\ u.ready = e.ready /\ u.all_ready = e.all_ready /\ u.low = e.low
        BY <2>4, <3>2 DEF DaemonRecord
      <3> HIDE DEF u
      <3>4. u \in Daemons
        BY <2>5, <3>3 DEF Daemons
      <3> QED BY <1>2, <2>3, <2>7, <3>1, <3>2, <3>3, <3>4 DEF Outcome
    <2>8. CASE Lowest(cycle) # n
      BY <1>2, <2>3, <2>5, <2>6, <2>8, QuietResult DEF Outcome
    <2> QED BY <2>7, <2>8
  <1> QED BY <1>1, <1>2

\* receive_checkpoint_ready reads the checkpoint first.
Ready(n, d, from, c) ==
    [d EXCEPT !.lkbs = read_checkpoint(n, d, from, c), !.ready = @ \cup ({from} \cap d.nodes)]

LEMMA ReadyResult ==
    ASSUME NEW n \in Nodes, NEW d \in Daemons, NEW from \in Nodes, NEW c \in SUBSET LockType,
           NEW r \in receive_checkpoint_ready(n, d, from, c)
    PROVE  /\ Ready(n, d, from, c) \in Daemons
           /\ r \in run_deadlock(n, Ready(n, d, from, c))
           /\ Ready(n, d, from, c).init = d.init
  <1>1. read_checkpoint(n, d, from, c) \in SUBSET LockType
    <2>1. d.lkbs \in SUBSET LockType
      BY DEF Daemons, DaemonRecord
    <2>2. {Taken(lock, from) : lock \in c} \in SUBSET LockType
      BY TakenType
    <2> QED BY <2>1, <2>2, AddLocksType DEF read_checkpoint
  <1>2. d.ready \cup ({from} \cap d.nodes) \in SUBSET Nodes
    BY DEF Daemons, DaemonRecord
  <1>3. /\ Ready(n, d, from, c) \in DaemonRecord
        /\ Ready(n, d, from, c).ready = d.ready \cup ({from} \cap d.nodes)
        /\ Ready(n, d, from, c).nodes = d.nodes /\ Ready(n, d, from, c).in_cycle = d.in_cycle
        /\ Ready(n, d, from, c).init = d.init
    BY <1>1, <1>2 DEF Ready, Daemons, DaemonRecord
  <1>4. Ready(n, d, from, c) \in Daemons
    BY <1>3 DEF Daemons
  <1>5. r \in run_deadlock(n, Ready(n, d, from, c))
    BY DEF receive_checkpoint_ready, Ready
  <1> QED BY <1>3, <1>4, <1>5

LEMMA PurgeType ==
    ASSUME NEW d \in Daemons, NEW left
    PROVE  /\ purge_locks(d, left) \in Daemons
           /\ purge_locks(d, left) = [d EXCEPT !.lkbs = purge_locks(d, left).lkbs]
           /\ purge_locks(d, left).lkbs \subseteq d.lkbs
  <1> DEFINE L == {lkb \in d.lkbs : lkb.home \notin left}
             e == [d EXCEPT !.lkbs = L]
  <1>1. purge_locks(d, left) = e
    BY DEF purge_locks
  <1>2. L \in SUBSET LockType /\ L \subseteq d.lkbs
    BY DEF Daemons, DaemonRecord
  <1> HIDE DEF L
  <1>3. e \in DaemonRecord /\ e.in_cycle = d.in_cycle /\ e.ready = d.ready /\ e.nodes = d.nodes /\ e.lkbs = L
    BY <1>2 DEF Daemons, DaemonRecord
  <1>4. e \in Daemons
    BY <1>3 DEF Daemons
  <1> QED BY <1>1, <1>2, <1>3, <1>4

LEMMA UpdateType ==
    ASSUME NEW d \in Daemons, NEW m \in Message, m.type = "confchg"
    PROVE  /\ UpdateNodes(d, m) \in Daemons
           /\ UpdateNodes(d, m).init = d.init /\ UpdateNodes(d, m).running = d.running
           /\ UpdateNodes(d, m).all_ready = d.all_ready /\ UpdateNodes(d, m).low = d.low
           /\ UpdateNodes(d, m).nodes = (d.nodes \cup m.joined) \ m.left
           /\ UpdateNodes(d, m).in_cycle = d.in_cycle \ m.left
           /\ UpdateNodes(d, m).ready = d.ready \ m.left
           /\ UpdateNodes(d, m).lkbs = d.lkbs /\ UpdateNodes(d, m).transactions = d.transactions
  <1>1. m.joined \in SUBSET Nodes /\ m.left \in SUBSET Nodes
    BY MessageFields
  <1> DEFINE N == (d.nodes \cup m.joined) \ m.left
             I == d.in_cycle \ m.left
             R == d.ready \ m.left
             e == [d EXCEPT !.nodes = N, !.in_cycle = I, !.ready = R]
  <1>2. N \in SUBSET Nodes /\ I \in SUBSET Nodes /\ R \in SUBSET Nodes /\ I \cup R \subseteq N
    BY <1>1 DEF Daemons, DaemonRecord
  <1>3. UpdateNodes(d, m) = e
    BY DEF UpdateNodes
  <1> HIDE DEF N, I, R
  <1>4. /\ e \in DaemonRecord /\ e.nodes = N /\ e.in_cycle = I /\ e.ready = R
        /\ e.init = d.init /\ e.running = d.running /\ e.all_ready = d.all_ready /\ e.low = d.low
        /\ e.lkbs = d.lkbs /\ e.transactions = d.transactions
    BY <1>2 DEF Daemons, DaemonRecord
  <1>5. e \in Daemons
    BY <1>2, <1>4 DEF Daemons
  <1> QED BY <1>3, <1>4, <1>5 DEF N, I, R

LEMMA FirstType ==
    ASSUME NEW S \in SUBSET Nodes, NEW ev, ev.members = S
    PROVE  /\ FirstConfchg(NewDaemon, ev) \in Daemons /\ NewDaemon \in Daemons
           /\ FirstConfchg(NewDaemon, ev) = [NewDaemon EXCEPT !.init = TRUE, !.nodes = S]
  <1>1. NewDaemon \in Daemons
    BY DEF NewDaemon, Daemons, DaemonRecord
  <1>2. FirstConfchg(NewDaemon, ev) = [NewDaemon EXCEPT !.init = TRUE, !.nodes = S]
    BY DEF FirstConfchg
  <1>3. [NewDaemon EXCEPT !.init = TRUE, !.nodes = S] \in Daemons
    BY DEF NewDaemon, Daemons, DaemonRecord
  <1> QED BY <1>1, <1>2, <1>3

-----------------------------------------------------------------------------
(* The handlers follow Step *)

LEMMA EndingSends ==
    ASSUME NEW out, Ending(out)
    PROVE  out # <<>>
  BY SMT DEF Ending

LEMMA RunAgrees ==
    ASSUME NEW n \in Nodes, NEW d \in Daemons, NEW s \in View, Agree(d, s), s.running,
           NEW r \in run_deadlock(n, d)
    PROVE  /\ Agree(r.d, Look(s))
           /\ r.out # <<>> => Look(s).all_ready /\ Look(s).low = n
  <1>1. d.nodes \cap d.in_cycle = InCycle(s) /\ d.ready = s.ready
    BY DEF Agree, InCycle
  <1>2. /\ r.d.running = d.running /\ r.d.nodes = d.nodes /\ r.d.in_cycle = d.in_cycle /\ r.d.ready = d.ready
        /\ IF InCycle(s) \subseteq s.ready
           THEN r.d.all_ready /\ r.d.low = Lowest(InCycle(s))
           ELSE r.d.all_ready = d.all_ready /\ r.d.low = d.low
        /\ r.out # <<>> => InCycle(s) \subseteq s.ready /\ Lowest(InCycle(s)) = n
        /\ r.d.all_ready \in BOOLEAN
    <2>1. r.d.all_ready \in BOOLEAN
      BY RunDeadlock DEF Outcome, Daemons, DaemonRecord
    <2>2. /\ r.d.running = d.running /\ r.d.nodes = d.nodes /\ r.d.in_cycle = d.in_cycle /\ r.d.ready = d.ready
          /\ IF d.nodes \cap d.in_cycle \subseteq d.ready
             THEN r.d.all_ready /\ r.d.low = Lowest(d.nodes \cap d.in_cycle)
             ELSE r.d.all_ready = d.all_ready /\ r.d.low = d.low
          /\ r.out # <<>> => d.nodes \cap d.in_cycle \subseteq d.ready /\ Lowest(d.nodes \cap d.in_cycle) = n
      BY RunDeadlock
    <2> QED BY <1>1, <2>1, <2>2
  <1>3. CASE InCycle(s) \subseteq s.ready
    <2> DEFINE u == [s EXCEPT !.all_ready = TRUE, !.low = Lowest(InCycle(s))]
    <2>1. Look(s) = u
      BY <1>3 DEF Look
    <2>2. /\ u.running = s.running /\ u.nodes = s.nodes /\ u.in_cycle = s.in_cycle /\ u.ready = s.ready
          /\ u.all_ready = TRUE /\ u.low = Lowest(InCycle(s))
      BY DEF View
    <2> HIDE DEF u
    <2>3. r.d.all_ready = TRUE
      BY <1>2, <1>3
    <2> QED BY <1>2, <1>3, <2>1, <2>2, <2>3 DEF Agree
  <1>4. CASE ~(InCycle(s) \subseteq s.ready)
    <2>1. Look(s) = s
      BY <1>4 DEF Look
    <2> QED BY <1>2, <1>4, <2>1 DEF Agree
  <1> QED BY <1>3, <1>4

\* What becomes of n's daemon when it has the event m, and what it sends
Handled(n, m, d, out) ==
    /\ d \in Daemons /\ d.init /\ out \in Seq(Message)
    /\ out = <<>> \/ Ending(out) \/ (m.type = "start" /\ ~dl[n].running /\ out = <<[type |-> "ready", from |-> n]>>)
    /\ dl[n].init =>
         /\ (m.type = "ready" => dl[n].running) /\ Clean(dl[n]) => Clean(d)
         /\ \A s \in View : Agree(dl[n], s) /\ (m.type = "ready" => s.running) =>
                Agree(d, Step(s, m)) /\ (Ending(out) => Fires(s, m, n))
    /\ ~dl[n].init => m.type = "confchg" /\ d = FirstConfchg(dl[n], m) /\ out = <<>>

LEMMA NoMessage == <<>> \in Seq(Message) /\ ~Ending(<<>>)
  BY EndingSends, SMT

LEMMA ReadyHandled ==
    ASSUME NEW n \in Nodes, NEW m \in Message, m.type = "ready", dl[n] \in Daemons, dl[n].init,
           NEW c \in SUBSET LockType, NEW r \in receive_checkpoint_ready(n, dl[n], m.from, c)
    PROVE  Handled(n, m, r.d, r.out)
  <1> DEFINE d == dl[n]
             e == Ready(n, d, m.from, c)
  <1>1. m.from \in Nodes
    BY MessageFields
  <1>2. e \in Daemons /\ r \in run_deadlock(n, e) /\ e.init = d.init
    BY <1>1, ReadyResult
  <1>3. /\ e.running = d.running /\ e.nodes = d.nodes /\ e.in_cycle = d.in_cycle
        /\ e.ready = d.ready \cup ({m.from} \cap d.nodes)
        /\ e.all_ready = d.all_ready /\ e.low = d.low
    BY DEF Ready, Daemons, DaemonRecord
  <1> HIDE DEF e
  <1>4. Outcome(r, e) /\ r.d.running = e.running
    BY <1>2, RunDeadlock
  <1>5. r.d \in Daemons /\ r.d.init /\ r.out \in Seq(Message) /\ (r.out = <<>> \/ Ending(r.out))
    BY <1>2, <1>4, NoMessage DEF Outcome, Ending
  <1>6. d.running => Clean(r.d)
    BY <1>3, <1>4 DEF Clean
  <1>7. ASSUME NEW s \in View, Agree(d, s), s.running
        PROVE  Agree(r.d, Step(s, m)) /\ (Ending(r.out) => Fires(s, m, n))
    <2> DEFINE t == [s EXCEPT !.ready = @ \cup ({m.from} \cap s.nodes)]
    <2>1. t \in View
      BY SMT DEF View
    <2>2. /\ t.running = s.running /\ t.nodes = s.nodes /\ t.in_cycle = s.in_cycle
          /\ t.ready = s.ready \cup ({m.from} \cap s.nodes) /\ t.all_ready = s.all_ready /\ t.low = s.low
      BY DEF View
    <2>3. Step(s, m) = Look(t)
      BY DEF Step
    <2> HIDE DEF t
    <2>4. Agree(e, t) /\ t.running
      BY <1>3, <1>7, <2>2 DEF Agree
    <2>5. Agree(r.d, Look(t)) /\ (r.out # <<>> => Look(t).all_ready /\ Look(t).low = n)
      BY <1>2, <2>1, <2>4, RunAgrees
    <2> QED BY <2>3, <2>5, EndingSends DEF Fires
  <1> HIDE DEF d
  <1> QED BY <1>5, <1>6, <1>7 DEF Handled, d

\* The daemon changes in no field that s knows of.
LEMMA AgreeOther ==
    ASSUME NEW d, NEW e, NEW s, Agree(d, s),
           e.running = d.running, e.nodes = d.nodes, e.in_cycle = d.in_cycle, e.ready = d.ready,
           e.all_ready = d.all_ready, e.low = d.low
    PROVE  Agree(e, s)
  BY DEF Agree

LEMMA ConfchgHandled ==
    ASSUME NEW n \in Nodes, NEW m \in Message, m.type = "confchg", dl[n] \in Daemons,
           ~dl[n].init => dl[n] = NewDaemon, NEW r \in deadlk_confchg(n, dl[n], m)
    PROVE  Handled(n, m, r.d, r.out)
  <1> DEFINE d == dl[n]
             e == UpdateNodes(d, m)
  <1>1. CASE ~d.init
    <2>1. r \in Quiet(FirstConfchg(d, m))
      BY <1>1 DEF deadlk_confchg
    <2>2. r.d = FirstConfchg(d, m) /\ r.out = <<>>
      BY <2>1, QuietResult
    <2>3. m.members \in SUBSET Nodes
      BY MessageFields
    <2>4. FirstConfchg(d, m) \in Daemons /\ FirstConfchg(d, m) = [NewDaemon EXCEPT !.init = TRUE, !.nodes = m.members]
      BY <1>1, <2>3, FirstType
    <2>5. FirstConfchg(d, m).init
      BY <2>4 DEF NewDaemon
    <2> HIDE DEF d
    <2> QED BY <1>1, <2>2, <2>4, <2>5, NoMessage DEF Handled, d
  <1>2. CASE d.init
    <2>1. /\ e \in Daemons /\ e.init = d.init /\ e.running = d.running
          /\ e.all_ready = d.all_ready /\ e.low = d.low
          /\ e.nodes = (d.nodes \cup m.joined) \ m.left
          /\ e.in_cycle = d.in_cycle \ m.left /\ e.ready = d.ready \ m.left
          /\ e.lkbs = d.lkbs /\ e.transactions = d.transactions
      BY UpdateType
    <2>2. ASSUME NEW s \in View, Agree(d, s)
          PROVE  Agree(e, Without(s, m))
      <3>1. LET t == Without(s, m)
            IN  /\ t.running = s.running /\ t.nodes = (s.nodes \cup m.joined) \ m.left
                /\ t.in_cycle = s.in_cycle \ m.left /\ t.ready = s.ready \ m.left
                /\ t.all_ready = s.all_ready /\ t.low = s.low
        BY DEF Without, View
      <3> QED BY <2>1, <2>2, <3>1 DEF Agree
    <2>3. \A s \in View : Without(s, m) \in View /\ Without(s, m).running = s.running
      BY WithoutType DEF Without, View
    <2>4. CASE ~d.running \/ m.left = {}
      <3>1. r \in Quiet(e)
        BY <1>2, <2>4 DEF deadlk_confchg
      <3>2. r.d = e /\ r.out = <<>>
        BY <3>1, QuietResult
      <3>3. ASSUME NEW s \in View, Agree(d, s)
            PROVE  Agree(r.d, Step(s, m))
        <4>1. Step(s, m) = Without(s, m)
          BY <2>4, <3>3 DEF Step, LooksAgain, Agree
        <4> QED BY <2>2, <3>2, <3>3, <4>1
      <3>4. Clean(d) => Clean(e)
        BY <2>1 DEF Clean
      <3> HIDE DEF d, e
      <3> QED BY <1>2, <2>1, <3>2, <3>3, <3>4, NoMessage DEF Handled, d
    <2>5. CASE d.running /\ m.left # {}
      <3>1. r \in LeftDuringCycle(n, e, m.left)
        BY <1>2, <2>5 DEF deadlk_confchg
      <3> DEFINE p == purge_locks(e, m.left)
      <3>2. p \in Daemons /\ p = [e EXCEPT !.lkbs = p.lkbs]
        BY <2>1, PurgeType
      <3>3. /\ p.init = e.init /\ p.running = e.running /\ p.nodes = e.nodes /\ p.in_cycle = e.in_cycle
            /\ p.ready = e.ready /\ p.all_ready = e.all_ready /\ p.low = e.low
        BY <2>1 DEF purge_locks, Daemons, DaemonRecord
      <3>4. \A s \in View : Agree(d, s) => Agree(p, Without(s, m))
        BY <2>2, <3>3, AgreeOther
      <3> HIDE DEF p, e, d
      <3>5. ASSUME NEW q \in {e, p}, r \in run_deadlock(n, q), ~d.all_ready \/ d.low \in m.left
            PROVE  Handled(n, m, r.d, r.out)
        <4>1. q \in Daemons /\ q.init = d.init /\ q.running = d.running
          BY <2>1, <3>2, <3>3
        <4>2. Outcome(r, q) /\ r.d.running = q.running
          BY <3>5, <4>1, RunDeadlock
        <4>3. r.d \in Daemons /\ r.d.init /\ r.out \in Seq(Message) /\ (r.out = <<>> \/ Ending(r.out))
          BY <1>2, <4>1, <4>2, NoMessage DEF Outcome, Ending
        <4>4. Clean(r.d)
          BY <2>5, <4>1, <4>2 DEF Clean
        <4>5. ASSUME NEW s \in View, Agree(d, s)
              PROVE  Agree(r.d, Step(s, m)) /\ (Ending(r.out) => Fires(s, m, n))
          <5>1. LooksAgain(s, m)
            BY <2>5, <3>5, <4>5 DEF LooksAgain, Agree
          <5>2. Step(s, m) = Look(Without(s, m))
            BY <5>1 DEF Step
          <5>3. Agree(q, Without(s, m)) /\ Without(s, m) \in View /\ Without(s, m).running
            <6>1. Agree(e, Without(s, m)) /\ Agree(p, Without(s, m))
              BY <2>2, <3>4, <4>5
            <6>2. s.running
              BY <2>5, <4>5 DEF Agree
            <6> QED BY <2>3, <6>1, <6>2
          <5>4. /\ Agree(r.d, Look(Without(s, m)))
                /\ r.out # <<>> => Look(Without(s, m)).all_ready /\ Look(Without(s, m)).low = n
            BY <3>5, <4>1, <5>3, RunAgrees
          <5> QED BY <5>1, <5>2, <5>4, EndingSends DEF Fires
        <4> QED BY <1>2, <4>3, <4>4, <4>5 DEF Handled, d
      <3>6. ASSUME r \in Quiet(p), d.all_ready, d.low \notin m.left
            PROVE  Handled(n, m, r.d, r.out)
        <4>1. r.d = p /\ r.out = <<>>
          BY <3>6, QuietResult
        <4>2. Clean(p)
          BY <2>1, <2>5, <3>3 DEF Clean
        <4>3. ASSUME NEW s \in View, Agree(d, s)
              PROVE  Agree(p, Step(s, m))
          <5>1. Step(s, m) = Without(s, m)
            BY <3>6, <4>3 DEF Step, LooksAgain, Agree
          <5> QED BY <3>4, <4>3, <5>1
        <4> QED BY <1>2, <2>1, <3>2, <3>3, <4>1, <4>2, <4>3, NoMessage DEF Handled, d
      <3> QED BY <2>1, <3>1, <3>5, <3>6 DEF LeftDuringCycle, p
    <2> QED BY <2>4, <2>5
  <1> QED BY <1>1, <1>2

-----------------------------------------------------------------------------
(* Types *)

\* dlm-kernel knows the transactions of its locks.
Known == {l \in LockType : l.xid # 0}

\* A node that has had no event gets the confchg of its joining first.
Fresh(n) == dl[n] = NewDaemon /\ (n \in group => inbox[n] # <<>> /\ Head(inbox[n]).type = "confchg")

\* The inductive invariant for TypeOK
Types ==
    /\ dl \in [Nodes -> Daemons] /\ inbox \in [Nodes -> Seq(Message)] /\ group \in SUBSET Nodes
    /\ ckpt \in [Nodes -> SUBSET LockType] /\ locks \in SUBSET Known /\ master \in [Rsbs -> Nodes]
    /\ starts \in Nat /\ begun \in [Nodes -> Cycles \cup {0}]
    /\ \A n \in Nodes : ~dl[n].init => Fresh(n)
    /\ \A n \in Nodes \ group : inbox[n] = <<>>

\* n takes its next event, its daemon becomes d, and out is sent to the group.
Delivered(n, d, out) ==
    /\ n \in group /\ inbox[n] # <<>>
    /\ dl' = [dl EXCEPT ![n] = d]
    /\ inbox' \in [Nodes -> Seq(Message)]
    /\ \A k \in Nodes : inbox'[k] = IF k \in group
                                    THEN (IF k = n THEN Tail(inbox[k]) ELSE inbox[k]) \o out ELSE inbox[k]
    /\ group' = group

LEMMA MulticastForm ==
    ASSUME NEW box \in [Nodes -> Seq(Message)], NEW out \in Seq(Message)
    PROVE  /\ Multicast(box, out) \in [Nodes -> Seq(Message)]
           /\ \A k \in Nodes : Multicast(box, out)[k] = IF k \in group THEN box[k] \o out ELSE box[k]
  <1>1. \A k \in Nodes : box[k] \o out \in Seq(Message) /\ box[k] \in Seq(Message)
    BY SMT
  <1> QED BY <1>1 DEF Multicast

LEMMA Delivery ==
    ASSUME Types, NEW n \in Nodes, n \in group, inbox[n] # <<>>, NEW d, NEW out \in Seq(Message),
           dl' = [dl EXCEPT ![n] = d], group' = group,
           \/ inbox' = Multicast([inbox EXCEPT ![n] = Tail(@)], out)
           \/ out = <<>> /\ inbox' = [inbox EXCEPT ![n] = Tail(@)]
    PROVE  Delivered(n, d, out)
  <1> DEFINE box == [inbox EXCEPT ![n] = Tail(@)]
  <1>1. inbox \in [Nodes -> Seq(Message)] /\ Tail(inbox[n]) \in Seq(Message)
    BY SMT DEF Types
  <1>2. box \in [Nodes -> Seq(Message)] /\ \A k \in Nodes : box[k] = IF k = n THEN Tail(inbox[k]) ELSE inbox[k]
    BY <1>1
  <1> HIDE DEF box
  <1>3. CASE inbox' = Multicast(box, out)
    <2>1. /\ inbox' \in [Nodes -> Seq(Message)]
          /\ \A k \in Nodes : inbox'[k] = IF k \in group THEN box[k] \o out ELSE box[k]
      BY <1>2, <1>3, MulticastForm
    <2>2. ASSUME NEW k \in Nodes
          PROVE  inbox'[k] = IF k \in group
                             THEN (IF k = n THEN Tail(inbox[k]) ELSE inbox[k]) \o out ELSE inbox[k]
      <3>1. CASE k \in group
        BY <1>2, <2>1, <3>1
      <3>2. CASE k \notin group
        BY <1>2, <2>1, <3>2
      <3> QED BY <3>1, <3>2
    <2> QED BY <2>1, <2>2 DEF Delivered
  <1>4. CASE out = <<>> /\ inbox' = box
    <2>1. \A k \in Nodes : box[k] \o <<>> = box[k]
      BY <1>2, SMT
    <2> QED BY <1>2, <1>4, <2>1 DEF Delivered
  <1> QED BY <1>3, <1>4 DEF box

LEMMA HeadType ==
    ASSUME Types, NEW n \in Nodes, inbox[n] # <<>>
    PROVE  Head(inbox[n]) \in Message
  BY SMT DEF Types

\* n begins a cycle.
Starting(n) == Head(inbox[n]).type = "start" /\ ~dl[n].running

\* What is recorded of n's beginning a cycle, when it sends out
Recorded(n, out) ==
    /\ begun' = IF Starting(n) THEN [begun EXCEPT ![n] = Head(inbox[n]).no] ELSE begun
    /\ unread' \ {n} = unread \ {n}
    /\ IF Starting(n) THEN out # <<>> => n \notin unread' ELSE unread' = unread

\* What a delivery is, whatever the event
Delivers(n) ==
    \E d, out : Handled(n, Head(inbox[n]), d, out) /\ Delivered(n, d, out) /\ Recorded(n, out)

LEMMA DeliverStart ==
    ASSUME Types, NEW n \in Nodes, CycleStart(n) \/ CycleStartUnreadable(n)
    PROVE  /\ Delivers(n) /\ ckpt' \in [Nodes -> SUBSET LockType]
           /\ UNCHANGED <<kernelVars, starts>>
  <1> DEFINE m == Head(inbox[n])
             d == dl[n]
  <1>1. n \in group /\ inbox[n] # <<>> /\ m.type = "start" /\ ~d.running
    BY DEF CycleStart, CycleStartUnreadable, Receives, Starts
  <1>2. m \in Message /\ d \in Daemons /\ d.init
    <2>1. d.init
      BY <1>1 DEF Types, Fresh
    <2> QED BY <1>1, <2>1, HeadType DEF Types
  <1>3. Debugfs(n, master, locks) \in SUBSET LockType /\ d.lkbs \in SUBSET LockType
    BY <1>2, DebugfsType DEF Types, Known, Daemons, DaemonRecord
  <1>4. ASSUME NEW L \in SUBSET LockType, NEW out \in {<<>>, <<[type |-> "ready", from |-> n]>>}
        PROVE  /\ Handled(n, m, [d EXCEPT !.running = TRUE, !.in_cycle = d.nodes, !.lkbs = L], out)
               /\ out \in Seq(Message)
    <2> DEFINE e == [d EXCEPT !.running = TRUE, !.in_cycle = d.nodes, !.lkbs = L]
    <2>1. /\ e \in DaemonRecord /\ e.running /\ e.running = TRUE /\ e.nodes = d.nodes /\ e.in_cycle = d.nodes
          /\ e.ready = d.ready /\ e.init = d.init /\ e.all_ready = d.all_ready /\ e.low = d.low
      BY <1>2 DEF Daemons, DaemonRecord
    <2> HIDE DEF e
    <2>2. e \in Daemons /\ Clean(e)
      BY <1>2, <2>1 DEF Daemons, Clean
    <2>3. [type |-> "ready", from |-> n] \in Message
      BY DEF Message
    <2>4. out \in Seq(Message)
      <3>1. <<[type |-> "ready", from |-> n]>> \in Seq(Message)
        BY <2>3, SMT
      <3> QED BY <3>1, NoMessage
    <2>5. ~Ending(out)
      <3>1. <<[type |-> "ready", from |-> n]>>[1] # CycleEndMsg /\ Len(<<[type |-> "ready", from |-> n]>>) = 1
        <4>1. [type |-> "ready", from |-> n].type # CycleEndMsg.type
          BY DEF CycleEndMsg
        <4> QED BY <4>1, SMT
      <3> QED BY <3>1, NoMessage DEF Ending
    <2>6. ASSUME NEW s \in View, Agree(d, s)
          PROVE  Agree(e, Step(s, m))
      <3>1. Step(s, m) = Begins(s, m)
        BY <1>1, <2>6 DEF Step, Agree
      <3>2. LET t == Begins(s, m)
            IN  /\ t.running = TRUE /\ t.nodes = s.nodes /\ t.in_cycle = s.nodes
                /\ t.ready = s.ready /\ t.all_ready = s.all_ready /\ t.low = s.low
        BY <1>1, <1>2, BeginsView
      <3> QED BY <2>1, <2>6, <3>1, <3>2 DEF Agree
    <2> HIDE DEF m, d
    <2>7. Handled(n, m, e, out)
      BY <1>1, <1>2, <2>1, <2>2, <2>4, <2>5, <2>6 DEF Handled, d
    <2> QED BY <2>4, <2>7 DEF e
  <1>5. CASE CycleStart(n)
    <2> DEFINE L == AddLocks(d.lkbs, Debugfs(n, master, locks))
               e == [d EXCEPT !.running = TRUE, !.in_cycle = d.nodes, !.lkbs = L]
               out == <<[type |-> "ready", from |-> n]>>
    <2>1. L \in SUBSET LockType
      BY <1>3, AddLocksType
    <2>2. /\ dl' = [dl EXCEPT ![n] = e] /\ ckpt' = [ckpt EXCEPT ![n] = e.lkbs]
          /\ inbox' = Multicast([inbox EXCEPT ![n] = Tail(@)], out)
          /\ UNCHANGED <<group, kernelVars, starts>>
      BY <1>5 DEF CycleStart, receive_cycle_start
    <2>3. e.lkbs = L
      BY <1>2 DEF Daemons, DaemonRecord
    <2> HIDE DEF L
    <2>4. Handled(n, m, e, out) /\ out \in Seq(Message)
      BY <1>4, <2>1
    <2>5. ckpt' \in [Nodes -> SUBSET LockType]
      BY <2>1, <2>2, <2>3 DEF Types
    <2>7. Recorded(n, out)
      <3>1. begun' = [begun EXCEPT ![n] = m.no] /\ unread' = unread \ {n}
        BY <1>5 DEF CycleStart, Notes
      <3> QED BY <1>1, <3>1 DEF Recorded, Starting
    <2> HIDE DEF e, out
    <2>6. Delivered(n, e, out)
      BY <1>1, <2>2, <2>4, Delivery
    <2> QED BY <2>2, <2>4, <2>5, <2>6, <2>7 DEF Delivers
  <1>6. CASE CycleStartUnreadable(n)
    <2> DEFINE e == [d EXCEPT !.running = TRUE, !.in_cycle = d.nodes, !.lkbs = d.lkbs]
    <2>1. e = [d EXCEPT !.running = TRUE, !.in_cycle = d.nodes]
      <3> DEFINE u == [d EXCEPT !.running = TRUE, !.in_cycle = d.nodes]
      <3>1. u \in DaemonRecord /\ u.lkbs = d.lkbs
        BY <1>2 DEF Daemons, DaemonRecord
      <3>2. e = [u EXCEPT !.lkbs = d.lkbs]
        OBVIOUS
      <3> HIDE DEF u, e
      <3>3. u = [u EXCEPT !.lkbs = u.lkbs]
        BY <3>1 DEF DaemonRecord
      <3> QED BY <3>1, <3>2, <3>3 DEF u
    <2>2. /\ dl' = [dl EXCEPT ![n] = e] /\ inbox' = [inbox EXCEPT ![n] = Tail(@)]
          /\ UNCHANGED <<ckpt, group, kernelVars, starts>>
      BY <1>6, <2>1 DEF CycleStartUnreadable, receive_cycle_start_Unreadable
    <2>3. Handled(n, m, e, <<>>) /\ <<>> \in Seq(Message)
      BY <1>3, <1>4
    <2> HIDE DEF e
    <2>4. Delivered(n, e, <<>>)
      BY <1>1, <2>2, <2>3, Delivery
    <2>5. Recorded(n, <<>>)
      <3>1. begun' = [begun EXCEPT ![n] = m.no] /\ unread' = unread \cup {n}
        BY <1>6 DEF CycleStartUnreadable, Notes
      <3> QED BY <1>1, <3>1 DEF Recorded, Starting
    <2> QED BY <2>2, <2>3, <2>4, <2>5 DEF Delivers, Types
  <1> QED BY <1>5, <1>6

\* A delivery of something else than a start message
LEMMA RecordsNothing ==
    ASSUME NEW n, NEW out, UNCHANGED <<begun, unread>>, ~Starting(n)
    PROVE  Recorded(n, out)
  BY DEF Recorded

\* Finish is a delivery.
LEMMA FinishDelivers ==
    ASSUME Types, NEW n \in Nodes, n \in group, inbox[n] # <<>>, NEW r, Finish(n, r),
           Head(inbox[n]).type # "start", Handled(n, Head(inbox[n]), r.d, r.out)
    PROVE  Delivers(n) /\ UNCHANGED <<ckpt, kernelVars, starts>>
  <1>1. /\ dl' = [dl EXCEPT ![n] = r.d] /\ inbox' = Multicast([inbox EXCEPT ![n] = Tail(@)], r.out)
        /\ UNCHANGED <<ckpt, group, kernelVars, starts, begun, unread>>
    BY DEF Finish
  <1>2. r.out \in Seq(Message)
    BY DEF Handled
  <1>3. Delivered(n, r.d, r.out)
    BY <1>1, <1>2, Delivery
  <1>4. Recorded(n, r.out)
    BY <1>1, RecordsNothing DEF Starting
  <1> QED BY <1>1, <1>3, <1>4 DEF Delivers

LEMMA DeliverReady ==
    ASSUME Types, NEW n \in Nodes, CheckpointReady(n)
    PROVE  Delivers(n) /\ UNCHANGED <<ckpt, kernelVars, starts>>
  <1> DEFINE m == Head(inbox[n])
  <1>1. n \in group /\ inbox[n] # <<>> /\ m.type = "ready"
    BY DEF CheckpointReady, Receives
  <1>2. m \in Message /\ dl[n] \in Daemons /\ dl[n].init
    <2>1. dl[n].init
      BY <1>1 DEF Types, Fresh
    <2> QED BY <1>1, <2>1, HeadType DEF Types
  <1>3. m.from \in Nodes
    BY <1>1, <1>2, MessageFields
  <1>4. ckpt[m.from] \in SUBSET LockType
    BY <1>3 DEF Types
  <1>5. PICK r \in receive_checkpoint_ready(n, dl[n], m.from, ckpt[m.from]) : Finish(n, r)
    BY DEF CheckpointReady
  <1>6. Handled(n, m, r.d, r.out)
    BY <1>1, <1>2, <1>4, ReadyHandled
  <1> QED BY <1>1, <1>5, <1>6, FinishDelivers

LEMMA DeliverConfchg ==
    ASSUME Types, NEW n \in Nodes, Confchg(n)
    PROVE  Delivers(n) /\ UNCHANGED <<ckpt, kernelVars, starts>>
  <1> DEFINE m == Head(inbox[n])
  <1>1. n \in group /\ inbox[n] # <<>> /\ m.type = "confchg"
    BY DEF Confchg, Receives
  <1>2. m \in Message /\ dl[n] \in Daemons /\ (~dl[n].init => dl[n] = NewDaemon)
    <2>1. ~dl[n].init => dl[n] = NewDaemon
      BY DEF Types, Fresh
    <2> QED BY <1>1, <2>1, HeadType DEF Types
  <1>3. PICK r \in deadlk_confchg(n, dl[n], m) : Finish(n, r)
    BY DEF Confchg
  <1>4. Handled(n, m, r.d, r.out)
    BY <1>1, <1>2, ConfchgHandled
  <1> QED BY <1>1, <1>3, <1>4, FinishDelivers

LEMMA DeliverEnd ==
    ASSUME Types, NEW n \in Nodes, CycleEnd(n)
    PROVE  /\ Delivers(n) /\ ckpt' \in [Nodes -> SUBSET LockType]
           /\ UNCHANGED <<kernelVars, starts>>
  <1> DEFINE m == Head(inbox[n])
             d == dl[n]
             e == receive_cycle_end(d)
  <1>1. /\ n \in group /\ inbox[n] # <<>> /\ m.type = "end" /\ d.running
        /\ dl' = [dl EXCEPT ![n] = e] /\ inbox' = [inbox EXCEPT ![n] = Tail(@)]
        /\ ckpt' = [ckpt EXCEPT ![n] = {}] /\ UNCHANGED <<group, kernelVars, starts, begun, unread>>
    BY DEF CycleEnd, Receives, Ends, history
  <1>2. m \in Message /\ d \in Daemons /\ d.init
    <2>1. d.init
      BY <1>1 DEF Types, Fresh
    <2> QED BY <1>1, <2>1, HeadType DEF Types
  <1>3. ckpt' \in [Nodes -> SUBSET LockType]
    <2>1. {} \in SUBSET LockType
      OBVIOUS
    <2> QED BY <1>1, <2>1 DEF Types
  <1>4. /\ e \in DaemonRecord /\ e.running = FALSE /\ e.all_ready = FALSE /\ e.ready = {} /\ e.lkbs = {}
        /\ e.transactions = {} /\ e.nodes = d.nodes /\ e.in_cycle = d.in_cycle /\ e.init = d.init
    BY <1>2 DEF receive_cycle_end, Daemons, DaemonRecord
  <1> HIDE DEF e
  <1>5. e \in Daemons /\ Clean(e)
    BY <1>2, <1>4 DEF Daemons, Clean
  <1>6. ASSUME NEW s \in View, Agree(d, s)
        PROVE  Agree(e, Step(s, m))
    <2>1. Step(s, m) = [s EXCEPT !.running = FALSE, !.all_ready = FALSE, !.ready = {}]
      BY <1>1, <1>6 DEF Step, Agree
    <2>2. LET t == [s EXCEPT !.running = FALSE, !.all_ready = FALSE, !.ready = {}]
          IN  t.running = FALSE /\ t.all_ready = FALSE /\ t.ready = {} /\ t.nodes = s.nodes
      BY DEF View
    <2> QED BY <1>4, <1>6, <2>1, <2>2 DEF Agree
  <1> HIDE DEF m, d
  <1>7. Handled(n, m, e, <<>>)
    BY <1>1, <1>2, <1>4, <1>5, <1>6, NoMessage DEF Handled, d
  <1>8. Delivered(n, e, <<>>)
    BY <1>1, NoMessage, Delivery
  <1>9. Recorded(n, <<>>)
    BY <1>1, RecordsNothing DEF Starting, m
  <1> QED BY <1>1, <1>3, <1>7, <1>8, <1>9 DEF Delivers, m

\* An event that changes nothing
LEMMA DeliverNothing ==
    ASSUME Types, NEW n \in Nodes, n \in group, inbox[n] # <<>>,
           Ignores(n, Head(inbox[n])) \/ Head(inbox[n]).type = "cancel",
           UNCHANGED <<dl, group, begun, unread>>, inbox' = [inbox EXCEPT ![n] = Tail(@)]
    PROVE  Delivers(n)
  <1> DEFINE m == Head(inbox[n])
             d == dl[n]
  <1>1. \/ m.type = "start" /\ d.running
        \/ m.type = "end" /\ ~d.running
        \/ m.type = "cancel"
    BY DEF Ignores, Starts, Ends
  <1>2. m \in Message /\ d \in Daemons /\ d.init
    <2>1. d.init
      BY <1>1 DEF Types, Fresh
    <2> QED BY <2>1, HeadType DEF Types
  <1>3. ASSUME NEW s \in View, Agree(d, s)
        PROVE  Agree(d, Step(s, m))
    <2>1. Step(s, m) = s
      BY <1>1, <1>3 DEF Step, Agree
    <2> QED BY <1>3, <2>1
  <1>4. dl' = [dl EXCEPT ![n] = d]
    BY DEF Types
  <1>5. Delivered(n, d, <<>>)
    BY <1>4, NoMessage, Delivery
  <1>7. Recorded(n, <<>>)
    BY <1>1, RecordsNothing DEF Starting
  <1> HIDE DEF m, d
  <1>6. Handled(n, m, d, <<>>)
    BY <1>2, <1>3, NoMessage DEF Handled, d
  <1> QED BY <1>5, <1>6, <1>7 DEF Delivers, m

LEMMA LockIsKnown ==
    ASSUME NEW x \in Xids, NEW r \in Rsbs, NEW s \in Status, NEW gr \in Modes, NEW rq \in Modes
    PROVE  Lock(x, r, s, gr, rq) \in Known
  <1>1. x # 0 /\ Home[x] \in Nodes
    BY DeadlockAssumption
  <1> QED BY <1>1 DEF Lock, Known, LockType

\* The kernel's locks and its answers to cancels
LEMMA KnownFields ==
    ASSUME NEW l \in Known
    PROVE  l.xid \in Xids /\ l.rsb \in Rsbs /\ l.grmode \in Modes /\ l.rqmode \in Modes
  BY DEF Known, LockType

LEMMA CancelType ==
    ASSUME Types, NEW n, NEW id
    PROVE  CancelLock(n, id) \in SUBSET Known
  <1>1. ASSUME NEW l \in locks
        PROVE  Lock(l.xid, l.rsb, GRANTED, l.grmode, IV) \in Known
    BY KnownFields, LockIsKnown, ModesType, StatusType DEF Types
  <1> QED BY <1>1 DEF CancelLock, Types

LEMMA DeliverAny ==
    ASSUME Types, NEW n \in Nodes, Deliver(n)
    PROVE  /\ Delivers(n) /\ ckpt' \in [Nodes -> SUBSET LockType] /\ locks' \in SUBSET Known
           /\ UNCHANGED <<master, starts>>
  <1>1. CASE CycleStart(n) \/ CycleStartUnreadable(n)
    BY <1>1, DeliverStart DEF kernelVars, Types
  <1>2. CASE CheckpointReady(n)
    BY <1>2, DeliverReady DEF kernelVars, Types
  <1>3. CASE CycleEnd(n)
    BY <1>3, DeliverEnd DEF kernelVars, Types
  <1>4. CASE Ignored(n)
    <2>1. /\ n \in group /\ inbox[n] # <<>> /\ Ignores(n, Head(inbox[n]))
          /\ inbox' = [inbox EXCEPT ![n] = Tail(@)]
          /\ UNCHANGED <<dl, ckpt, group, kernelVars, starts, begun, unread>>
      BY <1>4 DEF Ignored, history
    <2> QED BY <2>1, DeliverNothing DEF kernelVars, Types
  <1>5. CASE ReceiveCancel(n)
    <2>1. /\ n \in group /\ inbox[n] # <<>> /\ Head(inbox[n]).type = "cancel"
          /\ inbox' = [inbox EXCEPT ![n] = Tail(@)]
          /\ UNCHANGED <<dl, ckpt, group, master, starts, begun, unread>>
          /\ locks' = CancelLock(n, Head(inbox[n]).id)
      BY <1>5 DEF ReceiveCancel, Receives
    <2> QED BY <2>1, CancelType, DeliverNothing DEF Types
  <1>6. CASE Confchg(n)
    BY <1>6, DeliverConfchg DEF kernelVars, Types
  <1> QED BY <1>1, <1>2, <1>3, <1>4, <1>5, <1>6 DEF Deliver

\* What is posted comes after what is there.
LEMMA HeadStays ==
    ASSUME NEW q \in Seq(Message), NEW out \in Seq(Message), NEW m \in Message, q # <<>>
    PROVE  /\ q \o out # <<>> /\ Head(q \o out) = Head(q)
           /\ Append(q, m) # <<>> /\ Head(Append(q, m)) = Head(q)
  BY SMT

LEMMA PostForm ==
    ASSUME NEW box \in [Nodes -> Seq(Message)], NEW ev \in Message
    PROVE  /\ Post(box, ev) \in [Nodes -> Seq(Message)]
           /\ \A k \in Nodes : Post(box, ev)[k] = IF k \in ev.members THEN Append(box[k], ev) ELSE box[k]
  <1>1. \A k \in Nodes : Append(box[k], ev) \in Seq(Message) /\ box[k] \in Seq(Message)
    BY SMT
  <1> QED BY <1>1 DEF Post

LEMMA SendTypes ==
    ASSUME Types, NEW n \in Nodes, SendCycleStart(n)
    PROVE  Types'
  <1> DEFINE out == <<[type |-> "start", no |-> starts + 1]>>
  <1>1. /\ inbox' = Multicast(inbox, out) /\ starts' = starts + 1
        /\ UNCHANGED <<dl, ckpt, group, locks, master, begun>>
    BY DEF SendCycleStart, kernelVars, history
  <1>2. starts + 1 \in Cycles /\ starts + 1 \in Nat
    BY DeadlockAssumption, SMT DEF SendCycleStart, Types, Cycles
  <1>3. [type |-> "start", no |-> starts + 1] \in Message
    BY <1>2 DEF Message
  <1>4. out \in Seq(Message)
    BY <1>3, SMT
  <1> HIDE DEF out
  <1>5. /\ inbox' \in [Nodes -> Seq(Message)]
        /\ \A k \in Nodes : inbox'[k] = IF k \in group THEN inbox[k] \o out ELSE inbox[k]
    BY <1>1, <1>4, MulticastForm DEF Types
  <1>6. ASSUME NEW k \in Nodes, ~dl'[k].init
        PROVE  Fresh(k)'
    <2>1. dl[k] = NewDaemon /\ (k \in group => inbox[k] # <<>> /\ Head(inbox[k]).type = "confchg")
      BY <1>1, <1>6 DEF Types, Fresh
    <2>2. inbox[k] \in Seq(Message)
      BY DEF Types
    <2> QED BY <1>1, <1>3, <1>4, <1>5, <2>1, <2>2, HeadStays DEF Fresh
  <1> QED BY <1>1, <1>2, <1>5, <1>6 DEF Types

LEMMA DeliverTypes ==
    ASSUME Types, NEW n \in Nodes, Deliver(n)
    PROVE  Types'
  <1>1. /\ ckpt' \in [Nodes -> SUBSET LockType] /\ locks' \in SUBSET Known
        /\ UNCHANGED <<master, starts>>
    BY DeliverAny
  <1>2. PICK d, out : Handled(n, Head(inbox[n]), d, out) /\ Delivered(n, d, out) /\ Recorded(n, out)
    BY DeliverAny DEF Delivers
  <1>8. begun' \in [Nodes -> Cycles \cup {0}]
    <2>1. Starting(n) => Head(inbox[n]).no \in Cycles \cup {0}
      BY <1>2, HeadType, MessageFields DEF Starting, Delivered
    <2> QED BY <1>2, <2>1 DEF Recorded, Types
  <1>3. d \in Daemons /\ d.init /\ out \in Seq(Message)
    BY <1>2 DEF Handled
  <1>4. /\ n \in group /\ dl' = [dl EXCEPT ![n] = d] /\ inbox' \in [Nodes -> Seq(Message)] /\ group' = group
        /\ \A k \in Nodes : inbox'[k] = IF k \in group
                                        THEN (IF k = n THEN Tail(inbox[k]) ELSE inbox[k]) \o out ELSE inbox[k]
    BY <1>2 DEF Delivered
  <1>5. dl' \in [Nodes -> Daemons] /\ \A k \in Nodes : dl'[k] = IF k = n THEN d ELSE dl[k]
    BY <1>3, <1>4 DEF Types
  <1>6. ASSUME NEW k \in Nodes, ~dl'[k].init
        PROVE  Fresh(k)'
    <2>1. k # n /\ dl'[k] = dl[k]
      BY <1>3, <1>5, <1>6
    <2>2. dl[k] = NewDaemon /\ (k \in group => inbox[k] # <<>> /\ Head(inbox[k]).type = "confchg")
      BY <1>6, <2>1 DEF Types, Fresh
    <2>3. inbox[k] \in Seq(Message)
      BY DEF Types
    <2>4. k \in group => inbox[k] \o out # <<>> /\ Head(inbox[k] \o out) = Head(inbox[k])
      <3>1. CycleEndMsg \in Message
        BY DEF Message, CycleEndMsg
      <3> QED BY <1>3, <2>2, <2>3, <3>1, HeadStays
    <2>5. k \in group => inbox'[k] = inbox[k] \o out
      BY <1>4, <2>1
    <2> QED BY <1>4, <2>1, <2>2, <2>4, <2>5 DEF Fresh
  <1>7. \A k \in Nodes \ group' : inbox'[k] = <<>>
    BY <1>4 DEF Types
  <1> QED BY <1>1, <1>4, <1>5, <1>6, <1>7, <1>8 DEF Types

LEMMA JoinTypes ==
    ASSUME Types, NEW n \in Nodes, Join(n)
    PROVE  Types'
  <1> DEFINE ev == Event(group \cup {n}, {n}, {})
  <1>1. /\ n \notin group /\ group' = group \cup {n} /\ inbox' = Post(inbox, ev)
        /\ UNCHANGED <<dl, ckpt, locks, master, starts, begun>>
    BY DEF Join, kernelVars, history
  <1>2. group \cup {n} \in SUBSET Nodes /\ {n} \in SUBSET Nodes /\ {} \in SUBSET Nodes
    BY DEF Types
  <1>3. /\ ev \in Message /\ ev.type = "confchg" /\ inbox' \in [Nodes -> Seq(Message)]
        /\ \A k \in Nodes : inbox'[k] = IF k \in group \cup {n} THEN Append(inbox[k], ev) ELSE inbox[k]
    <2>1. inbox \in [Nodes -> Seq(Message)]
      BY DEF Types
    <2>2. ev \in Message /\ ev.type = "confchg" /\ ev.members = group \cup {n}
      BY <1>2 DEF Event, Message
    <2> HIDE DEF ev
    <2>3. /\ Post(inbox, ev) \in [Nodes -> Seq(Message)]
          /\ \A k \in Nodes : Post(inbox, ev)[k] = IF k \in ev.members THEN Append(inbox[k], ev) ELSE inbox[k]
      BY <2>1, <2>2, PostForm
    <2> QED BY <1>1, <2>2, <2>3
  <1> HIDE DEF ev
  <1>4. ASSUME NEW k \in Nodes, ~dl'[k].init
        PROVE  Fresh(k)'
    <2>1. dl[k] = NewDaemon /\ (k \in group => inbox[k] # <<>> /\ Head(inbox[k]).type = "confchg")
      BY <1>1, <1>4 DEF Types, Fresh
    <2>2. inbox[k] \in Seq(Message) /\ (k = n => inbox[k] = <<>>)
      BY <1>1 DEF Types
    <2>3. CASE k \in group
      BY <1>1, <1>3, <2>1, <2>2, <2>3, HeadStays, NoMessage DEF Fresh
    <2>4. CASE k = n
      <3>1. Append(<<>>, ev) # <<>> /\ Head(Append(<<>>, ev)) = ev
        BY <1>3, SMT
      <3> QED BY <1>1, <1>3, <2>1, <2>2, <2>4, <3>1 DEF Fresh
    <2>5. CASE k \notin group \cup {n}
      BY <1>1, <2>1, <2>5 DEF Fresh
    <2> QED BY <2>3, <2>4, <2>5
  <1>5. \A k \in Nodes \ group' : inbox'[k] = <<>>
    BY <1>1, <1>3 DEF Types
  <1> QED BY <1>1, <1>2, <1>3, <1>4, <1>5 DEF Types

LEMMA DepartTypes ==
    ASSUME Types, NEW n \in Nodes, Depart(n)
    PROVE  Types'
  <1> DEFINE ev == Event(group \ {n}, {}, {n})
  <1>1. /\ n \in group /\ group' = group \ {n} /\ dl' = [dl EXCEPT ![n] = NewDaemon]
        /\ inbox' = [Post(inbox, ev) EXCEPT ![n] = <<>>] /\ locks' \subseteq locks
        /\ master' \in [Rsbs -> group \ {n}] /\ UNCHANGED <<ckpt, starts, begun>>
    BY DEF Depart
  <1>2. group \ {n} \in SUBSET Nodes /\ {n} \in SUBSET Nodes /\ {} \in SUBSET Nodes
    BY DEF Types
  <1>3. /\ ev \in Message /\ ev.type = "confchg" /\ Post(inbox, ev) \in [Nodes -> Seq(Message)]
        /\ \A k \in Nodes : Post(inbox, ev)[k] = IF k \in group \ {n} THEN Append(inbox[k], ev) ELSE inbox[k]
    <2>1. inbox \in [Nodes -> Seq(Message)]
      BY DEF Types
    <2>2. ev \in Message /\ ev.type = "confchg" /\ ev.members = group \ {n}
      BY <1>2 DEF Event, Message
    <2> HIDE DEF ev
    <2>3. /\ Post(inbox, ev) \in [Nodes -> Seq(Message)]
          /\ \A k \in Nodes : Post(inbox, ev)[k] = IF k \in ev.members THEN Append(inbox[k], ev) ELSE inbox[k]
      BY <2>1, <2>2, PostForm
    <2> QED BY <2>2, <2>3
  <1> HIDE DEF ev
  <1>4. inbox' \in [Nodes -> Seq(Message)] /\ inbox'[n] = <<>> /\ \A k \in Nodes \ {n} : inbox'[k] = Post(inbox, ev)[k]
    BY <1>1, <1>3, NoMessage
  <1>5. NewDaemon \in Daemons /\ ~NewDaemon.init
    <2>1. [members |-> {}].members = {}
      OBVIOUS
    <2> QED BY <1>2, <2>1, FirstType DEF NewDaemon
  <1>6. dl' \in [Nodes -> Daemons] /\ \A k \in Nodes : dl'[k] = IF k = n THEN NewDaemon ELSE dl[k]
    BY <1>1, <1>5 DEF Types
  <1>7. ASSUME NEW k \in Nodes, ~dl'[k].init
        PROVE  Fresh(k)'
    <2>1. CASE k = n
      BY <1>1, <1>6, <2>1 DEF Fresh
    <2>2. CASE k # n
      <3>1. dl'[k] = dl[k] /\ inbox[k] \in Seq(Message)
        BY <1>6, <2>2 DEF Types
      <3>2. dl[k] = NewDaemon /\ (k \in group => inbox[k] # <<>> /\ Head(inbox[k]).type = "confchg")
        BY <1>7, <3>1 DEF Types, Fresh
      <3>3. k \in group => Append(inbox[k], ev) # <<>> /\ Head(Append(inbox[k], ev)) = Head(inbox[k])
        BY <1>3, <3>1, <3>2, HeadStays, NoMessage
      <3>4. k \in group => inbox'[k] = Append(inbox[k], ev)
        BY <1>3, <1>4, <2>2
      <3> QED BY <1>1, <3>1, <3>2, <3>3, <3>4 DEF Fresh
    <2> QED BY <2>1, <2>2
  <1>8. \A k \in Nodes \ group' : inbox'[k] = <<>>
    BY <1>1, <1>3, <1>4 DEF Types
  <1>9. master' \in [Rsbs -> Nodes]
    BY <1>1, <1>2
  <1> QED BY <1>1, <1>2, <1>4, <1>6, <1>7, <1>8, <1>9 DEF Types

LEMMA KernelTypes ==
    ASSUME Types, Kernel
    PROVE  Types'
  <1>1. Operation => UNCHANGED <<dl, inbox, ckpt, group, master, starts, begun>>
    BY DEF Operation, daemonVars
  <1>2. CASE \E x \in Xids, r \in Rsbs : Request(x, r)
    <2>1. PICK x \in Xids, r \in Rsbs : Request(x, r)
      BY <1>2
    <2>2. Lock(x, r, GRANTED, EX, IV) \in Known /\ Lock(x, r, WAITING, IV, EX) \in Known
      BY LockIsKnown, ModesType, StatusType
    <2>3. Operation /\ locks' \in SUBSET Known
      BY <2>1, <2>2 DEF Request, Types
    <2> QED BY <1>1, <2>3 DEF Types, Fresh
  <1>3. CASE \E l \in locks : Grant(l)
    <2>1. PICK l \in locks : Grant(l)
      BY <1>3
    <2>2. l \in Known
      BY DEF Types
    <2>3. Lock(l.xid, l.rsb, GRANTED, l.rqmode, IV) \in Known
      BY <2>2, KnownFields, LockIsKnown, ModesType, StatusType
    <2>4. Operation /\ locks' \in SUBSET Known
      BY <2>1, <2>3 DEF Grant, Types
    <2> QED BY <1>1, <2>4 DEF Types, Fresh
  <1>4. CASE \E x \in Xids : End(x)
    <2>1. Operation /\ locks' \in SUBSET Known
      BY <1>4 DEF End, Types
    <2> QED BY <1>1, <2>1 DEF Types, Fresh
  <1> QED BY <1>2, <1>3, <1>4 DEF Kernel

LEMMA TypesInit == Init => Types
  <1> SUFFICES ASSUME Init PROVE Types
    OBVIOUS
  <1>1. /\ dl = [n \in Nodes |-> IF n \in Founders THEN FirstConfchg(NewDaemon, [members |-> Founders])
                                 ELSE NewDaemon]
        /\ inbox = [n \in Nodes |-> <<>>] /\ group = Founders /\ ckpt = [n \in Nodes |-> {}]
        /\ locks \in Tables /\ master = Master /\ starts = 0 /\ begun = [n \in Nodes |-> 0]
    BY DEF Init, InitWith
  <1>2. Founders \in SUBSET Nodes /\ [members |-> Founders].members = Founders
    BY DeadlockAssumption
  <1>3. /\ FirstConfchg(NewDaemon, [members |-> Founders]) \in Daemons /\ NewDaemon \in Daemons
        /\ FirstConfchg(NewDaemon, [members |-> Founders]) = [NewDaemon EXCEPT !.init = TRUE, !.nodes = Founders]
    BY <1>2, FirstType
  <1>4. FirstConfchg(NewDaemon, [members |-> Founders]).init
    BY <1>3 DEF NewDaemon
  <1>5. dl \in [Nodes -> Daemons] /\ \A n \in Nodes : ~dl[n].init => Fresh(n)
    BY <1>1, <1>3, <1>4 DEF Fresh
  <1>6. locks \in SUBSET Known /\ master \in [Rsbs -> Nodes]
    BY <1>1, DeadlockAssumption DEF Known, LockTable, KernelLock
  <1>7. starts \in Nat /\ begun \in [Nodes -> Cycles \cup {0}]
    BY <1>1, SMT
  <1>8. inbox \in [Nodes -> Seq(Message)] /\ \A n \in Nodes \ group : inbox[n] = <<>>
    BY <1>1, NoMessage
  <1>9. ckpt \in [Nodes -> SUBSET LockType]
    BY <1>1
  <1> QED BY <1>1, <1>2, <1>5, <1>6, <1>7, <1>8, <1>9 DEF Types

LEMMA TypesNext == Types /\ [Next]_vars => Types'
  <1> SUFFICES ASSUME Types, [Next]_vars PROVE Types'
    OBVIOUS
  <1>1. CASE UNCHANGED vars
    BY <1>1 DEF vars, daemonVars, kernelVars, history, Types, Fresh
  <1>2. CASE Next
    BY <1>2, SendTypes, DeliverTypes, JoinTypes, DepartTypes, KernelTypes DEF Next
  <1> QED BY <1>1, <1>2

-----------------------------------------------------------------------------
(* What a node sends, when it has a reason to *)

\* Messages to the group: cancels, if any, and a last one
Closes(out, m) ==
    /\ out \in Seq(Message) /\ Len(out) > 0 /\ out[Len(out)] = m
    /\ \A i \in 1 .. Len(out) - 1 : out[i].type = "cancel"

LEMMA OneCloses ==
    ASSUME NEW m \in Message
    PROVE  Closes(<<m>>, m)
  BY SMT DEF Closes

\* The message m may come next.
May(log, st, pos, G, m) ==
    /\ m.type = "start" => G \subseteq st[Len(log)].nodes
    /\ Fits(st[Len(log)], m, G) /\ Timely(log, st, pos, G, m)

\* The log goes on with the messages out, the last of which is m.
GoesOn(log, st, pos, G, out, m, st2) ==
    /\ Shape(log \o out, st2, pos) /\ Longer(log, st, log \o out, st2)
    /\ LogOK(log \o out, st2, pos, G)
    /\ st2[Len(log \o out)] = Step(st[Len(log)], m)

LEMMA AppendBlock ==
    ASSUME NEW log, NEW st, NEW pos, NEW out, NEW m \in Message, NEW G \in SUBSET Nodes,
           Shape(log, st, pos), LogOK(log, st, pos, G), Closes(out, m), May(log, st, pos, G, m)
    PROVE  \E st2 : GoesOn(log, st, pos, G, out, m, st2)
  <1> DEFINE L == Len(log)
             log2 == log \o out
             M == Len(log2)
             K == M - 1
             last == st[L]
             logc == [i \in 1 .. K |-> log2[i]]
             stc == [i \in 0 .. K |-> IF i <= L THEN st[i] ELSE last]
             st2 == [i \in 0 .. M |-> IF i = M THEN Step(last, m) ELSE stc[i]]
  <1>1. log \in Seq(Message) /\ out \in Seq(Message) /\ Len(out) > 0
    BY DEF Shape, Closes
  <1>2. /\ L \in Nat /\ M \in Nat /\ K \in Nat /\ L <= K /\ M = K + 1
        /\ log2 \in Seq(Message) /\ log2[M] = m
        /\ \A i \in 1 .. L : log2[i] = log[i]
        /\ \A i \in 1 .. M : log2[i] \in Message
        /\ \A i \in L + 1 .. K : log2[i].type = "cancel"
    <2>1. L \in Nat /\ M = L + Len(out) /\ Len(out) \in Nat /\ log2 \in Seq(Message)
      BY <1>1, SMT
    <2>2. M \in Nat /\ K \in Nat /\ L <= K /\ M = K + 1
      BY <1>1, <2>1, SMT
    <2>3. \A i \in 1 .. L : log2[i] = log[i]
      BY <1>1, SMT
    <2>4. \A i \in 1 .. M : log2[i] \in Message
      BY <2>1, SMT
    <2>5. log2[M] = m
      <3>1. log2[M] = out[Len(out)]
        BY <1>1, SMT
      <3> QED BY <3>1 DEF Closes
    <2>6. ASSUME NEW i \in L + 1 .. K
          PROVE  log2[i].type = "cancel"
      <3>1. i - L \in 1 .. Len(out) - 1 /\ log2[i] = out[i - L]
        BY <1>1, <2>1, SMT
      <3> QED BY <3>1 DEF Closes
    <2> QED BY <2>1, <2>2, <2>3, <2>4, <2>5, <2>6
  <1>3. pos \in [Nodes -> 0 .. L] /\ st \in [0 .. L -> View] /\ last \in View
    <2>1. L \in 0 .. L
      BY <1>2, SMT
    <2> QED BY <2>1 DEF Shape
  <1> HIDE DEF log2, L, M, K, last
  <1>4. logc \in Seq(Message) /\ Len(logc) = K /\ \A i \in 1 .. K : logc[i] = log2[i]
    <2>1. \A i \in 1 .. K : log2[i] \in Message
      BY <1>2, SMT
    <2> HIDE DEF logc
    <2>2. logc \in [1 .. K -> Message] /\ \A i \in 1 .. K : logc[i] = log2[i]
      BY <2>1 DEF logc
    <2> QED BY <1>2, <2>2, SMT
  <1> HIDE DEF logc
  <1>5. /\ stc \in [0 .. K -> View] /\ \A i \in 0 .. L : stc[i] = st[i]
        /\ \A i \in L + 1 .. K : stc[i] = last
    <2>1. \A i \in 0 .. L : i \in 0 .. K /\ i <= L
      BY <1>2, SMT
    <2>2. \A i \in L + 1 .. K : i \in 0 .. K /\ ~(i <= L)
      BY <1>2, SMT
    <2>3. ASSUME NEW i \in 0 .. K
          PROVE  (IF i <= L THEN st[i] ELSE last) \in View
      <3>1. i <= L => i \in 0 .. L
        BY <1>2, SMT
      <3> QED BY <1>3, <3>1
    <2> QED BY <2>1, <2>2, <2>3
  <1> HIDE DEF stc
  <1>6. st2 \in [0 .. M -> View] /\ st2[M] = Step(last, m) /\ \A i \in 0 .. K : st2[i] = stc[i]
    <2>1. M \in 0 .. M /\ \A i \in 0 .. K : i \in 0 .. M /\ i # M
      BY <1>2, SMT
    <2>2. \A i \in 0 .. M : i # M => i \in 0 .. K
      BY <1>2, SMT
    <2>3. Step(last, m) \in View
      BY <1>3, StepType
    <2> QED BY <1>5, <2>1, <2>2, <2>3
  <1> HIDE DEF st2
  <1>7. Shape(logc, stc, pos) /\ Shape(log2, st2, pos)
    <2>1. 0 .. L \subseteq 0 .. K /\ 0 .. L \subseteq 0 .. M
      BY <1>2, SMT
    <2>2. pos \in [Nodes -> 0 .. K] /\ pos \in [Nodes -> 0 .. M]
      BY <1>3, <2>1
    <2> QED BY <1>2, <1>4, <1>5, <1>6, <2>2 DEF Shape, M
  <1>8. Longer(log, st, logc, stc) /\ Idles(log, st, logc, stc)
    <2>1. /\ \A i \in 1 .. L : i \in 1 .. K
          /\ \A i \in L + 1 .. K : i \in 1 .. K
      BY <1>2, SMT
    <2>2. L <= Len(logc)
      BY <1>2, <1>4
    <2>3. \A i \in 1 .. L : logc[i] = log[i]
      BY <1>2, <1>4, <2>1
    <2>4. \A i \in L + 1 .. Len(logc) : logc[i].type = "cancel" /\ stc[i] = last
      BY <1>2, <1>4, <1>5, <2>1
    <2> QED BY <1>5, <2>2, <2>3, <2>4 DEF Longer, Idles, L, last
  <1>9. LogOK(logc, stc, pos, G)
    BY <1>7, <1>8, AppendCancels
  <1>10. Longer(logc, stc, log2, st2) /\ Appends(logc, stc, log2, st2, m) /\ stc[K] = last
    <2>1. K <= M /\ \A i \in 1 .. K : log2[i] = logc[i]
      BY <1>2, <1>4, SMT
    <2>2. K \in 0 .. L \/ K \in L + 1 .. K
      BY <1>2, SMT
    <2>3. stc[K] = last
      <3>1. CASE K \in 0 .. L
        <4>1. K = L
          BY <1>2, <3>1, SMT
        <4> QED BY <1>5, <3>1, <4>1 DEF last
      <3>2. CASE K \in L + 1 .. K
        BY <1>5, <3>2
      <3> QED BY <2>2, <3>1, <3>2
    <2> QED BY <1>2, <1>4, <1>6, <2>1, <2>3 DEF Longer, Appends, M
  <1>11. ASSUME NEW n \in Nodes, Runs(st, pos[n], L)
         PROVE  Runs(stc, pos[n], K)
    <2> SUFFICES ASSUME NEW k \in pos[n] .. K PROVE stc[k].running
      BY DEF Runs
    <2>1. pos[n] \in 0 .. L
      BY <1>3
    <2>2. L \in pos[n] .. L /\ ((k \in 0 .. L /\ k \in pos[n] .. L) \/ k \in L + 1 .. K)
      BY <1>2, <2>1, SMT
    <2> QED BY <1>5, <1>11, <2>2 DEF Runs, last
  <1>12. ASSUME NEW n \in Nodes, \A i \in pos[n] + 1 .. L : ~Fires(st[i - 1], log[i], n)
         PROVE  \A i \in pos[n] + 1 .. K : ~Fires(stc[i - 1], logc[i], n)
    <2> SUFFICES ASSUME NEW i \in pos[n] + 1 .. K PROVE ~Fires(stc[i - 1], logc[i], n)
      OBVIOUS
    <2>1. pos[n] \in 0 .. L
      BY <1>3
    <2>2. /\ i \in 1 .. K
          /\ \/ i \in L + 1 .. K
             \/ i \in pos[n] + 1 .. L /\ i \in 1 .. L /\ i - 1 \in 0 .. L
      BY <1>2, <2>1, SMT
    <2>3. CASE i \in L + 1 .. K
      BY <1>2, <1>4, <2>2, <2>3 DEF Fires
    <2>4. CASE i \in pos[n] + 1 .. L /\ i \in 1 .. L /\ i - 1 \in 0 .. L
      <3>1. stc[i - 1] = st[i - 1] /\ logc[i] = log[i]
        BY <1>2, <1>4, <1>5, <2>2, <2>4
      <3> QED BY <1>12, <2>4, <3>1
    <2> QED BY <2>2, <2>3, <2>4
  <1>13. Timely(logc, stc, pos, G, m)
    <2>1. m.type = "ready" => m.from \in Nodes
      BY MessageFields
    <2>2. Timely(log, st, pos, G, m)
      BY DEF May
    <2> QED BY <1>4, <1>11, <1>12, <2>1, <2>2 DEF Timely, L
  <1>14. stc[Len(logc)] = st[Len(log)]
    BY <1>4, <1>10 DEF last, L
  <1>15. LogOK(log2, st2, pos, G)
    <2>1. (m.type = "start" => G \subseteq stc[Len(logc)].nodes) /\ Fits(stc[Len(logc)], m, G)
      BY <1>14 DEF May
    <2> QED BY <1>7, <1>9, <1>10, <1>13, <2>1, AppendOne
  <1>16. Longer(log, st, log2, st2)
    <2>1. L <= M /\ \A i \in 0 .. L : i \in 0 .. K
      BY <1>2, SMT
    <2>2. \A i \in 0 .. L : st2[i] = st[i]
      BY <1>5, <1>6, <2>1
    <2> QED BY <1>2, <2>1, <2>2 DEF Longer, L, M
  <1> QED BY <1>6, <1>7, <1>15, <1>16 DEF log2, M, last, L, GoesOn

LEMMA StepNodes ==
    ASSUME NEW s \in View, NEW m \in Message
    PROVE  Step(s, m).nodes = IF m.type = "confchg" THEN (s.nodes \cup m.joined) \ m.left ELSE s.nodes
  <1>1. ASSUME NEW t \in View
        PROVE  Look(t).nodes = t.nodes
    BY <1>1 DEF Look, View
  <1>2. CASE m.type = "start"
    BY <1>2, BeginsView DEF Step
  <1>3. CASE m.type = "ready"
    <2> DEFINE t == [s EXCEPT !.ready = @ \cup ({m.from} \cap s.nodes)]
    <2>1. t \in View
      BY SMT DEF View
    <2>2. t.nodes = s.nodes
      BY DEF View
    <2>3. Step(s, m) = Look(t)
      BY <1>3 DEF Step
    <2> HIDE DEF t
    <2> QED BY <1>1, <1>3, <2>1, <2>2, <2>3
  <1>4. CASE m.type = "end"
    BY <1>4 DEF Step, View
  <1>5. CASE m.type = "confchg"
    <2>1. Without(s, m) \in View /\ Without(s, m).nodes = (s.nodes \cup m.joined) \ m.left
      BY <1>5, WithoutType DEF Without, View
    <2> QED BY <1>1, <1>5, <2>1 DEF Step
  <1>6. CASE m.type = "cancel"
    BY <1>6 DEF Step
  <1> QED BY <1>2, <1>3, <1>4, <1>5, <1>6, MessageFields

\* A node that begins a cycle may say that its checkpoint is ready: nobody has ended that
\* cycle, and it has not said so before.
LEMMA ReadyIsTimely ==
    ASSUME NEW log, NEW st, NEW pos, NEW G \in SUBSET Nodes, NEW n \in G, NEW m,
           Shape(log, st, pos), LogOK(log, st, pos, G), pos[n] + 1 \in DOMAIN log,
           log[pos[n] + 1].type = "start", ~st[pos[n]].running, m = [type |-> "ready", from |-> n]
    PROVE  /\ Fits(st[Len(log)], m, G)
           /\ Runs(st, pos[n] + 1, Len(log))
  <1> DEFINE L == Len(log)
             p == pos[n]
  <1>1. L \in Nat /\ DOMAIN log = 1 .. L /\ DOMAIN st = 0 .. L /\ p \in 0 .. L /\ p + 1 \in 1 .. L
    BY SMT DEF Shape
  <1>2. /\ p + 1 \in 0 .. L /\ p + 1 \in p + 1 .. L /\ L \in 0 .. L /\ L \in p + 1 .. L
        /\ p < L /\ (p + 1) - 1 = p
    BY <1>1, SMT
  <1>3. \A e \in 1 .. L : p < e => p \in p .. e - 1
    BY <1>1, SMT
  <1>4. \A e \in 1 .. L : p < e => log[e].type # "end"
    BY <1>1, <1>3 DEF LogOK, Ended, Runs
  <1>5. ASSUME NEW j \in p + 1 .. L
        PROVE  NoEnd(log, p + 1, j)
    <2>1. \A k \in (p + 1) + 1 .. j : k \in 1 .. L /\ p < k
      BY <1>1, SMT
    <2> QED BY <1>4, <2>1 DEF NoEnd
  <1>6. st[p + 1].running
    <2>1. st[p + 1] = Step(st[p], log[p + 1])
      BY <1>1, <1>2 DEF LogOK
    <2>2. st[p] \in View /\ log[p + 1] \in Message
      BY <1>1, SMT DEF Shape
    <2>3. Step(st[p], log[p + 1]).running
      BY <2>2, StepRuns
    <2> QED BY <2>1, <2>3
  <1>7. ASSUME NEW j \in p + 1 .. L
        PROVE  st[j].running
    <2>1. j \in 0 .. L /\ p + 1 <= j
      BY <1>1, SMT
    <2>2. RunsOn(log, st) /\ NoEnd(log, p + 1, j)
      BY <1>5 DEF LogOK
    <2> QED BY <1>1, <1>2, <1>6, <2>1, <2>2 DEF RunsOn
  <1>8. n \notin st[L].ready
    <2>1. p \in p .. L
      BY <1>1, SMT
    <2> QED BY <1>1, <1>2, <2>1 DEF LogOK, Begun, Runs
  <1>9. G \subseteq InCycle(st[L])
    BY <1>1, <1>2, <1>7 DEF LogOK, Sane
  <1>10. m.type = "ready" /\ m.from = n
    OBVIOUS
  <1> HIDE DEF L, p
  <1>11. Fits(st[L], m, G)
    BY <1>2, <1>7, <1>8, <1>9, <1>10 DEF Fits
  <1>12. Runs(st, p + 1, L)
    BY <1>7 DEF Runs
  <1> QED BY <1>11, <1>12 DEF L, p

\* The lowest node may end the cycle when it finds all checkpoints ready: every member has
\* begun the cycle, nobody has ended it, and nobody else will.
LEMMA EndIsTimely ==
    ASSUME NEW log, NEW st, NEW pos, NEW G \in SUBSET Nodes, NEW n \in G,
           Shape(log, st, pos), LogOK(log, st, pos, G), pos[n] + 1 \in DOMAIN log,
           Fires(st[pos[n]], log[pos[n] + 1], n)
    PROVE  /\ st[Len(log)].running
           /\ \A k \in G : Runs(st, pos[k], Len(log))
           /\ \A k \in G : \A i \in pos[k] + 1 .. Len(log) : i # pos[n] + 1 \/ k # n => ~Fires(st[i - 1], log[i], k)
  <1> DEFINE L == Len(log)
             p == pos[n]
             q == p + 1
  <1>1. /\ L \in Nat /\ DOMAIN log = 1 .. L /\ DOMAIN st = 0 .. L /\ p \in 0 .. L /\ q \in 1 .. L
        /\ \A k \in G : pos[k] \in 0 .. L
    <2>1. L \in Nat /\ DOMAIN log = 1 .. L /\ DOMAIN st = 0 .. L
      BY SMT DEF Shape
    <2> QED BY <2>1 DEF Shape
  <1>2. q \in 0 .. L /\ L \in 0 .. L /\ q - 1 = p /\ p \in Nat /\ q \in Nat /\ q <= L /\ q = p + 1
    BY <1>1, SMT
  <1>3. \A i \in 0 .. L : st[i] \in View /\ Sane(st[i], G)
    BY <1>1 DEF Shape, LogOK
  <1>4. ASSUME NEW i \in 1 .. L
        PROVE  /\ st[i] = Step(st[i - 1], log[i]) /\ Fits(st[i - 1], log[i], G)
               /\ i - 1 \in 0 .. L /\ i \in 0 .. L /\ log[i] \in Message
    <2>1. log[i] \in Message /\ i - 1 \in 0 .. L /\ i \in 0 .. L
      BY <1>1, SMT DEF Shape
    <2> QED BY <1>1, <2>1 DEF LogOK
  <1>5. /\ Fires(st[q - 1], log[q], n) /\ log[q].type \in {"ready", "confchg"}
        /\ st[q].all_ready /\ st[q].low = n
    BY <1>1, <1>2, <1>4 DEF Fires
  <1>6. \A i, j \in 0 .. L : i <= j /\ st[i].running /\ NoEnd(log, i, j) => st[j].running
    BY <1>1 DEF LogOK, RunsOn
  <1>7. \A i, j \in 0 .. L : i <= j /\ st[i].all_ready /\ st[i].low \in G /\ NoEnd(log, i, j)
                             => st[j].all_ready /\ st[j].low = st[i].low
    <2>1. StaysLow(log, st, G)
      BY DEF LogOK
    <2> QED BY <1>1, <2>1 DEF StaysLow
  <1>8. \A e \in 1 .. L, k \in G : log[e].type = "end" /\ pos[k] < e =>
            \A i \in pos[k] + 1 .. e - 1 : ~Fires(st[i - 1], log[i], k)
    BY <1>1 DEF LogOK, Ended
  <1>9. \A k \in G : k \in st[q].ready /\ pos[k] < q => Runs(st, pos[k], q)
    BY <1>1, <1>2 DEF LogOK, Begun
  <1> HIDE DEF L, p, q
  <1>10. ASSUME NEW i \in 1 .. L, NEW k \in G, pos[k] < i, Fires(st[i - 1], log[i], k), NEW j \in i .. L
         PROVE  NoEnd(log, i, j)
    <2> SUFFICES ASSUME NEW e \in i + 1 .. j PROVE log[e].type # "end"
      BY DEF NoEnd
    <2>1. e \in 1 .. L /\ pos[k] < e /\ i \in pos[k] + 1 .. e - 1
      BY <1>1, <1>10, SMT
    <2> QED BY <1>8, <1>10, <2>1
  <1>11. ASSUME NEW j \in q .. L
         PROVE  /\ j \in 0 .. L /\ q <= j /\ NoEnd(log, q, j)
                /\ st[j].running /\ st[j].all_ready /\ st[j].low = n
    <2>1. j \in 0 .. L /\ q <= j /\ pos[n] < q
      BY <1>1, <1>2, SMT DEF p
    <2>2. NoEnd(log, q, j)
      BY <1>1, <1>5, <1>10, <2>1
    <2>3. st[q].running
      BY <1>2, <1>3, <1>5 DEF Sane
    <2> QED BY <1>2, <1>5, <1>6, <1>7, <2>1, <2>2, <2>3
  <1>12. L \in q .. L /\ q \in q .. L
    BY <1>1, <1>2, SMT
  <1>13. ASSUME NEW k \in G
         PROVE  Runs(st, pos[k], L)
    <2>1. k \in st[q].ready
      BY <1>2, <1>3, <1>11, <1>12 DEF Sane
    <2> SUFFICES ASSUME NEW j \in pos[k] .. L PROVE st[j].running
      BY DEF Runs
    <2>2. \/ j \in q .. L
          \/ pos[k] < q /\ j \in pos[k] .. q
      BY <1>1, <1>2, SMT
    <2> QED BY <1>9, <1>11, <2>1, <2>2 DEF Runs
  <1>14. ASSUME NEW i \in 1 .. L, st[i - 1].all_ready, st[i - 1].low \in G
         PROVE  \A k : ~Fires(st[i - 1], log[i], k)
    <2>1. st[i - 1] \in View /\ log[i] \in Message /\ Sane(st[i - 1], G) /\ Fits(st[i - 1], log[i], G)
      BY <1>3, <1>4
    <2> QED BY <1>14, <2>1, StepLow
  <1>15. ASSUME NEW k \in G, NEW i \in pos[k] + 1 .. L, i # q \/ k # n
         PROVE  ~Fires(st[i - 1], log[i], k)
    <2>1. pos[k] \in 0 .. L
      BY <1>1
    <2>2. i \in 1 .. L /\ pos[k] < i /\ (i = q \/ i - 1 \in q .. L \/ (p \in i .. L /\ p \in 0 .. L /\ i <= p))
      BY <1>1, <1>2, <2>1, SMT
    <2>3. CASE i = q
      BY <1>5, <1>15, <2>3 DEF Fires
    <2>4. CASE i - 1 \in q .. L
      BY <1>11, <1>14, <2>2, <2>4
    <2>5. CASE p \in i .. L /\ p \in 0 .. L /\ i <= p
      <3> SUFFICES ASSUME Fires(st[i - 1], log[i], k) PROVE FALSE
        OBVIOUS
      <3>1. NoEnd(log, i, p)
        BY <1>10, <2>2, <2>5
      <3>2. st[i].all_ready /\ st[i].low = k /\ i \in 0 .. L
        BY <1>4, <2>2 DEF Fires
      <3>3. st[p].all_ready /\ st[p].low = k
        BY <1>7, <2>5, <3>1, <3>2
      <3> QED BY <1>1, <1>2, <1>5, <1>14, <3>3
    <2> QED BY <2>2, <2>3, <2>4, <2>5
  <1> QED BY <1>11, <1>12, <1>13, <1>15 DEF L, p, q

-----------------------------------------------------------------------------
(* The nodes follow the log *)

LEMMA RestGrows ==
    ASSUME NEW log \in Seq(Message), NEW out \in Seq(Message), NEW q \in Seq(Message),
           NEW p \in 0 .. Len(log), Rest(q, log, p)
    PROVE  Rest(q \o out, log \o out, p)
  <1>1. p + Len(q) = Len(log) /\ \A i \in DOMAIN q : q[i] = log[p + i]
    BY DEF Rest
  <1>2. p + Len(q \o out) = Len(log \o out) /\ DOMAIN q = 1 .. Len(q) /\ p \in Nat
        /\ Len(q) \in Nat /\ Len(log) \in Nat
    <2>1. /\ Len(q \o out) = Len(q) + Len(out) /\ Len(log \o out) = Len(log) + Len(out)
          /\ Len(q) \in Nat /\ Len(out) \in Nat /\ Len(log) \in Nat /\ DOMAIN q = 1 .. Len(q)
      BY SMT
    <2>2. p + Len(q) = Len(log)
      BY <1>1
    <2> QED BY <2>1, <2>2, SMT
  <1>3. ASSUME NEW i \in DOMAIN (q \o out)
        PROVE  (q \o out)[i] = (log \o out)[p + i]
    <2>1. i \in 1 .. Len(q) + Len(out)
      BY SMT
    <2>2. CASE i <= Len(q)
      <3>1. i \in 1 .. Len(q) /\ p + i \in 1 .. Len(log)
        BY <1>1, <1>2, <2>1, <2>2, SMT
      <3>2. (q \o out)[i] = q[i] /\ (log \o out)[p + i] = log[p + i]
        BY <3>1, SMT
      <3> QED BY <1>1, <1>2, <3>1, <3>2
    <2>3. CASE ~(i <= Len(q))
      <3>1. /\ i - Len(q) \in 1 .. Len(out) /\ (p + i) - Len(log) = i - Len(q)
            /\ p + i \in Len(log) + 1 .. Len(log) + Len(out) /\ i \in Len(q) + 1 .. Len(q) + Len(out)
        BY <1>1, <1>2, <2>1, <2>3, SMT
      <3>2. (q \o out)[i] = out[i - Len(q)] /\ (log \o out)[p + i] = out[(p + i) - Len(log)]
        BY <3>1, SMT
      <3> QED BY <3>1, <3>2
    <2> QED BY <2>2, <2>3
  <1> QED BY <1>2, <1>3 DEF Rest

LEMMA RestTail ==
    ASSUME NEW log \in Seq(Message), NEW q \in Seq(Message), NEW p \in 0 .. Len(log), Rest(q, log, p), q # <<>>
    PROVE  /\ p + 1 \in DOMAIN log /\ p + 1 \in 0 .. Len(log) /\ Head(q) = log[p + 1]
           /\ Tail(q) \in Seq(Message) /\ Rest(Tail(q), log, p + 1)
  <1>1. p + Len(q) = Len(log) /\ \A i \in DOMAIN q : q[i] = log[p + i]
    BY DEF Rest
  <1>2. /\ Len(q) \in Nat \ {0} /\ Len(log) \in Nat /\ p \in Nat /\ DOMAIN q = 1 .. Len(q)
        /\ DOMAIN log = 1 .. Len(log) /\ Head(q) = q[1]
        /\ Tail(q) \in Seq(Message) /\ Len(Tail(q)) = Len(q) - 1
        /\ DOMAIN Tail(q) = 1 .. Len(q) - 1
    BY SMT
  <1>3. p + 1 \in DOMAIN log /\ p + 1 \in 0 .. Len(log) /\ 1 \in 1 .. Len(q)
    BY <1>1, <1>2, SMT
  <1>4. (p + 1) + Len(Tail(q)) = Len(log)
    BY <1>1, <1>2, SMT
  <1>5. ASSUME NEW i \in DOMAIN Tail(q)
        PROVE  Tail(q)[i] = log[(p + 1) + i]
    <2>1. Tail(q)[i] = q[i + 1] /\ i + 1 \in 1 .. Len(q) /\ p + (i + 1) = (p + 1) + i
      BY <1>2, SMT
    <2> QED BY <1>1, <1>2, <2>1
  <1> QED BY <1>1, <1>2, <1>3, <1>4, <1>5 DEF Rest

LEMMA PlacedLonger ==
    ASSUME NEW log \in Seq(Message), NEW out \in Seq(Message), NEW q \in Seq(Message),
           NEW p \in 0 .. Len(log), NEW d, NEW st, NEW st2,
           Placed(d, q, log, st, p), Longer(log, st, log \o out, st2)
    PROVE  Placed(d, q \o out, log \o out, st2, p)
  <1> DEFINE log2 == log \o out
  <1>1. Rest(q \o out, log2, p)
    BY RestGrows DEF Placed
  <1>2. st2[p] = st[p]
    BY DEF Longer
  <1>3. ASSUME p + 1 \in DOMAIN log
        PROVE  p + 1 \in DOMAIN log2 /\ log2[p + 1] = log[p + 1] /\ st2[p + 1] = st[p + 1]
    <2>1. p + 1 \in 1 .. Len(log) /\ p + 1 \in 0 .. Len(log) /\ p + 1 \in DOMAIN log2
      BY <1>3, SMT
    <2> HIDE DEF log2
    <2> QED BY <2>1 DEF Longer, log2
  <1> HIDE DEF log2
  <1>4. Newcomer(d, log, st, p) => Newcomer(d, log2, st2, p)
    BY <1>3 DEF Newcomer
  <1> QED BY <1>1, <1>2, <1>4 DEF Placed, log2

\* What CPG has yet to deliver to the node n is nothing else than the log.
LEMMA FollowNode ==
    ASSUME NEW log, NEW st, NEW pos, NEW n \in group, Types, Follow(log, st, pos)
    PROVE  /\ n \in Nodes /\ log \in Seq(Message) /\ inbox[n] \in Seq(Message)
           /\ pos[n] \in 0 .. Len(log) /\ Placed(dl[n], inbox[n], log, st, pos[n])
  BY DEF Types, Follow, Shape

\* Those that are ready are prepared, whatever the log goes on with.
LEMMA PreparedMore ==
    ASSUME NEW log, NEW st, NEW pos, NEW m \in Message, NEW out, NEW G \in SUBSET Nodes,
           NEW b, NEW W, NEW st2,
           Closes(out, m), Shape(log, st, pos), LogOK(log, st, pos, G), GoesOn(log, st, pos, G, out, m, st2),
           Prepared(log, st, b, W), m.type = "end" \/ Len(out) = 1,
           m.type = "ready" => b[m.from] = st[Len(log)].no /\ m.from \in W
    PROVE  Prepared(log \o out, st2, b, W)
  <1> DEFINE L == Len(log)
             log2 == log \o out
             M == Len(log2)
  <1>1. /\ L \in Nat /\ M \in Nat /\ log2 \in Seq(Message) /\ L \in 0 .. L /\ M \in 0 .. M
        /\ st \in [0 .. L -> View] /\ st2 \in [0 .. M -> View]
        /\ M = L + Len(out) /\ log2[M] = m
    BY SMT DEF Shape, GoesOn, Closes
  <1>3. DOMAIN log = 1 .. L
    BY SMT DEF Shape
  <1>2. /\ \A i \in 0 .. L : st2[i] = st[i]
        /\ \A i \in DOMAIN log : log2[i] = log[i]
        /\ st2[M] = Step(st[L], m) /\ Sane(st2[M], G) /\ Sane(st[L], G) /\ st[L] \in View
    <2>1. /\ \A i \in 0 .. L : st2[i] = st[i]
          /\ \A i \in 1 .. L : log2[i] = log[i]
          /\ st2[M] = Step(st[L], m)
      BY DEF GoesOn, Longer
    <2>2. Sane(st2[M], G) /\ Sane(st[L], G) /\ st[L] \in View
      BY <1>1 DEF GoesOn, LogOK
    <2> QED BY <1>3, <2>1, <2>2
  <1> HIDE DEF log2, M, L
  <1> SUFFICES ASSUME NEW p \in 0 .. M, NoEnd(log2, p, M), NEW k \in st2[p].ready
               PROVE  b[k] = st2[p].no /\ k \in W
    BY <1>1 DEF Prepared, log2, M
  <1>4. CASE m.type = "end"
    <2>1. CASE p = M
      <3>1. ~st2[M].running
        BY <1>2, <1>4, StepRuns
      <3> QED BY <1>2, <2>1, <3>1 DEF Sane
    <2>2. CASE p # M
      <3>1. M \in p + 1 .. M
        BY <1>1, <2>2, SMT
      <3> QED BY <1>1, <1>4, <3>1 DEF NoEnd
    <2> QED BY <2>1, <2>2
  <1>5. CASE m.type # "end"
    <2>1. M = L + 1
      BY <1>1, <1>5
    <2>2. CASE p # M
      <3>1. p \in 0 .. L /\ \A i \in p + 1 .. L : i \in p + 1 .. M /\ i \in 1 .. L
        BY <1>1, <2>1, <2>2, SMT
      <3>2. NoEnd(log, p, L)
        BY <1>2, <1>3, <3>1 DEF NoEnd
      <3> QED BY <1>1, <1>2, <3>1, <3>2 DEF Prepared, L
    <2>3. CASE p = M
      <3>1. k \in st[L].ready \/ (m.type = "ready" /\ k = m.from)
        BY <1>2, <2>3, StepReady
      <3>2. ~st[L].running /\ m.type = "start" => st[L].ready = {}
        BY <1>2 DEF Sane
      <3>3. st[L].running \/ m.type # "start"
        BY <3>1, <3>2
      <3>4. st2[M].no = st[L].no
        BY <1>2, <3>3, StepNo
      <3>5. NoEnd(log, L, L)
        <4>1. L + 1 .. L = {}
          BY <1>1, SMT
        <4> QED BY <4>1 DEF NoEnd
      <3>6. \A i \in st[L].ready : b[i] = st[L].no /\ i \in W
        BY <1>1, <3>5 DEF Prepared, L
      <3> QED BY <2>3, <3>1, <3>4, <3>6 DEF L
    <2> QED BY <2>2, <2>3
  <1> QED BY <1>4, <1>5

\* Every node of the group, in its place of the log, gets one more block of messages.
LEMMA FollowBlock ==
    ASSUME NEW log, NEW st, NEW pos, NEW m \in Message, NEW out, NEW G \in SUBSET Nodes, NEW box,
           Closes(out, m), Shape(log, st, pos), LogOK(log, st, pos, G), May(log, st, pos, G, m),
           G = IF m.type = "confchg" THEN (st[Len(log)].nodes \cup m.joined) \ m.left
               ELSE st[Len(log)].nodes,
           group' = G,
           \A n \in G : /\ box[n] \in Seq(Message) /\ inbox'[n] = box[n] \o out
                        /\ Placed(dl'[n], box[n], log, st, pos[n]),
           \A n \in Nodes \ G : dl'[n] = NewDaemon /\ inbox'[n] = <<>>,
           \A n \in G : dl'[n].running => begun'[n] = st[pos[n]].no,
           Prepared(log, st, begun', Writers'), m.type = "end" \/ Len(out) = 1,
           m.type = "ready" => begun'[m.from] = st[Len(log)].no /\ m.from \in Writers'
    PROVE  Common'
  <1> DEFINE L == Len(log)
  <1>1. log \in Seq(Message) /\ out \in Seq(Message) /\ st[L] \in View
    <2>1. Len(log) \in 0 .. Len(log)
      BY SMT DEF Shape
    <2> QED BY <2>1 DEF Shape, Closes
  <1>2. PICK st2 : GoesOn(log, st, pos, G, out, m, st2)
    BY AppendBlock
  <1>3. Step(st[L], m).nodes = G
    BY <1>1, StepNodes
  <1>4. ASSUME NEW n \in G
        PROVE  Placed(dl'[n], inbox'[n], log \o out, st2, pos[n])
    <2>1. pos[n] \in 0 .. Len(log)
      BY DEF Shape
    <2>2. box[n] \in Seq(Message) /\ inbox'[n] = box[n] \o out /\ Placed(dl'[n], box[n], log, st, pos[n])
      OBVIOUS
    <2>3. Placed(dl'[n], box[n] \o out, log \o out, st2, pos[n])
      BY <1>1, <1>2, <2>1, <2>2, PlacedLonger DEF GoesOn
    <2> QED BY <2>2, <2>3
  <1>5. Follow(log \o out, st2, pos)'
    BY <1>2, <1>3, <1>4 DEF Follow, GoesOn
  <1>6. Counts(st2, pos)'
    <2>1. \A n \in G : st2[pos[n]] = st[pos[n]]
      BY <1>2 DEF GoesOn, Longer, Shape
    <2> QED BY <2>1 DEF Counts
  <1>7. Prepared(log \o out, st2, begun', Writers')
    BY <1>2, PreparedMore
  <1> QED BY <1>5, <1>6, <1>7 DEF Common

-----------------------------------------------------------------------------
(* The steps *)

LEMMA CommonSend ==
    ASSUME Types, Common, NEW n \in Nodes, SendCycleStart(n)
    PROVE  Common'
  <1> DEFINE m == [type |-> "start", no |-> starts + 1]
  <1>1. inbox' = Multicast(inbox, <<m>>) /\ UNCHANGED <<dl, group, begun, unread>>
    BY DEF SendCycleStart, history
  <1>2. m \in Message /\ m.type = "start"
    <2>1. starts + 1 \in Cycles
      BY DeadlockAssumption, SMT DEF SendCycleStart, Types, Cycles
    <2> QED BY <2>1 DEF Message
  <1> HIDE DEF m
  <1>3. Closes(<<m>>, m) /\ <<m>> \in Seq(Message)
    BY <1>2, OneCloses DEF Closes
  <1>4. \A k \in Nodes : inbox'[k] = IF k \in group THEN inbox[k] \o <<m>> ELSE inbox[k]
    BY <1>1, <1>3, MulticastForm DEF Types
  <1>5. PICK log, st, pos : Follow(log, st, pos) /\ Counts(st, pos) /\ Prepared(log, st, begun, Writers)
    BY DEF Common
  <1>6. /\ Shape(log, st, pos) /\ LogOK(log, st, pos, group) /\ group \in SUBSET Nodes
        /\ st[Len(log)].nodes = group
    BY <1>5 DEF Follow, Types
  <1>11. Writers' = Writers /\ Len(<<m>>) = 1
    <2>1. Writers' = Writers
      BY <1>1 DEF Writers, Wrote
    <2> QED BY <2>1, SMT
  <1>12. \A k \in group : dl'[k].running => begun'[k] = st[pos[k]].no
    BY <1>1, <1>5 DEF Counts
  <1>7. May(log, st, pos, group, m)
    BY <1>2, <1>6 DEF May, Fits, Timely
  <1>8. group = IF m.type = "confchg" THEN (st[Len(log)].nodes \cup m.joined) \ m.left ELSE st[Len(log)].nodes
    BY <1>2, <1>6
  <1>9. \A k \in group : /\ inbox[k] \in Seq(Message) /\ inbox'[k] = inbox[k] \o <<m>>
                         /\ Placed(dl'[k], inbox[k], log, st, pos[k])
    BY <1>1, <1>4, <1>5, FollowNode
  <1>10. \A k \in Nodes \ group : dl'[k] = NewDaemon /\ inbox'[k] = <<>>
    BY <1>1, <1>4, <1>5 DEF Follow
  <1>13. Prepared(log, st, begun', Writers')
    BY <1>1, <1>5, <1>11
  <1> QED BY <1>1, <1>2, <1>3, <1>6, <1>7, <1>8, <1>9, <1>10, <1>11, <1>12, <1>13, FollowBlock

\* A node that takes the next event of the log is at the next place.
Moves(n, d, out, log, st, p) ==
    /\ p + 1 \in DOMAIN log /\ Head(inbox[n]) = log[p + 1]
    /\ Tail(inbox[n]) \in Seq(Message) /\ Placed(d, Tail(inbox[n]), log, st, p + 1)
    /\ Ending(out) => Fires(st[p], log[p + 1], n)
    /\ dl[n].init => dl[n].running = st[p].running

LEMMA NextPlace ==
    ASSUME NEW log, NEW st, NEW pos, NEW n \in group, NEW d, NEW out,
           Types, Follow(log, st, pos), inbox[n] # <<>>, Handled(n, Head(inbox[n]), d, out)
    PROVE  Moves(n, d, out, log, st, pos[n])
  <1> DEFINE p == pos[n]
             m == log[p + 1]
  <1>1. /\ log \in Seq(Message) /\ inbox[n] \in Seq(Message) /\ p \in 0 .. Len(log)
        /\ Placed(dl[n], inbox[n], log, st, p)
    BY FollowNode
  <1>2. Rest(inbox[n], log, p)
    BY <1>1 DEF Placed
  <1>3. /\ p + 1 \in DOMAIN log /\ p + 1 \in 0 .. Len(log) /\ Head(inbox[n]) = m
        /\ Tail(inbox[n]) \in Seq(Message) /\ Rest(Tail(inbox[n]), log, p + 1)
    BY <1>1, <1>2, RestTail
  <1>4. /\ st \in [0 .. Len(log) -> View] /\ DOMAIN st = 0 .. Len(log)
        /\ LogOK(log, st, pos, group)
    BY DEF Follow, Shape
  <1>5. (p + 1) - 1 = p
    BY <1>1, SMT
  <1>6. st[p + 1] = Step(st[p], m) /\ Fits(st[p], m, group) /\ Sane(st[p + 1], group)
    BY <1>3, <1>4, <1>5 DEF LogOK
  <1>7. st[p] \in View
    BY <1>1, <1>4
  <1>8. d.init
    BY DEF Handled
  <1>9. CASE dl[n].init
    <2>1. Agree(dl[n], st[p]) /\ Clean(dl[n])
      BY <1>1, <1>9 DEF Placed, Member
    <2>2. m.type = "ready" => st[p].running
      BY <1>6 DEF Fits
    <2>3. dl[n].running = st[p].running
      BY <2>1 DEF Agree
    <2> HIDE DEF p, m
    <2>4. /\ (m.type = "ready" => dl[n].running) /\ Clean(dl[n]) => Clean(d)
          /\ \A s \in View : Agree(dl[n], s) /\ (m.type = "ready" => s.running) =>
                Agree(d, Step(s, m)) /\ (Ending(out) => Fires(s, m, n))
      BY <1>3, <1>9 DEF Handled
    <2>5. Agree(d, Step(st[p], m)) /\ (Ending(out) => Fires(st[p], m, n))
      BY <1>7, <2>1, <2>2, <2>4
    <2>6. Clean(d)
      BY <2>1, <2>2, <2>3, <2>4
    <2>7. Placed(d, Tail(inbox[n]), log, st, p + 1)
      BY <1>3, <1>6, <1>8, <2>5, <2>6 DEF Placed, Member
    <2> QED BY <1>3, <2>3, <2>5, <2>7 DEF Moves, p, m
  <1>10. CASE ~dl[n].init
    <2>1. dl[n] = NewDaemon /\ m.type = "confchg" /\ m.members = st[p + 1].nodes /\ ~st[p + 1].running
      BY <1>1, <1>10 DEF Placed, Newcomer
    <2>2. d = FirstConfchg(NewDaemon, m) /\ out = <<>>
      BY <1>3, <1>10, <2>1 DEF Handled
    <2>3. /\ d.nodes = m.members /\ d.ready = {} /\ d.running = FALSE /\ d.all_ready = FALSE
          /\ d.lkbs = {} /\ d.transactions = {}
      BY <2>2 DEF FirstConfchg, NewDaemon
    <2>4. st[p + 1] \in View
      BY <1>3, <1>4
    <2>5. st[p + 1].running = FALSE /\ st[p + 1].all_ready = FALSE /\ st[p + 1].ready = {}
      BY <1>6, <2>1, <2>4 DEF Sane, View
    <2>6. Agree(d, st[p + 1]) /\ Clean(d)
      BY <2>1, <2>3, <2>5 DEF Agree, Clean
    <2>7. Placed(d, Tail(inbox[n]), log, st, p + 1)
      BY <1>3, <1>8, <2>6 DEF Placed, Member
    <2> QED BY <1>3, <1>10, <2>2, <2>7, NoMessage DEF Moves
  <1> QED BY <1>9, <1>10

\* A delivery tells no member another cycle than the one it runs, and takes nobody out of it
\* that is ready.
LEMMA DeliverCounts ==
    ASSUME Types, NEW n \in Nodes, NEW d, NEW out, NEW log, NEW st, NEW pos, NEW pos2,
           Handled(n, Head(inbox[n]), d, out), Delivered(n, d, out), Recorded(n, out),
           Follow(log, st, pos), Counts(st, pos), Prepared(log, st, begun, Writers),
           pos2 = [pos EXCEPT ![n] = pos[n] + 1]
    PROVE  /\ \A k \in group : dl'[k].running => begun'[k] = st[pos2[k]].no
           /\ Prepared(log, st, begun', Writers')
  <1> DEFINE L == Len(log)
             p == pos[n]
             h == log[p + 1]
  <1>1. /\ n \in group /\ inbox[n] # <<>> /\ dl' = [dl EXCEPT ![n] = d] /\ group' = group
        /\ group \subseteq Nodes
    BY DEF Delivered, Types
  <1>2. Shape(log, st, pos) /\ LogOK(log, st, pos, group)
    BY DEF Follow
  <1>3. /\ p + 1 \in DOMAIN log /\ Head(inbox[n]) = h /\ Placed(d, Tail(inbox[n]), log, st, p + 1)
        /\ dl[n].init => dl[n].running = st[p].running
    <2>1. Moves(n, d, out, log, st, pos[n])
      BY <1>1, NextPlace
    <2> QED BY <2>1 DEF Moves
  <1>4. /\ L \in Nat /\ p \in 0 .. L /\ p + 1 \in 1 .. L /\ p + 1 \in 0 .. L /\ (p + 1) - 1 = p
        /\ DOMAIN log = 1 .. L /\ DOMAIN st = 0 .. L
    BY <1>2, <1>3, SMT DEF Shape
  <1>5. /\ st[p] \in View /\ st[p + 1] \in View /\ h \in Message /\ st[p + 1] = Step(st[p], h)
    <2>1. st \in [0 .. L -> View] /\ log \in Seq(Message)
      BY <1>2 DEF Shape
    <2>2. h \in Message
      BY <1>3, <2>1, SMT
    <2> QED BY <1>2, <1>3, <1>4, <2>1, <2>2 DEF LogOK
  <1>6. d.init /\ d.running = st[p + 1].running
    BY <1>3 DEF Handled, Placed, Member, Agree
  <1>7. ~dl[n].init => ~dl[n].running /\ h.type # "start" /\ ~st[p + 1].running
    <2>1. Placed(dl[n], inbox[n], log, st, p)
      BY <1>1, FollowNode
    <2>2. ~dl[n].init => dl[n] = NewDaemon /\ h.type = "confchg" /\ ~st[p + 1].running
      BY <2>1 DEF Placed, Newcomer
    <2>3. NewDaemon.running = FALSE
      BY DEF NewDaemon
    <2> QED BY <2>2, <2>3
  <1>8. /\ \A k \in Nodes : k # n => dl'[k] = dl[k] /\ begun'[k] = begun[k] /\ (k \in unread' <=> k \in unread)
        /\ dl'[n] = d
        /\ ~Starting(n) => begun' = begun /\ unread' = unread
        /\ Starting(n) => begun'[n] = h.no
    BY <1>1, <1>3 DEF Recorded, Types
  <1> HIDE DEF h, p, L
  <1>9. d.running => begun'[n] = st[p + 1].no
    <2>1. CASE Starting(n)
      <3>1. h.type = "start" /\ ~dl[n].running
        BY <1>3, <2>1 DEF Starting
      <3>2. ~st[p].running
        BY <1>3, <1>7, <3>1
      <3>3. st[p + 1].no = h.no
        <4>1. Begins(st[p], h).no = h.no
          BY <1>5, <3>1, BeginsView
        <4>2. st[p + 1] = Begins(st[p], h)
          BY <1>5, <3>1, <3>2 DEF Step
        <4> QED BY <4>1, <4>2
      <3> QED BY <1>8, <2>1, <3>3
    <2>2. CASE ~Starting(n) /\ ~dl[n].running
      <3>1. h.type # "start"
        BY <1>3, <2>2 DEF Starting
      <3>2. ~st[p + 1].running
        <4>1. dl[n].init => ~st[p].running
          BY <1>3, <2>2
        <4>2. ~st[p].running => ~Step(st[p], h).running
          BY <1>5, <3>1, StepRuns
        <4> QED BY <1>5, <1>7, <4>1, <4>2
      <3> QED BY <1>6, <3>2
    <2>3. CASE ~Starting(n) /\ dl[n].running
      <3>1. st[p].running /\ begun[n] = st[p].no
        BY <1>1, <1>3, <1>7, <2>3 DEF Counts, p
      <3>2. st[p + 1].no = st[p].no
        BY <1>5, <3>1, StepNo
      <3> QED BY <1>8, <2>3, <3>1, <3>2
    <2> QED BY <2>1, <2>2, <2>3
  <1>10. \A k \in Nodes : pos2[k] = IF k = n THEN p + 1 ELSE pos[k]
    BY <1>2 DEF Shape, p
  <1>11. \A k \in group : dl'[k].running => begun'[k] = st[pos2[k]].no
    <2>1. ASSUME NEW k \in group, k # n, dl'[k].running
          PROVE  begun'[k] = st[pos2[k]].no
      <3>1. dl'[k] = dl[k] /\ begun'[k] = begun[k] /\ pos2[k] = pos[k]
        BY <1>1, <1>8, <1>10, <2>1
      <3> QED BY <2>1, <3>1 DEF Counts
    <2>2. dl'[n].running => begun'[n] = st[pos2[n]].no
      BY <1>8, <1>9, <1>10
    <2> QED BY <2>1, <2>2
  <1>12. ASSUME NEW i \in DOMAIN st, NoEnd(log, i, L), NEW k \in st[i].ready
         PROVE  begun'[k] = st[i].no /\ k \in Writers'
    <2>1. begun[k] = st[i].no /\ k \in Nodes /\ (k \in group => Wrote(k))
      BY <1>12 DEF Prepared, Writers, L
    <2>2. CASE k # n
      BY <1>1, <1>8, <2>1, <2>2 DEF Writers, Wrote
    <2>3. CASE k = n
      <3>1. dl[n].running /\ n \notin unread /\ st[p].running
        BY <1>1, <1>3, <1>7, <2>1, <2>3 DEF Wrote
      <3>2. ~Starting(n)
        BY <3>1 DEF Starting
      <3>3. d.running
        <4>1. CASE h.type # "end"
          BY <1>5, <1>6, <3>1, <4>1, StepRuns
        <4>2. CASE h.type = "end"
          <5>1. i \in 0 .. L
            BY <1>4
          <5>2. i <= p \/ p < i
            BY <1>4, <5>1, SMT
          <5>3. CASE p < i
            <6>1. p + 1 \in p .. i
              BY <1>4, <5>1, <5>3, SMT
            <6>2. Runs(st, p, i)
              BY <1>1, <1>2, <1>12, <2>3, <5>3 DEF LogOK, Begun, p
            <6> QED BY <1>6, <6>1, <6>2 DEF Runs
          <5>4. CASE i <= p
            <6>1. p + 1 \in i + 1 .. L
              BY <1>4, <5>1, <5>4, SMT
            <6> QED BY <1>12, <4>2, <6>1 DEF NoEnd, h
          <5> QED BY <5>2, <5>3, <5>4
        <4> QED BY <4>1, <4>2
      <3> QED BY <1>8, <2>1, <2>3, <3>1, <3>2, <3>3 DEF Writers, Wrote
    <2> QED BY <2>2, <2>3
  <1> QED BY <1>11, <1>12 DEF Prepared, L

LEMMA CommonDeliver ==
    ASSUME Types, Common, NEW n \in Nodes, Deliver(n)
    PROVE  Common'
  <1>1. PICK d, out : Handled(n, Head(inbox[n]), d, out) /\ Delivered(n, d, out) /\ Recorded(n, out)
    BY DeliverAny DEF Delivers
  <1>2. /\ n \in group /\ inbox[n] # <<>> /\ dl' = [dl EXCEPT ![n] = d] /\ group' = group
        /\ \A k \in Nodes : inbox'[k] = IF k \in group
                                        THEN (IF k = n THEN Tail(inbox[k]) ELSE inbox[k]) \o out ELSE inbox[k]
    BY <1>1 DEF Delivered
  <1>3. PICK log, st, pos : Follow(log, st, pos) /\ Counts(st, pos) /\ Prepared(log, st, begun, Writers)
    BY DEF Common
  <1> DEFINE L == Len(log)
             p == pos[n]
             pos2 == [pos EXCEPT ![n] = p + 1]
             box == [k \in Nodes |-> IF k = n THEN Tail(inbox[k]) ELSE inbox[k]]
  <1>4. /\ Shape(log, st, pos) /\ LogOK(log, st, pos, group) /\ group \in SUBSET Nodes
        /\ st[L].nodes = group
    BY <1>3 DEF Follow, Types
  <1>5. /\ p + 1 \in DOMAIN log /\ Head(inbox[n]) = log[p + 1]
        /\ Tail(inbox[n]) \in Seq(Message) /\ Placed(d, Tail(inbox[n]), log, st, p + 1)
        /\ Ending(out) => Fires(st[p], log[p + 1], n)
        /\ dl[n].init => dl[n].running = st[p].running
    <2>1. n \in group /\ inbox[n] # <<>> /\ Handled(n, Head(inbox[n]), d, out)
      BY <1>1, <1>2
    <2>2. Moves(n, d, out, log, st, pos[n])
      BY <1>3, <2>1, NextPlace
    <2> QED BY <2>2 DEF Moves
  <1>6. /\ L \in Nat /\ p \in 0 .. L /\ p + 1 \in 1 .. L /\ p + 1 \in 0 .. L /\ p <= p + 1
        /\ DOMAIN log = 1 .. L
    BY <1>4, <1>5, SMT DEF Shape
  <1>7. Shape(log, st, pos2) /\ \A k \in Nodes : pos2[k] = IF k = n THEN p + 1 ELSE pos[k]
    BY <1>4, <1>6 DEF Shape
  <1>8. \A k \in group : pos[k] <= pos2[k]
    <2>1. \A k \in Nodes : pos[k] \in 0 .. L
      BY <1>4 DEF Shape
    <2>2. \A k \in Nodes : pos[k] <= pos[k]
      BY <1>6, <2>1, SMT
    <2> QED BY <1>4, <1>6, <1>7, <2>2
  <1> HIDE DEF pos2
  <1>9. LogOK(log, st, pos2, group)
    BY <1>4, <1>7, <1>8, Advance
  <1>10. ASSUME NEW k \in group
         PROVE  box[k] \in Seq(Message) /\ inbox'[k] = box[k] \o out /\ Placed(dl'[k], box[k], log, st, pos2[k])
    <2>1. CASE k = n
      <3>1. box[k] = Tail(inbox[n]) /\ dl'[k] = d /\ pos2[k] = p + 1
        BY <1>2, <1>4, <1>7, <2>1 DEF Types
      <3> QED BY <1>2, <1>4, <1>5, <2>1, <3>1
    <2>2. CASE k # n
      <3>1. box[k] = inbox[k] /\ dl'[k] = dl[k] /\ pos2[k] = pos[k] /\ k \in Nodes
        BY <1>2, <1>4, <1>7, <2>2 DEF Types
      <3>2. inbox[k] \in Seq(Message) /\ Placed(dl[k], inbox[k], log, st, pos[k])
        BY <1>3, FollowNode
      <3> QED BY <1>2, <2>2, <3>1, <3>2
    <2> QED BY <2>1, <2>2
  <1>11. \A k \in Nodes \ group : dl'[k] = NewDaemon /\ inbox'[k] = <<>>
    BY <1>2, <1>3 DEF Follow, Types
  <1> HIDE DEF box
  <1>16. /\ \A k \in group : dl'[k].running => begun'[k] = st[pos2[k]].no
         /\ Prepared(log, st, begun', Writers')
    BY <1>1, <1>3, <1>7, DeliverCounts DEF pos2
  <1>12. CASE out = <<>>
    <2>1. \A k \in group : inbox'[k] = box[k]
      BY <1>10, <1>12, SMT
    <2>2. Follow(log, st, pos2)'
      BY <1>2, <1>4, <1>7, <1>9, <1>10, <1>11, <2>1 DEF Follow
    <2>3. Counts(st, pos2)'
      BY <1>2, <1>16 DEF Counts
    <2> QED BY <1>16, <2>2, <2>3 DEF Common
  <1>13. ASSUME NEW m \in Message, m.type \in {"ready", "end"}, Closes(out, m), May(log, st, pos2, group, m),
                m.type = "end" \/ Len(out) = 1,
                m.type = "ready" => begun'[m.from] = st[Len(log)].no /\ m.from \in Writers'
         PROVE  Common'
    <2>1. group = IF m.type = "confchg" THEN (st[L].nodes \cup m.joined) \ m.left ELSE st[L].nodes
      BY <1>4, <1>13
    <2> QED BY <1>2, <1>4, <1>7, <1>9, <1>10, <1>11, <1>13, <1>16, <2>1, FollowBlock
  <1>14. CASE Ending(out)
    <2>1. CycleEndMsg \in Message /\ CycleEndMsg.type = "end" /\ Closes(out, CycleEndMsg)
      BY <1>14 DEF CycleEndMsg, Message, Closes, Ending
    <2>2. /\ st[L].running
          /\ \A k \in group : Runs(st, pos[k], L)
          /\ \A k \in group : \A i \in pos[k] + 1 .. L : i # p + 1 \/ k # n => ~Fires(st[i - 1], log[i], k)
      <3>1. n \in group /\ p + 1 \in DOMAIN log /\ Fires(st[p], log[p + 1], n)
        BY <1>2, <1>5, <1>14
      <3>2. Shape(log, st, pos) /\ LogOK(log, st, pos, group) /\ group \in SUBSET Nodes
        BY <1>4
      <3> QED BY <3>1, <3>2, EndIsTimely
    <2>3. ASSUME NEW k \in group
          PROVE  /\ Runs(st, pos2[k], L)
                 /\ \A i \in pos2[k] + 1 .. L : ~Fires(st[i - 1], log[i], k)
      <3>1. CASE k = n
        <4>1. pos2[k] = p + 1
          BY <1>4, <1>7, <3>1
        <4>2. \A i \in p + 1 .. L : i \in p .. L
          BY <1>6, SMT
        <4>3. \A i \in (p + 1) + 1 .. L : i \in p + 1 .. L /\ i # p + 1
          BY <1>6, SMT
        <4> QED BY <2>2, <3>1, <4>1, <4>2, <4>3 DEF Runs
      <3>2. CASE k # n
        <4>1. pos2[k] = pos[k]
          BY <1>4, <1>7, <3>2
        <4> QED BY <2>2, <3>2, <4>1
      <3> QED BY <3>1, <3>2
    <2>4. May(log, st, pos2, group, CycleEndMsg)
      BY <2>1, <2>2, <2>3 DEF May, Fits, Timely
    <2> QED BY <1>13, <2>1, <2>4
  <1>15. CASE out # <<>> /\ ~Ending(out)
    <2> DEFINE m == [type |-> "ready", from |-> n]
    <2>1. Head(inbox[n]).type = "start" /\ ~dl[n].running /\ out = <<m>> /\ dl[n].init
      BY <1>1, <1>15 DEF Handled
    <2>2. m \in Message /\ m.type = "ready" /\ m.from = n
      BY DEF Message
    <2>3. ~st[p].running /\ log[p + 1].type = "start"
      BY <1>5, <2>1
    <2>4. Fits(st[L], m, group) /\ Runs(st, p + 1, L)
      BY <1>2, <1>4, <1>5, <2>3, ReadyIsTimely
    <2> HIDE DEF m
    <2>5. pos2[n] = p + 1
      BY <1>7
    <2>6. May(log, st, pos2, group, m)
      BY <2>2, <2>4, <2>5 DEF May, Timely
    <2>7. Closes(out, m)
      BY <2>1, <2>2, OneCloses
    <2>8. Len(out) = 1
      BY <2>1, SMT
    <2>9. begun'[n] = st[L].no /\ n \in Writers'
      <3>1. st[p + 1].running /\ st[p + 1].no = st[L].no
        <4>1. p + 1 <= L /\ p + 1 \in p + 1 .. L /\ L \in 0 .. L
          BY <1>6, SMT
        <4>2. st[p + 1].running
          BY <2>4, <4>1 DEF Runs
        <4>3. DOMAIN st = 0 .. L /\ OneCycle(st)
          BY <1>4 DEF LogOK, Shape
        <4> QED BY <1>6, <2>4, <4>1, <4>2, <4>3 DEF OneCycle
      <3>2. dl'[n].running
        BY <1>1, <1>2, <1>5, <3>1 DEF Placed, Member, Agree, Handled, Types
      <3>3. begun'[n] = st[p + 1].no
        BY <1>2, <1>16, <2>5, <3>2
      <3>4. n \notin unread'
        BY <1>1, <1>15, <2>1 DEF Recorded, Starting
      <3> QED BY <3>1, <3>2, <3>3, <3>4 DEF Writers, Wrote
    <2> QED BY <1>13, <2>2, <2>6, <2>7, <2>8, <2>9
  <1> QED BY <1>12, <1>14, <1>15

LEMMA CommonDepart ==
    ASSUME Types, Common, NEW n \in Nodes, Depart(n)
    PROVE  Common'
  <1> DEFINE m == Event(group \ {n}, {}, {n})
             G == group \ {n}
  <1>1. /\ n \in group /\ group' = G /\ dl' = [dl EXCEPT ![n] = NewDaemon]
        /\ inbox' = [Post(inbox, m) EXCEPT ![n] = <<>>]
        /\ begun' = begun /\ unread' \subseteq unread
    BY DEF Depart
  <1>2. /\ m \in Message /\ m.type = "confchg" /\ m.members = G /\ m.joined = {} /\ m.left = {n}
        /\ G \in SUBSET Nodes /\ G \in SUBSET group /\ group \in SUBSET Nodes /\ n \notin G
    <2>1. G \in SUBSET Nodes /\ G \in SUBSET group /\ group \in SUBSET Nodes /\ n \notin G
      BY DEF Types
    <2> QED BY <2>1 DEF Event, Message
  <1> HIDE DEF m
  <1>3. inbox \in [Nodes -> Seq(Message)]
    BY DEF Types
  <1>4. /\ Post(inbox, m) \in [Nodes -> Seq(Message)]
        /\ \A k \in Nodes : Post(inbox, m)[k] = IF k \in G THEN Append(inbox[k], m) ELSE inbox[k]
    BY <1>2, <1>3, PostForm
  <1>5. PICK log, st, pos : Follow(log, st, pos) /\ Counts(st, pos) /\ Prepared(log, st, begun, Writers)
    BY DEF Common
  <1>6. Shape(log, st, pos) /\ LogOK(log, st, pos, group) /\ st[Len(log)].nodes = group
    BY <1>5 DEF Follow
  <1>13. \A k \in G : dl'[k].running => begun'[k] = st[pos[k]].no
    BY <1>1, <1>2, <1>5 DEF Counts, Types
  <1>14. Prepared(log, st, begun', Writers') /\ Len(<<m>>) = 1
    <2>1. Writers \subseteq Writers'
      BY <1>1, <1>2 DEF Writers, Wrote, Types
    <2>2. Prepared(log, st, begun', Writers')
      BY <1>1, <1>5, <2>1 DEF Prepared
    <2> QED BY <2>2, SMT
  <1> HIDE DEF G
  <1>7. LogOK(log, st, pos, G)
    <2>1. \A k \in G : pos[k] <= pos[k]
      <3>1. \A k \in G : pos[k] \in 0 .. Len(log)
        BY <1>2, <1>6 DEF Shape
      <3> QED BY <3>1, SMT
    <2>2. Shape(log, st, pos) /\ LogOK(log, st, pos, group) /\ group \in SUBSET Nodes /\ G \in SUBSET group
      BY <1>2, <1>6
    <2> QED BY ONLY <2>1, <2>2, Advance, ZenonT(60)
  <1>8. May(log, st, pos, G, m)
    BY <1>2 DEF May, Fits, Timely
  <1>9. Closes(<<m>>, m)
    BY <1>2, OneCloses
  <1>10. G = IF m.type = "confchg" THEN (st[Len(log)].nodes \cup m.joined) \ m.left ELSE st[Len(log)].nodes
    BY <1>2, <1>6 DEF G
  <1>11. ASSUME NEW k \in G
         PROVE  /\ inbox[k] \in Seq(Message) /\ inbox'[k] = inbox[k] \o <<m>>
                /\ Placed(dl'[k], inbox[k], log, st, pos[k])
    <2>1. k \in Nodes /\ k \in group /\ k # n
      BY <1>2
    <2>2. inbox[k] \in Seq(Message) /\ Placed(dl[k], inbox[k], log, st, pos[k])
      BY <1>5, <2>1, FollowNode
    <2>3. dl'[k] = dl[k]
      BY <1>1, <2>1 DEF Types
    <2>4. inbox'[k] = Append(inbox[k], m)
      BY <1>1, <1>4, <2>1
    <2>5. Append(inbox[k], m) = inbox[k] \o <<m>>
      BY <1>2, <2>2, SMT
    <2> QED BY <2>2, <2>3, <2>4, <2>5
  <1>12. ASSUME NEW k \in Nodes \ G
         PROVE  dl'[k] = NewDaemon /\ inbox'[k] = <<>>
    <2>1. CASE k = n
      BY <1>1, <1>4, <2>1 DEF Types
    <2>2. CASE k # n
      <3>1. k \in Nodes \ group
        BY <2>2 DEF G
      <3>2. dl'[k] = dl[k] /\ inbox'[k] = inbox[k]
        BY <1>1, <1>4, <2>2 DEF Types
      <3> QED BY <1>5, <3>1, <3>2 DEF Follow
    <2> QED BY <2>1, <2>2
  <1> QED BY <1>1, <1>2, <1>6, <1>7, <1>8, <1>9, <1>10, <1>11, <1>12, <1>13, <1>14, FollowBlock

\* Between cycles: everybody has the list G and no flags.
Resting(G) == [running |-> FALSE, all_ready |-> FALSE, nodes |-> G, in_cycle |-> {}, ready |-> {},
               low |-> NoNode, no |-> 0]

Start(G) == [i \in 0 .. 0 |-> Resting(G)]
AtStart == [n \in Nodes |-> 0]

LEMMA RestingType ==
    ASSUME NEW G \in SUBSET Nodes
    PROVE  /\ Resting(G) \in View /\ Resting(G).nodes = G /\ ~Resting(G).running
           /\ \A H : Sane(Resting(G), H)
  BY DEF Resting, View, Sane

LEMMA EmptyLog ==
    ASSUME NEW G \in SUBSET Nodes, NEW H \in SUBSET Nodes
    PROVE  /\ Shape(<<>>, Start(G), AtStart) /\ LogOK(<<>>, Start(G), AtStart, H)
           /\ Start(G)[Len(<<>>)] = Resting(G) /\ \A n \in Nodes : AtStart[n] = 0
  <1> DEFINE st == Start(G)
             e == <<>>
  <1>1. Len(<<>>) = 0 /\ DOMAIN <<>> = {} /\ 0 \in 0 .. 0 /\ \A i \in 0 .. 0 : i = 0
    BY SMT
  <1>2. st \in [0 .. 0 -> View] /\ st[0] = Resting(G) /\ DOMAIN st = 0 .. 0
    BY <1>1, RestingType DEF Start
  <1>3. AtStart \in [Nodes -> 0 .. 0] /\ \A n \in Nodes : AtStart[n] = 0
    BY <1>1 DEF AtStart
  <1>4. Shape(<<>>, st, AtStart)
    BY <1>1, <1>2, <1>3, NoMessage DEF Shape
  <1> HIDE DEF st
  <1>5. ~st[0].running /\ st[0].ready = {} /\ ~st[0].all_ready /\ Sane(st[0], H)
    <2>1. Sane(Resting(G), H)
      BY RestingType
    <2>2. ~Resting(G).running /\ Resting(G).ready = {} /\ ~Resting(G).all_ready
      BY DEF Resting
    <2> QED BY <1>2, <2>1, <2>2
  <1>6. /\ \A p \in DOMAIN st : Sane(st[p], H)
        /\ RunsOn(<<>>, st) /\ OneCycle(st) /\ StaysLow(<<>>, st, H) /\ Begun(st, AtStart, H)
    BY <1>1, <1>2, <1>5 DEF RunsOn, OneCycle, StaysLow, Begun
  <1>7. LogOK(<<>>, st, AtStart, H)
    BY <1>1, <1>6 DEF LogOK, Ended
  <1> QED BY <1>1, <1>2, <1>3, <1>4, <1>7 DEF st

\* A node joins when nobody runs a cycle and everybody is at the end of the log: a new log
\* begins with its joining.
LEMMA CommonJoin ==
    ASSUME Types, Common, NEW n \in Nodes, Join(n), ~JoinInCycle
    PROVE  Common'
  <1> DEFINE G == group \cup {n}
             st == Start(group)
  <1>0. PICK m : m = Event(G, {n}, {})
    OBVIOUS
  <1>1. n \notin group /\ group' = G /\ inbox' = Post(inbox, m) /\ UNCHANGED dl /\ Idle
    BY <1>0 DEF Join
  <1>2. /\ m \in Message /\ m.type = "confchg" /\ m.members = G /\ m.joined = {n} /\ m.left = {}
        /\ G \in SUBSET Nodes /\ group \in SUBSET Nodes
    <2>1. G \in SUBSET Nodes /\ group \in SUBSET Nodes
      BY DEF Types
    <2> QED BY <1>0, <2>1 DEF Event, Message
  <1>3. inbox \in [Nodes -> Seq(Message)]
    BY DEF Types
  <1>4. \A k \in Nodes : inbox'[k] = IF k \in G THEN Append(inbox[k], m) ELSE inbox[k]
    <2>1. \A k \in Nodes : Post(inbox, m)[k] = IF k \in m.members THEN Append(inbox[k], m) ELSE inbox[k]
      BY <1>2, <1>3, PostForm
    <2> QED BY <1>1, <1>2, <2>1
  <1>5. PICK log0, st0, pos0 : Follow(log0, st0, pos0)
    BY DEF Common
  <1>6. \A k \in Nodes : inbox[k] = <<>>
    BY <1>1, <1>5 DEF Follow, Idle
  <1> DEFINE L == Len(log0)
  <1>7. /\ L \in Nat /\ L \in 0 .. L /\ DOMAIN log0 = 1 .. L /\ DOMAIN st0 = 0 .. L
        /\ st0[L].nodes = group /\ st0[L] \in View /\ Sane(st0[L], group)
    <2>1. L \in Nat /\ L \in 0 .. L /\ DOMAIN log0 = 1 .. L
      BY <1>5, SMT DEF Follow, Shape
    <2> QED BY <1>5, <2>1 DEF Follow, Shape, LogOK
  <1>8. ASSUME NEW k \in group
        PROVE  dl[k].init /\ Member(dl[k], Resting(group))
    <2>1. Placed(dl[k], <<>>, log0, st0, pos0[k]) /\ pos0[k] \in 0 .. L /\ ~dl[k].running
      <3>1. ~dl[k].running /\ inbox[k] = <<>>
        BY <1>1 DEF Idle
      <3>2. Placed(dl[k], inbox[k], log0, st0, pos0[k]) /\ pos0[k] \in 0 .. L
        BY <1>5, FollowNode
      <3> QED BY <3>1, <3>2
    <2>2. pos0[k] = L
      BY <1>7, <2>1, SMT DEF Placed, Rest
    <2>3. L + 1 \notin 1 .. L
      BY <1>7, SMT
    <2>4. dl[k].init /\ Agree(dl[k], st0[L]) /\ Clean(dl[k])
      BY <1>7, <2>1, <2>2, <2>3 DEF Placed, Newcomer, Member
    <2>5. st0[L].running = FALSE /\ st0[L].all_ready = FALSE /\ st0[L].ready = {}
      BY <1>7, <2>1, <2>4 DEF Agree, Sane, View
    <2>6. Agree(dl[k], Resting(group))
      BY <1>7, <2>4, <2>5 DEF Agree, Resting
    <2> QED BY <2>4, <2>6 DEF Member
  <1> HIDE DEF G, L
  <1>9. /\ Shape(<<>>, st, AtStart) /\ LogOK(<<>>, st, AtStart, G)
        /\ st[Len(<<>>)] = Resting(group) /\ \A k \in Nodes : AtStart[k] = 0
    BY <1>2, EmptyLog
  <1>10. /\ Resting(group) \in View /\ Resting(group).nodes = group /\ ~Resting(group).running
    BY <1>2, RestingType
  <1> HIDE DEF st
  <1>11. May(<<>>, st, AtStart, G, m)
    BY <1>2, <1>9, <1>10 DEF May, Fits, Timely
  <1>12. Closes(<<m>>, m) /\ <<>> \in Seq(Message) /\ <<m>> \in Seq(Message)
    BY <1>2, OneCloses, NoMessage DEF Closes
  <1>13. PICK st2 : GoesOn(<<>>, st, AtStart, G, <<m>>, m, st2)
    BY <1>2, <1>9, <1>11, <1>12, AppendBlock
  <1>14. /\ <<>> \o <<m>> = <<m>> /\ Len(<<m>>) = 1 /\ Len(<<>>) = 0 /\ DOMAIN <<m>> = 1 .. 1 /\ <<m>>[1] = m
         /\ 0 + 1 = 1 /\ 1 \in 1 .. 1 /\ 0 \in 0 .. 0 /\ \A i \in 1 .. 1 : i = 1
         /\ Append(<<>>, m) = <<m>>
    BY <1>12, SMT
  <1>15. /\ Shape(<<m>>, st2, AtStart) /\ LogOK(<<m>>, st2, AtStart, G)
         /\ st2[1] = Step(Resting(group), m) /\ st2[0] = Resting(group)
    BY <1>9, <1>13, <1>14 DEF GoesOn, Longer
  <1>16. st2[1].nodes = G /\ ~st2[1].running
    <2>1. Step(Resting(group), m).nodes = (group \cup {n}) \ {}
      BY <1>2, <1>10, StepNodes
    <2>2. ~Step(Resting(group), m).running
      BY <1>2, <1>10, StepRuns
    <2> QED BY <1>15, <2>1, <2>2 DEF G
  <1>17. Rest(<<m>>, <<m>>, 0)
    BY <1>14, SMT DEF Rest
  <1>18. ASSUME NEW k \in G
         PROVE  Placed(dl'[k], inbox'[k], <<m>>, st2, AtStart[k])
    <2>1. k \in Nodes /\ inbox'[k] = <<m>> /\ AtStart[k] = 0
      BY <1>2, <1>4, <1>6, <1>9, <1>14
    <2>2. CASE k \in group
      BY <1>1, <1>8, <1>15, <1>17, <2>1, <2>2 DEF Placed
    <2>3. CASE k = n
      <3>1. dl[k] = NewDaemon /\ ~NewDaemon.init
        BY <1>1, <1>5, <2>3 DEF Follow, NewDaemon
      <3>2. Newcomer(dl[k], <<m>>, st2, 0)
        BY <1>2, <1>14, <1>16, <3>1 DEF Newcomer
      <3> QED BY <1>1, <1>17, <2>1, <3>1, <3>2 DEF Placed
    <2> QED BY <2>2, <2>3 DEF G
  <1>19. ASSUME NEW k \in Nodes \ G
         PROVE  dl'[k] = NewDaemon /\ inbox'[k] = <<>>
    <2>1. k \in Nodes \ group
      BY DEF G
    <2> QED BY <1>1, <1>4, <1>5, <2>1 DEF Follow
  <1>20. Follow(<<m>>, st2, AtStart)'
    BY <1>1, <1>14, <1>15, <1>16, <1>18, <1>19 DEF Follow
  <1>21. Counts(st2, AtStart)'
    <2>1. ~NewDaemon.running
      BY DEF NewDaemon
    <2>2. \A k \in G : ~dl'[k].running
      BY <1>1, <1>5, <2>1 DEF Idle, Follow, G
    <2> QED BY <1>1, <2>2 DEF Counts
  <1>22. Prepared(<<m>>, st2, begun', Writers')
    <2>1. DOMAIN st2 = 0 .. 1 /\ \A i \in 0 .. 1 : i = 0 \/ i = 1
      BY <1>14, <1>15, SMT DEF Shape
    <2>2. \A p \in DOMAIN st2 : ~st2[p].running /\ Sane(st2[p], G)
      BY <1>10, <1>15, <1>16, <2>1 DEF LogOK
    <2> QED BY <2>2 DEF Prepared, Sane
  <1> QED BY <1>20, <1>21, <1>22 DEF Common

-----------------------------------------------------------------------------
(* What follows *)

LEMMA CommonInit ==
    ASSUME Init
    PROVE  Common
  <1>1. Founders \in SUBSET Nodes
    BY DeadlockAssumption
  <1>2. /\ Shape(<<>>, Start(Founders), AtStart) /\ LogOK(<<>>, Start(Founders), AtStart, Founders)
        /\ Start(Founders)[Len(<<>>)] = Resting(Founders) /\ \A n \in Nodes : AtStart[n] = 0
    BY <1>1, EmptyLog
  <1>3. Len(<<>>) = 0 /\ Rest(<<>>, <<>>, 0)
    BY SMT DEF Rest
  <1>4. group = Founders /\ \A n \in Nodes : inbox[n] = <<>>
    BY DEF Init, InitWith
  <1>5. ASSUME NEW n \in Founders
        PROVE  dl[n].init /\ Member(dl[n], Resting(Founders))
    <2>1. dl[n] = FirstConfchg(NewDaemon, [members |-> Founders])
      BY <1>1 DEF Init, InitWith
    <2>2. /\ dl[n].init = TRUE /\ dl[n].nodes = Founders /\ dl[n].running = FALSE
          /\ dl[n].all_ready = FALSE /\ dl[n].ready = {} /\ dl[n].lkbs = {} /\ dl[n].transactions = {}
      BY <2>1 DEF FirstConfchg, NewDaemon
    <2> QED BY <2>2 DEF Member, Agree, Clean, Resting
  <1>6. \A n \in Nodes \ Founders : dl[n] = NewDaemon
    BY DEF Init, InitWith
  <1>7. Start(Founders)[Len(<<>>)].nodes = Founders
    BY <1>1, <1>2, RestingType
  <1>8. \A n \in Founders : Placed(dl[n], inbox[n], <<>>, Start(Founders), AtStart[n])
    BY <1>1, <1>2, <1>3, <1>4, <1>5 DEF Placed
  <1>9. Follow(<<>>, Start(Founders), AtStart)
    BY <1>2, <1>4, <1>6, <1>7, <1>8 DEF Follow
  <1>10. Counts(Start(Founders), AtStart)
    <2>1. \A n \in Founders : ~dl[n].running
      BY <1>5 DEF Member, Agree, Resting
    <2> QED BY <1>4, <2>1 DEF Counts
  <1>11. Prepared(<<>>, Start(Founders), begun, Writers)
    <2>1. \A i \in 0 .. 0 : Start(Founders)[i].ready = {}
      BY DEF Start, Resting
    <2> QED BY <2>1 DEF Prepared, Start
  <1> QED BY <1>9, <1>10, <1>11 DEF Common

LEMMA CommonStays ==
    ASSUME Common, UNCHANGED <<dl, inbox, group, begun, unread>>
    PROVE  Common'
  <1>1. PICK log, st, pos : Follow(log, st, pos) /\ Counts(st, pos) /\ Prepared(log, st, begun, Writers)
    BY DEF Common
  <1>2. Follow(log, st, pos)' /\ Counts(st, pos)'
    BY <1>1 DEF Follow, Counts
  <1>3. Writers' = Writers
    BY DEF Writers, Wrote
  <1> QED BY <1>1, <1>2, <1>3 DEF Common

LEMMA CommonNext ==
    ASSUME ~JoinInCycle, Types, Common, [Next]_vars
    PROVE  Common'
  <1>1. CASE \E n \in Nodes : SendCycleStart(n)
    BY <1>1, CommonSend
  <1>2. CASE \E n \in Nodes : Deliver(n)
    BY <1>2, CommonDeliver
  <1>3. CASE \E n \in Nodes : Join(n)
    BY <1>3, CommonJoin
  <1>4. CASE \E n \in Nodes : Depart(n)
    BY <1>4, CommonDepart
  <1>5. CASE Kernel
    <2>1. UNCHANGED <<dl, inbox, group, begun, unread>>
      BY <1>5 DEF Kernel, Request, Grant, End, Operation, daemonVars
    <2> QED BY <2>1, CommonStays
  <1>6. CASE UNCHANGED vars
    BY <1>6, CommonStays DEF vars, daemonVars, history
  <1> QED BY <1>1, <1>2, <1>3, <1>4, <1>5, <1>6 DEF Next

LEMMA CommonClean ==
    ASSUME Types, Common
    PROVE  CleanBetweenCycles
  <1>1. PICK log, st, pos : Follow(log, st, pos)
    BY DEF Common
  <1>2. Shape(log, st, pos) /\ LogOK(log, st, pos, group)
    BY <1>1 DEF Follow
  <1> SUFFICES ASSUME NEW n \in group, ~dl[n].running
               PROVE  dl[n].lkbs = {} /\ dl[n].ready = {} /\ dl[n].transactions = {} /\ ~dl[n].all_ready
    BY DEF CleanBetweenCycles
  <1>3. Placed(dl[n], inbox[n], log, st, pos[n]) /\ pos[n] \in 0 .. Len(log)
    BY <1>1, FollowNode
  <1>4. CASE dl[n].init
    <2>1. Agree(dl[n], st[pos[n]]) /\ Clean(dl[n])
      BY <1>3, <1>4 DEF Placed, Member
    <2>2. Sane(st[pos[n]], group)
      BY <1>2, <1>3 DEF Shape, LogOK
    <2> QED BY <2>1, <2>2 DEF Agree, Clean, Sane
  <1>5. CASE ~dl[n].init
    <2>1. dl[n] = NewDaemon
      BY <1>3, <1>5 DEF Placed, Newcomer
    <2>2. NewDaemon.lkbs = {} /\ NewDaemon.ready = {} /\ NewDaemon.transactions = {} /\ NewDaemon.all_ready = FALSE
      BY DEF NewDaemon
    <2> QED BY <2>1, <2>2
  <1> QED BY <1>4, <1>5

LEMMA CommonEnds ==
    ASSUME Types, Common
    PROVE  EndsOnce
  <1>1. PICK log, st, pos : Follow(log, st, pos)
    BY DEF Common
  <1>2. Shape(log, st, pos) /\ LogOK(log, st, pos, group)
    BY <1>1 DEF Follow
  <1> SUFFICES ASSUME NEW n \in group, Receives(n, "end")
               PROVE  dl[n].running
    BY DEF EndsOnce
  <1>3. /\ Placed(dl[n], inbox[n], log, st, pos[n]) /\ pos[n] \in 0 .. Len(log)
        /\ log \in Seq(Message) /\ inbox[n] \in Seq(Message)
    BY <1>1, FollowNode
  <1>4. inbox[n] # <<>> /\ Head(inbox[n]).type = "end"
    BY DEF Receives
  <1>5. /\ pos[n] + 1 \in DOMAIN log /\ (pos[n] + 1) - 1 = pos[n] /\ Head(inbox[n]) = log[pos[n] + 1]
    <2>1. Rest(inbox[n], log, pos[n])
      BY <1>3 DEF Placed
    <2> QED BY <1>3, <1>4, <2>1, SMT DEF Rest
  <1>6. Fits(st[pos[n]], log[pos[n] + 1], group)
    BY <1>2, <1>5 DEF LogOK
  <1>7. st[pos[n]].running
    BY <1>4, <1>5, <1>6 DEF Fits
  <1>8. dl[n].init
    <2> SUFFICES ASSUME ~dl[n].init PROVE FALSE
      OBVIOUS
    <2>1. log[pos[n] + 1].type = "confchg"
      BY <1>3 DEF Placed, Newcomer
    <2> QED BY <1>4, <1>5, <2>1
  <1> QED BY <1>3, <1>7, <1>8 DEF Placed, Member, Agree

\* When no node joins while a cycle runs, a daemon keeps nothing between cycles that the
\* next cycle would take for fresh, whatever is sent, delivered and lost with the nodes
\* that fail: a node that ends its cycle has had every checkpoint_ready of that cycle.
THEOREM NothingIsKept ==
    ASSUME ~JoinInCycle
    PROVE  Spec => []CleanBetweenCycles
  <1>1. Init => Types /\ Common
    BY TypesInit, CommonInit
  <1>2. Types /\ Common /\ [Next]_vars => (Types /\ Common)'
    BY TypesNext, CommonNext
  <1>3. Types /\ Common => CleanBetweenCycles
    BY CommonClean
  <1> QED BY <1>1, <1>2, <1>3, PTL DEF Spec

\* When no node joins while a cycle runs, a cycle is ended once: the nodes that look for
\* deadlocks agree on who ends it, also when that node fails and another takes over, and
\* a cycle_end is delivered to nobody whose cycle does not run.
THEOREM CyclesEndOnce ==
    ASSUME ~JoinInCycle
    PROVE  Spec => []EndsOnce
  <1>1. Init => Types /\ Common
    BY TypesInit, CommonInit
  <1>2. Types /\ Common /\ [Next]_vars => (Types /\ Common)'
    BY TypesNext, CommonNext
  <1>3. Types /\ Common => EndsOnce
    BY CommonEnds
  <1> QED BY <1>1, <1>2, <1>3, PTL DEF Spec

-----------------------------------------------------------------------------
(* What a node has of the locks *)

\* The copies of the lock l in S
OfLock(S, l) == {c \in S : c.id = l.id}

\* l as it is known when its home and its master have been read
Whole(l, mas) == [l EXCEPT !.copy = IF l.home = mas[l.rsb] THEN LOCAL_COPY ELSE MASTER_COPY]

\* What is known of l when the nodes R have been read
Image(l, mas, R) ==
    IF {l.home, mas[l.rsb]} \subseteq R THEN {Whole(l, mas)} ELSE UNION {Debugfs(m, mas, {l}) : m \in R}

\* S is what is known of the locks D when the nodes R have been read and, if only is true,
\* of no other locks.
Copies(S, D, mas, R, only) ==
    /\ \A l \in D : OfLock(S, l) = Image(l, mas, R)
    /\ only => \A c \in S : \E l \in D : c.id = l.id

LEMMA DebugfsOne ==
    ASSUME NEW m, NEW mas, NEW l
    PROVE  Debugfs(m, mas, {l}) = IF m \in {l.home, mas[l.rsb]} THEN {set_copy(m, mas, l)} ELSE {}
  BY DEF Debugfs, Masters

\* What set_copy leaves of a lock
LEMMA CopyFields ==
    ASSUME NEW m, NEW mas, NEW l \in LockType
    PROVE  /\ set_copy(m, mas, l).id = l.id /\ set_copy(m, mas, l).home = l.home
           /\ Whole(l, mas).id = l.id /\ Whole(l, mas).home = l.home /\ Whole(l, mas).xid = l.xid
           /\ Whole(l, mas).rsb = l.rsb /\ Whole(l, mas).status = l.status
           /\ Whole(l, mas).grmode = l.grmode /\ Whole(l, mas).rqmode = l.rqmode
  <1>1. /\ [l EXCEPT !.copy = LOCAL_COPY].id = l.id /\ [l EXCEPT !.copy = LOCAL_COPY].home = l.home
        /\ [l EXCEPT !.copy = MASTER_COPY, !.xid = 0].id = l.id
        /\ [l EXCEPT !.copy = MASTER_COPY, !.xid = 0].home = l.home
        /\ [l EXCEPT !.copy = MASTER_COPY, !.status = UNSET, !.grmode = NL, !.rqmode = NL].id = l.id
        /\ [l EXCEPT !.copy = MASTER_COPY, !.status = UNSET, !.grmode = NL, !.rqmode = NL].home = l.home
    BY DEF LockType
  <1>2. set_copy(m, mas, l).id = l.id /\ set_copy(m, mas, l).home = l.home
    BY <1>1 DEF set_copy
  <1>3. /\ Whole(l, mas).id = l.id /\ Whole(l, mas).home = l.home /\ Whole(l, mas).xid = l.xid
        /\ Whole(l, mas).rsb = l.rsb /\ Whole(l, mas).status = l.status
        /\ Whole(l, mas).grmode = l.grmode /\ Whole(l, mas).rqmode = l.rqmode
    BY DEF Whole, LockType
  <1> QED BY <1>2, <1>3

LEMMA ImageFields ==
    ASSUME NEW mas, NEW R, NEW l \in LockType, NEW c \in Image(l, mas, R)
    PROVE  c.id = l.id /\ c.home = l.home
  <1>1. CASE c = Whole(l, mas)
    BY <1>1, CopyFields
  <1>2. ASSUME NEW m \in R, c \in Debugfs(m, mas, {l})
        PROVE  c.id = l.id /\ c.home = l.home
    <2>1. c = set_copy(m, mas, l)
      BY <1>2 DEF Debugfs
    <2> QED BY <2>1, CopyFields
  <1> QED BY <1>1, <1>2 DEF Image

\* The nodes that are neither the home nor the master of l do not matter.
LEMMA ImageDepends ==
    ASSUME NEW l, NEW mas, NEW mas2, NEW R, NEW R2, mas2[l.rsb] = mas[l.rsb],
           R \cap {l.home, mas[l.rsb]} = R2 \cap {l.home, mas[l.rsb]}
    PROVE  Image(l, mas2, R2) = Image(l, mas, R)
  <1>1. Whole(l, mas2) = Whole(l, mas)
    BY DEF Whole
  <1>2. \A m : set_copy(m, mas2, l) = set_copy(m, mas, l)
    BY DEF set_copy, Masters
  <1>3. \A m : Debugfs(m, mas2, {l}) = Debugfs(m, mas, {l})
    BY <1>2 DEF Debugfs, Masters
  <1>4. ASSUME NEW m, Debugfs(m, mas, {l}) # {}
        PROVE  m \in R <=> m \in R2
    <2>1. m \in {l.home, mas[l.rsb]}
      BY <1>4, DebugfsOne
    <2> QED BY <2>1
  <1>5. UNION {Debugfs(m, mas2, {l}) : m \in R2} = UNION {Debugfs(m, mas, {l}) : m \in R}
    BY <1>3, <1>4
  <1>6. {l.home, mas2[l.rsb]} \subseteq R2 <=> {l.home, mas[l.rsb]} \subseteq R
    OBVIOUS
  <1> QED BY <1>1, <1>5, <1>6 DEF Image

LEMMA CopiesStay ==
    ASSUME NEW S, NEW D, NEW mas, NEW R, NEW only, Copies(S, D, mas, R, only),
           NEW D2 \in SUBSET D, NEW mas2, NEW R2, NEW only2,
           \A l \in D2 : /\ mas2[l.rsb] = mas[l.rsb]
                        /\ R \cap {l.home, mas[l.rsb]} = R2 \cap {l.home, mas[l.rsb]},
           only2 => only /\ D \subseteq D2
    PROVE  Copies(S, D2, mas2, R2, only2)
  <1>1. ASSUME NEW l \in D2
        PROVE  OfLock(S, l) = Image(l, mas2, R2)
    <2>2. mas2[l.rsb] = mas[l.rsb] /\ R \cap {l.home, mas[l.rsb]} = R2 \cap {l.home, mas[l.rsb]}
      OBVIOUS
    <2>1. Image(l, mas2, R2) = Image(l, mas, R)
      BY ONLY <2>2, ImageDepends, SMT
    <2> QED BY <2>1 DEF Copies
  <1> QED BY <1>1 DEF Copies

\* What node n reads from debugfs when the locks are T
LEMMA CopiesRead ==
    ASSUME NEW T, LockTable(T), NEW D \in SUBSET T, NEW n, NEW mas, NEW only, only => D = T
    PROVE  Copies(Debugfs(n, mas, T), D, mas, {n}, only)
  <1>1. ASSUME NEW l \in T
        PROVE  l \in LockType /\ set_copy(n, mas, l).id = l.id
    <2>1. l \in LockType
      BY DEF LockTable, KernelLock
    <2> QED BY <2>1, CopyFields
  <1>2. ASSUME NEW l \in D
        PROVE  OfLock(Debugfs(n, mas, T), l) = Image(l, mas, {n})
    <2>1. ASSUME NEW c \in OfLock(Debugfs(n, mas, T), l)
          PROVE  c \in Debugfs(n, mas, {l})
      <3>1. PICK k \in T : c = set_copy(n, mas, k) /\ (k.home = n \/ Masters(n, mas, k))
        BY DEF OfLock, Debugfs
      <3>2. c.id = l.id
        BY DEF OfLock
      <3>3. k = l
        BY <1>1, <3>1, <3>2 DEF LockTable
      <3> QED BY <3>1, <3>3 DEF Debugfs
    <2>2. ASSUME NEW c \in Debugfs(n, mas, {l})
          PROVE  c \in OfLock(Debugfs(n, mas, T), l)
      <3>1. c = set_copy(n, mas, l) /\ (l.home = n \/ Masters(n, mas, l)) /\ l \in T
        BY DEF Debugfs
      <3>2. c.id = l.id
        BY <1>1, <3>1
      <3> QED BY <3>1, <3>2 DEF Debugfs, OfLock
    <2>3. Image(l, mas, {n}) = Debugfs(n, mas, {l})
      <3>1. CASE l.home = n /\ mas[l.rsb] = n
        <4>1. Whole(l, mas) = set_copy(n, mas, l)
          BY <3>1 DEF Whole, set_copy, Masters
        <4> QED BY <3>1, <4>1, DebugfsOne DEF Image
      <3>2. CASE ~(l.home = n /\ mas[l.rsb] = n)
        BY <3>2 DEF Image
      <3> QED BY <3>1, <3>2
    <2> QED BY <2>1, <2>2, <2>3
  <1>3. ASSUME only, NEW c \in Debugfs(n, mas, T)
        PROVE  \E l \in D : c.id = l.id
    <2>1. PICK l \in T : c = set_copy(n, mas, l)
      BY DEF Debugfs
    <2> QED BY <1>1, <1>3, <2>1
  <1> QED BY <1>2, <1>3 DEF Copies

\* A node that knows nothing
LEMMA CopiesNone ==
    ASSUME NEW D, NEW mas, NEW only
    PROVE  Copies({}, D, mas, {}, only)
  BY DEF Copies, OfLock, Image

LEMMA AddToNothing ==
    ASSUME NEW new
    PROVE  AddLocks({}, new) = new
  BY DEF AddLocks, add_lock, get_lkb

LEMMA AddNothing ==
    ASSUME NEW S
    PROVE  AddLocks(S, {}) = S
  BY DEF AddLocks

\* A lock stays the one it is when its copies are merged.
LEMMA MergeFields ==
    ASSUME NEW old \in LockType, NEW lock \in LockType
    PROVE  Merge(old, lock).id = (IF partial_master_copy(lock) THEN old ELSE lock).id
  <1>1. [old EXCEPT !.xid = lock.xid].id = old.id /\ [lock EXCEPT !.xid = old.xid].id = lock.id
    BY DEF LockType
  <1> QED BY <1>1 DEF Merge

LEMMA AddedId ==
    ASSUME NEW S \in SUBSET LockType, NEW lock \in LockType, NEW c \in add_lock(S, lock)
    PROVE  c.id = lock.id
  <1>1. CASE c = lock
    BY <1>1
  <1>2. CASE c # lock
    <2>1. PICK old \in get_lkb(S, lock) : c = Merge(old, lock)
      BY <1>2 DEF add_lock
    <2>2. old \in LockType /\ old.id = lock.id
      BY DEF get_lkb
    <2> QED BY <2>1, <2>2, MergeFields
  <1> QED BY <1>1, <1>2

\* The copies of different locks are merged independently.
LEMMA AddOfLock ==
    ASSUME NEW S \in SUBSET LockType, NEW C \in SUBSET LockType, NEW l
    PROVE  OfLock(AddLocks(S, C), l) = AddLocks(OfLock(S, l), OfLock(C, l))
  <1>1. ASSUME NEW lock, lock.id = l.id
        PROVE  /\ get_lkb(OfLock(S, l), lock) = get_lkb(S, lock)
               /\ add_lock(OfLock(S, l), lock) = add_lock(S, lock)
    <2>1. get_lkb(OfLock(S, l), lock) = get_lkb(S, lock)
      BY <1>1 DEF get_lkb, OfLock
    <2> QED BY <2>1 DEF add_lock
  <1>2. ASSUME NEW c, c.id = l.id, c \in S, NEW lock \in C, c \in get_lkb(S, lock)
        PROVE  lock.id = l.id
    BY <1>2 DEF get_lkb
  <1>3. ASSUME NEW c, c.id = l.id, NEW lock \in C, c \in add_lock(S, lock)
        PROVE  lock.id = l.id
    BY <1>3, AddedId
  <1>4. ASSUME NEW c \in OfLock(AddLocks(S, C), l)
        PROVE  c \in AddLocks(OfLock(S, l), OfLock(C, l))
    <2>1. c.id = l.id /\ c \in AddLocks(S, C)
      BY DEF OfLock
    <2>2. ASSUME NEW lock \in C, c \in add_lock(S, lock)
          PROVE  c \in AddLocks(OfLock(S, l), OfLock(C, l))
      <3>1. lock \in OfLock(C, l) /\ c \in add_lock(OfLock(S, l), lock)
        BY <1>1, <1>3, <2>1, <2>2 DEF OfLock
      <3> QED BY <3>1 DEF AddLocks
    <2>3. ASSUME c \in S, \A lock \in C : c \notin get_lkb(S, lock)
          PROVE  c \in AddLocks(OfLock(S, l), OfLock(C, l))
      <3>1. c \in OfLock(S, l)
        BY <2>1, <2>3 DEF OfLock
      <3>2. \A lock \in OfLock(C, l) : c \notin get_lkb(OfLock(S, l), lock)
        BY <2>3 DEF OfLock, get_lkb
      <3> QED BY <3>1, <3>2 DEF AddLocks
    <2> QED BY <2>1, <2>2, <2>3 DEF AddLocks
  <1>5. ASSUME NEW c \in AddLocks(OfLock(S, l), OfLock(C, l))
        PROVE  c \in OfLock(AddLocks(S, C), l)
    <2>1. ASSUME NEW lock \in OfLock(C, l), c \in add_lock(OfLock(S, l), lock)
          PROVE  c \in OfLock(AddLocks(S, C), l)
      <3>1. lock \in C /\ lock.id = l.id
        BY DEF OfLock
      <3>2. c \in add_lock(S, lock)
        BY <1>1, <2>1, <3>1
      <3>3. c.id = l.id
        BY <3>1, <3>2, AddedId
      <3> QED BY <3>1, <3>2, <3>3 DEF OfLock, AddLocks
    <2>2. ASSUME c \in OfLock(S, l), \A lock \in OfLock(C, l) : c \notin get_lkb(OfLock(S, l), lock)
          PROVE  c \in OfLock(AddLocks(S, C), l)
      <3>1. c \in S /\ c.id = l.id
        BY <2>2 DEF OfLock
      <3>2. ASSUME NEW lock \in C, c \in get_lkb(S, lock)
            PROVE  FALSE
        <4>1. lock \in OfLock(C, l) /\ c \in get_lkb(OfLock(S, l), lock)
          BY <1>2, <2>2, <3>1, <3>2 DEF OfLock, get_lkb
        <4> QED BY <2>2, <4>1
      <3> QED BY <3>1, <3>2 DEF OfLock, AddLocks
    <2> QED BY <2>1, <2>2 DEF AddLocks
  <1> QED BY <1>4, <1>5

\* With what one more node has, the picture of a lock is that of one node more: the two parts
\* of a lock whose home is not its master fit together, in either order.
LEMMA AddImage ==
    ASSUME NEW l \in KernelLock, NEW mas, NEW R, NEW m, m \notin R
    PROVE  AddLocks(Image(l, mas, R), Image(l, mas, {m})) = Image(l, mas, R \cup {m})
  <1> DEFINE h == l.home
             w == mas[l.rsb]
             part == [l EXCEPT !.copy = MASTER_COPY, !.status = UNSET, !.grmode = NL, !.rqmode = NL]
             rest == [l EXCEPT !.copy = MASTER_COPY, !.xid = 0]
             all == [l EXCEPT !.copy = MASTER_COPY]
  <1>1. l \in LockType /\ l.xid # 0
    BY DEF KernelLock
  <1>2. CASE m \notin {h, w}
    <2>1. Image(l, mas, {m}) = {}
      <3>1. Debugfs(m, mas, {l}) = {} /\ ~({l.home, mas[l.rsb]} \subseteq {m})
        BY <1>2, DebugfsOne
      <3> QED BY <3>1 DEF Image
    <2>2. Image(l, mas, R \cup {m}) = Image(l, mas, R)
      <3>1. mas[l.rsb] = mas[l.rsb] /\ R \cap {l.home, mas[l.rsb]} = (R \cup {m}) \cap {l.home, mas[l.rsb]}
        BY <1>2
      <3> QED BY ONLY <3>1, ImageDepends, SMT
    <2> QED BY <2>1, <2>2, AddNothing
  <1>3. CASE m = h /\ h = w
    <2>1. Image(l, mas, R) = {}
      <3>1. \A k \in R : Debugfs(k, mas, {l}) = {}
        BY <1>3, DebugfsOne
      <3> QED BY <1>3, <3>1 DEF Image
    <2>2. Image(l, mas, {m}) = {Whole(l, mas)} /\ Image(l, mas, R \cup {m}) = {Whole(l, mas)}
      BY <1>3 DEF Image
    <2> QED BY <2>1, <2>2, AddToNothing
  <1>4. CASE m \in {h, w} /\ h # w
    <2>1. set_copy(h, mas, l) = part /\ set_copy(w, mas, l) = rest /\ Whole(l, mas) = all
      BY <1>4 DEF set_copy, Masters, Whole
    <2>2. /\ part.xid = l.xid /\ rest.xid = 0 /\ part.copy = MASTER_COPY /\ rest.copy = MASTER_COPY
          /\ part.id = l.id /\ rest.id = l.id
      BY <1>1 DEF LockType
    <2>8. [rest EXCEPT !.xid = l.xid] = all
      BY <1>1 DEF LockType
    <2> HIDE DEF part, rest, all
    <2>3. \A k : Debugfs(k, mas, {l}) = IF k = h THEN {part} ELSE IF k = w THEN {rest} ELSE {}
      BY <1>4, <2>1, DebugfsOne
    <2>4. Image(l, mas, {m}) = IF m = h THEN {part} ELSE {rest}
      BY <1>4, <2>3 DEF Image
    <2>5. AddLocks({rest}, {part}) = {all} /\ AddLocks({part}, {rest}) = {all}
      <3>1. get_lkb({rest}, part) = {rest} /\ get_lkb({part}, rest) = {part}
        BY <2>2 DEF get_lkb
      <3>2. Merge(rest, part) = all /\ Merge(part, rest) = all
        BY <1>1, <2>2, <2>8 DEF Merge, partial_master_copy
      <3>3. add_lock({rest}, part) = {all} /\ add_lock({part}, rest) = {all}
        BY <3>1, <3>2 DEF add_lock
      <3> QED BY <3>1, <3>3 DEF AddLocks
    <2>6. CASE {h, w} \subseteq R \cup {m}
      <3>1. Image(l, mas, R \cup {m}) = {all}
        BY <2>1, <2>6 DEF Image
      <3>2. Image(l, mas, R) = IF m = h THEN {rest} ELSE {part}
        <4>1. CASE m = h
          <5>1. w \in R /\ h \notin R
            BY <1>4, <2>6, <4>1
          <5>2. \A k \in R : Debugfs(k, mas, {l}) = IF k = w THEN {rest} ELSE {}
            BY <2>3, <5>1
          <5>3. UNION {Debugfs(k, mas, {l}) : k \in R} = {rest}
            BY <5>1, <5>2
          <5> QED BY <4>1, <5>1, <5>3 DEF Image
        <4>2. CASE m # h
          <5>1. h \in R /\ w \notin R
            BY <1>4, <2>6, <4>2
          <5>2. \A k \in R : Debugfs(k, mas, {l}) = IF k = h THEN {part} ELSE {}
            BY <2>3, <5>1
          <5>3. UNION {Debugfs(k, mas, {l}) : k \in R} = {part}
            BY <5>1, <5>2
          <5> QED BY <4>2, <5>1, <5>3 DEF Image
        <4> QED BY <4>1, <4>2
      <3> QED BY <1>4, <2>4, <2>5, <3>1, <3>2
    <2>7. CASE ~({h, w} \subseteq R \cup {m})
      <3>1. \A k \in R : Debugfs(k, mas, {l}) = {}
        <4>1. h \notin R /\ w \notin R
          BY <1>4, <2>7, SMT
        <4> QED BY <2>3, <4>1
      <3>2. Image(l, mas, R) = {} /\ Image(l, mas, R \cup {m}) = Image(l, mas, {m})
        BY <1>4, <2>7, <3>1 DEF Image
      <3> QED BY <3>2, AddToNothing
    <2> QED BY <2>6, <2>7
  <1> QED BY <1>2, <1>3, <1>4

\* What is added has the id of a lock that was there or is new.
LEMMA AddLocksIds ==
    ASSUME NEW S \in SUBSET LockType, NEW C \in SUBSET LockType, NEW c \in AddLocks(S, C)
    PROVE  \E k \in S \cup C : c.id = k.id
  <1>1. CASE c \in S
    BY <1>1
  <1>2. CASE c \notin S
    <2>1. PICK lock \in C : c \in add_lock(S, lock)
      BY <1>2 DEF AddLocks
    <2>2. c.id = lock.id
      BY <2>1, AddedId
    <2> QED BY <2>2
  <1> QED BY <1>1, <1>2

\* A checkpoint of m is read: M is {m}, or {} if m has nothing of the locks D.
LEMMA CopiesAdd ==
    ASSUME NEW S \in SUBSET LockType, NEW C \in SUBSET LockType, NEW D \in SUBSET KernelLock,
           NEW mas, NEW R, NEW only, NEW m, m \notin R, NEW M \in {{}, {m}},
           Copies(S, D, mas, R, only), Copies(C, D, mas, M, only)
    PROVE  Copies(AddLocks(S, C), D, mas, R \cup M, only)
  <1>1. ASSUME NEW l \in D
        PROVE  OfLock(AddLocks(S, C), l) = Image(l, mas, R \cup M)
    <2>1. OfLock(AddLocks(S, C), l) = AddLocks(Image(l, mas, R), Image(l, mas, M))
      <3>1. OfLock(S, l) = Image(l, mas, R) /\ OfLock(C, l) = Image(l, mas, M)
        BY DEF Copies
      <3>2. OfLock(AddLocks(S, C), l) = AddLocks(OfLock(S, l), OfLock(C, l))
        BY AddOfLock
      <3> QED BY <3>1, <3>2
    <2>2. CASE M = {m}
      <3>1. l \in KernelLock /\ m \notin R
        OBVIOUS
      <3>2. AddLocks(Image(l, mas, R), Image(l, mas, {m})) = Image(l, mas, R \cup {m})
        BY ONLY <3>1, AddImage
      <3> QED BY <2>1, <2>2, <3>2
    <2>3. CASE M = {}
      <3>1. Image(l, mas, {}) = {} /\ R \cup {} = R
        BY DEF Image
      <3> QED BY <2>1, <2>3, <3>1, AddNothing
    <2> QED BY <2>2, <2>3
  <1>2. ASSUME only, NEW c \in AddLocks(S, C)
        PROVE  \E l \in D : c.id = l.id
    <2>2. S \in SUBSET LockType /\ C \in SUBSET LockType /\ c \in AddLocks(S, C)
      OBVIOUS
    <2>1. PICK k \in S \cup C : c.id = k.id
      BY ONLY <2>2, AddLocksIds
    <2> QED BY <1>2, <2>1 DEF Copies
  <1> QED BY <1>1, <1>2 DEF Copies

\* purge_locks: nothing is lost of the locks whose homes have not left.
LEMMA CopiesPurged ==
    ASSUME NEW S, NEW D \in SUBSET LockType, NEW mas, NEW R, NEW only, Copies(S, D, mas, R, only),
           NEW left, \A l \in D : l.home \notin left,
           NEW P, P = {c \in S : c.home \notin left}
    PROVE  Copies(P, D, mas, R, only)
  <1>1. ASSUME NEW l \in D
        PROVE  OfLock(P, l) = Image(l, mas, R)
    <2>1. OfLock(S, l) = Image(l, mas, R)
      BY DEF Copies
    <2>2. ASSUME NEW c \in OfLock(S, l)
          PROVE  c.home = l.home
      <3>1. c \in Image(l, mas, R) /\ l \in LockType
        BY <2>1
      <3> QED BY ONLY <3>1, ImageFields
    <2>3. OfLock(P, l) = OfLock(S, l)
      BY <2>2 DEF OfLock
    <2> QED BY <2>1, <2>3
  <1> QED BY <1>1 DEF Copies

-----------------------------------------------------------------------------
(* What there is to find in the copies of all nodes *)

\* Everybody who is in a knot
Knotted(g) == {x \in g.trans : \E K \in SUBSET g.trans : x \in K /\ Knot(g, K)}

\* The graph of the locks D, as Deadlocked has it
Truth(D) == [trans |-> Transactions(D),
             waitfor |-> [x \in Transactions(D) |-> {y \in Transactions(D) : WaitsFor(D, x, y)}]]

LEMMA DeadlockedIs ==
    ASSUME NEW D
    PROVE  /\ Deadlocked(D) = Knotted(Truth(D)) /\ Truth(D).trans = Transactions(D)
           /\ \A x \in Transactions(D) : Truth(D).waitfor[x] = {y \in Transactions(D) : WaitsFor(D, x, y)}
  <1> DEFINE g == Truth(D)
  <1>1. Deadlocked(D) = UNION {{x \in h.trans : \E K \in SUBSET h.trans : x \in K /\ Knot(h, K)} : h \in {g}}
    BY DEF Deadlocked, Truth
  <1>2. g.trans = Transactions(D)
    BY DEF Truth
  <1>3. \A x \in Transactions(D) : g.waitfor[x] = {y \in Transactions(D) : WaitsFor(D, x, y)}
    BY DEF Truth
  <1> HIDE DEF g
  <1>4. UNION {{x \in h.trans : \E K \in SUBSET h.trans : x \in K /\ Knot(h, K)} : h \in {g}} = Knotted(g)
    BY DEF Knotted
  <1> QED BY <1>1, <1>2, <1>3, <1>4 DEF g

\* The graph of the code, for the locks S
LEMMA GraphIs ==
    ASSUME NEW S
    PROVE  /\ create_waitfor_graph(S).trans = Transactions(S)
           /\ \A x \in Transactions(S) :
                create_waitfor_graph(S).waitfor[x] = UNION {Blockers(S, w) : w \in WaitingLocks(S, x)}
  BY DEF create_waitfor_graph

\* A graph that has all the edges of another one has all its knots.
LEMMA MoreKnots ==
    ASSUME NEW g, NEW h, g.trans \subseteq h.trans, \A x \in g.trans : g.waitfor[x] \subseteq h.waitfor[x]
    PROVE  Knotted(g) \subseteq Knotted(h)
  <1>1. ASSUME NEW K, Knot(g, K)
        PROVE  Knot(h, K) /\ K \in SUBSET h.trans
    BY <1>1 DEF Knot
  <1> QED BY <1>1 DEF Knotted

\* When all that there is of the locks D has been read, a transaction that is deadlocked in
\* them is found; when nothing else has been read, no other one is.
LEMMA CopiesFound ==
    ASSUME NEW S, NEW D, LockTable(D), NEW mas, NEW R, NEW only, Copies(S, D, mas, R, only),
           \A l \in D : {l.home, mas[l.rsb]} \subseteq R
    PROVE  /\ Deadlocked(D) \subseteq Knotted(create_waitfor_graph(S))
           /\ only => Knotted(create_waitfor_graph(S)) \subseteq Deadlocked(D)
  <1> DEFINE g == Truth(D)
             h == create_waitfor_graph(S)
  <1>1. ASSUME NEW l \in D
        PROVE  /\ Whole(l, mas) \in S /\ \A c \in S : c.id = l.id => c = Whole(l, mas)
               /\ Whole(l, mas).xid = l.xid
               /\ Whole(l, mas).rsb = l.rsb /\ Whole(l, mas).status = l.status
               /\ Whole(l, mas).grmode = l.grmode /\ Whole(l, mas).rqmode = l.rqmode
               /\ l.status \in {WAITING, GRANTED, CONVERT}
    <2>1. Image(l, mas, R) = {Whole(l, mas)}
      BY DEF Image
    <2>2. OfLock(S, l) = {Whole(l, mas)}
      BY <2>1 DEF Copies
    <2>3. Whole(l, mas) \in S /\ \A c \in S : c.id = l.id => c = Whole(l, mas)
      BY <2>2 DEF OfLock
    <2>4. l \in LockType /\ l.status # UNSET
      BY DEF LockTable, KernelLock
    <2>5. l.status \in {WAITING, GRANTED, CONVERT}
      BY <2>4 DEF LockType, Status
    <2> QED BY <2>3, <2>4, <2>5, CopyFields
  <1>2. /\ Deadlocked(D) = Knotted(g) /\ g.trans = Transactions(D)
        /\ \A x \in Transactions(D) : g.waitfor[x] = {y \in Transactions(D) : WaitsFor(D, x, y)}
    BY DeadlockedIs
  <1>3. /\ h.trans = Transactions(S)
        /\ \A x \in Transactions(S) : h.waitfor[x] = UNION {Blockers(S, w) : w \in WaitingLocks(S, x)}
    BY GraphIs
  <1> HIDE DEF g, h
  <1>4. Transactions(D) \subseteq Transactions(S)
    <2>1. ASSUME NEW l \in D
          PROVE  l.xid \in Transactions(S)
      <3>1. Whole(l, mas) \in S /\ Whole(l, mas).xid = l.xid
        BY <1>1
      <3> QED BY <3>1 DEF Transactions
    <2> QED BY <2>1 DEF Transactions
  <1>5. ASSUME NEW x \in Transactions(D), NEW y, WaitsFor(D, x, y)
        PROVE  y \in h.waitfor[x]
    <2>1. PICK w \in D, k \in D : /\ w.xid = x /\ k.xid = y /\ x # y /\ w.rsb = k.rsb
                                 /\ w.status \in {WAITING, CONVERT} /\ k.status \in {GRANTED, CONVERT}
                                 /\ ~dlm_modes_compat(k.grmode, w.rqmode)
      BY <1>5 DEF WaitsFor
    <2> DEFINE a == Whole(w, mas)
               b == Whole(k, mas)
    <2>2. /\ a \in S /\ a.xid = x /\ a.rsb = w.rsb /\ a.status = w.status /\ a.rqmode = w.rqmode
          /\ b \in S /\ b.xid = y /\ b.rsb = w.rsb /\ b.status = k.status /\ b.grmode = k.grmode
      BY <1>1, <2>1
    <2> HIDE DEF a, b
    <2>3. a.status # GRANTED /\ b.status # WAITING
      BY <2>1, <2>2 DEF WAITING, CONVERT, GRANTED
    <2>4. a \in WaitingLocks(S, x) /\ b \in GrantedLocks(S, a.rsb)
      BY <2>2, <2>3 DEF WaitingLocks, GrantedLocks
    <2>5. ~locks_compat(a, b) /\ b.xid # a.xid
      BY <2>1, <2>2 DEF locks_compat
    <2>6. y \in Blockers(S, a)
      BY <2>2, <2>4, <2>5 DEF Blockers
    <2> QED BY <1>3, <1>4, <2>4, <2>6
  <1>6. Knotted(g) \subseteq Knotted(h)
    <2>1. g.trans \subseteq h.trans /\ \A x \in g.trans : g.waitfor[x] \subseteq h.waitfor[x]
      BY <1>2, <1>3, <1>4, <1>5
    <2> QED BY <2>1, MoreKnots
  <1>7. ASSUME only
        PROVE  Knotted(h) \subseteq Knotted(g)
    <2>1. ASSUME NEW c \in S
          PROVE  \E l \in D : c = Whole(l, mas)
      BY <1>1, <1>7 DEF Copies
    <2>2. ASSUME NEW c \in S
          PROVE  c.xid \in Transactions(D)
      <3>1. PICK l \in D : c = Whole(l, mas)
        BY <2>1
      <3>2. c.xid = l.xid
        BY <1>1, <3>1
      <3> QED BY <3>2 DEF Transactions
    <2>3. Transactions(S) \subseteq Transactions(D)
      BY <2>2 DEF Transactions
    <2>4. ASSUME NEW x \in Transactions(S), NEW y \in h.waitfor[x]
          PROVE  y \in g.waitfor[x]
      <3>10. h.waitfor[x] = UNION {Blockers(S, w) : w \in WaitingLocks(S, x)}
        BY <1>3
      <3>1. PICK a \in WaitingLocks(S, x) : y \in Blockers(S, a)
        BY <3>10
      <3>2. PICK b \in GrantedLocks(S, a.rsb) : ~locks_compat(a, b) /\ b.xid # a.xid /\ y = b.xid
        BY <3>1 DEF Blockers
      <3>3. /\ a \in S /\ a.xid = x /\ a.status # GRANTED
            /\ b \in S /\ b.rsb = a.rsb /\ b.status # WAITING
        BY DEF WaitingLocks, GrantedLocks
      <3>4. PICK w \in D : a = Whole(w, mas)
        BY <2>1, <3>3
      <3>5. PICK k \in D : b = Whole(k, mas)
        BY <2>1, <3>3
      <3>6. /\ a.xid = w.xid /\ a.rsb = w.rsb /\ a.status = w.status /\ a.rqmode = w.rqmode
            /\ b.xid = k.xid /\ b.rsb = k.rsb /\ b.status = k.status /\ b.grmode = k.grmode
            /\ w.status \in {WAITING, GRANTED, CONVERT} /\ k.status \in {WAITING, GRANTED, CONVERT}
        BY <1>1, <3>4, <3>5
      <3>7. ~dlm_modes_compat(k.grmode, w.rqmode)
        BY <3>2, <3>6 DEF locks_compat
      <3>8. w.status \in {WAITING, CONVERT} /\ k.status \in {GRANTED, CONVERT}
        BY <3>3, <3>6
      <3>9. WaitsFor(D, x, y)
        BY <3>2, <3>3, <3>6, <3>7, <3>8 DEF WaitsFor
      <3>11. y \in Transactions(D)
        BY <2>2, <3>2, <3>3
      <3> QED BY <1>2, <2>3, <3>9, <3>11
    <2>5. h.trans \subseteq g.trans /\ \A x \in h.trans : h.waitfor[x] \subseteq g.waitfor[x]
      BY <1>2, <1>3, <2>3, <2>4
    <2> QED BY <2>5, MoreKnots
  <1> QED BY <1>2, <1>6, <1>7 DEF h

-----------------------------------------------------------------------------
(* What the log says of a snapshot *)

\* A cycle_end is on its way.
HasEnd(q) == \E i \in DOMAIN q : q[i].type = "end"

LEMMA HasEndMore ==
    ASSUME NEW q \in Seq(Message), NEW out \in Seq(Message)
    PROVE  HasEnd(q) => HasEnd(q \o out)
  <1>1. \A i \in DOMAIN q : i \in DOMAIN (q \o out) /\ (q \o out)[i] = q[i]
    BY SMT
  <1> QED BY <1>1 DEF HasEnd

LEMMA HasEndAppend ==
    ASSUME NEW q \in Seq(Message), NEW m \in Message
    PROVE  HasEnd(q) => HasEnd(Append(q, m))
  <1>1. \A i \in DOMAIN q : i \in DOMAIN Append(q, m) /\ Append(q, m)[i] = q[i]
    BY SMT
  <1> QED BY <1>1 DEF HasEnd

LEMMA EndingHasEnd ==
    ASSUME NEW q \in Seq(Message), NEW out, Ending(out)
    PROVE  HasEnd(q \o out)
  <1> DEFINE j == Len(q) + Len(out)
  <1>1. j \in DOMAIN (q \o out) /\ (q \o out)[j] = CycleEndMsg
    BY SMT DEF Ending
  <1>2. CycleEndMsg.type = "end"
    BY DEF CycleEndMsg
  <1> QED BY <1>1, <1>2 DEF HasEnd

LEMMA HasEndTail ==
    ASSUME NEW q \in Seq(Message), q # <<>>, Head(q).type # "end"
    PROVE  HasEnd(Tail(q)) <=> HasEnd(q)
  <1>1. ASSUME NEW i \in DOMAIN Tail(q)
        PROVE  i + 1 \in DOMAIN q /\ Tail(q)[i] = q[i + 1]
    BY SMT
  <1>2. ASSUME NEW i \in DOMAIN q
        PROVE  IF i = 1 THEN q[i] = Head(q) ELSE i - 1 \in DOMAIN Tail(q) /\ Tail(q)[i - 1] = q[i]
    BY SMT
  <1>3. ASSUME HasEnd(q) PROVE HasEnd(Tail(q))
    <2>1. PICK i \in DOMAIN q : q[i].type = "end"
      BY <1>3 DEF HasEnd
    <2> QED BY <1>2, <2>1 DEF HasEnd
  <1>4. ASSUME HasEnd(Tail(q)) PROVE HasEnd(q)
    <2>1. PICK i \in DOMAIN Tail(q) : Tail(q)[i].type = "end"
      BY <1>4 DEF HasEnd
    <2> QED BY <1>1, <2>1 DEF HasEnd
  <1> QED BY <1>3, <1>4

\* If no end is in n's queue, none is in the log from n's place on.
LEMMA NoEndAhead ==
    ASSUME NEW q \in Seq(Message), NEW log \in Seq(Message), NEW p \in 0 .. Len(log), Rest(q, log, p), ~HasEnd(q)
    PROVE  NoEnd(log, p + 1, Len(log))
  <1> SUFFICES ASSUME NEW k \in (p + 1) + 1 .. Len(log)
               PROVE  log[k].type # "end"
    BY DEF NoEnd
  <1>1. k - p \in DOMAIN q /\ p + (k - p) = k
    BY SMT DEF Rest
  <1> QED BY <1>1 DEF HasEnd, Rest

\* When a node is told that the checkpoint of f is ready, and no end of the cycle is behind
\* it, then f has written it for the same cycle.
LEMMA ReadyInOrder ==
    ASSUME Types, Common, NEW n \in group, inbox[n] # <<>>, Head(inbox[n]).type = "ready",
           ~HasEnd(inbox[n]), NEW f, f = Head(inbox[n]).from
    PROVE  /\ f \in dl[n].nodes \ dl[n].ready /\ begun[f] = begun[n]
           /\ f \in Nodes /\ (f \in group => Wrote(f))
  <1>1. PICK log, st, pos : Follow(log, st, pos) /\ Counts(st, pos) /\ Prepared(log, st, begun, Writers)
    BY DEF Common
  <1> DEFINE p == pos[n]
             L == Len(log)
             h == log[p + 1]
  <1>2. /\ log \in Seq(Message) /\ inbox[n] \in Seq(Message) /\ p \in 0 .. L
        /\ Placed(dl[n], inbox[n], log, st, p)
    BY <1>1, FollowNode
  <1>3. Rest(inbox[n], log, p)
    BY <1>2 DEF Placed
  <1>4. p + 1 \in DOMAIN log /\ p + 1 \in 0 .. L /\ Head(inbox[n]) = h
    BY <1>2, <1>3, RestTail
  <1>5. /\ st \in [0 .. L -> View] /\ DOMAIN st = 0 .. L /\ LogOK(log, st, pos, group)
    BY <1>1 DEF Follow, Shape
  <1>6. (p + 1) - 1 = p
    BY <1>2, SMT
  <1>7. st[p + 1] = Step(st[p], h) /\ Fits(st[p], h, group) /\ st[p] \in View /\ st[p + 1] \in View
    BY <1>2, <1>4, <1>5, <1>6 DEF LogOK
  <1>8. h \in Message /\ h.type = "ready" /\ h.from = f
    BY <1>2, <1>4, SMT
  <1>9. NoEnd(log, p + 1, L)
    BY <1>2, <1>3, NoEndAhead
  <1> HIDE DEF h, L, p
  <1>10. st[p].running /\ f \in InCycle(st[p]) \ st[p].ready
    BY <1>7, <1>8 DEF Fits
  <1>11. Agree(dl[n], st[p])
    <2>1. dl[n].init
      BY <1>2, <1>8 DEF Placed, Newcomer, h
    <2> QED BY <1>2, <2>1 DEF Placed, Member
  <1>12. f \in dl[n].nodes \ dl[n].ready /\ dl[n].running
    BY <1>10, <1>11 DEF Agree, InCycle
  <1>13. begun[n] = st[p].no
    BY <1>1, <1>12 DEF Counts, p
  <1>14. st[p + 1].no = st[p].no
    BY <1>7, <1>8, <1>10, StepNo
  <1>15. f \in st[p + 1].ready
    <2> DEFINE t == [st[p] EXCEPT !.ready = @ \cup ({f} \cap st[p].nodes)]
    <2>1. st[p + 1] = Look(t)
      BY <1>7, <1>8 DEF Step
    <2>2. t \in View /\ t.ready = st[p].ready \cup ({f} \cap st[p].nodes)
      BY <1>7 DEF View
    <2>3. f \in t.ready
      BY <1>10, <2>2 DEF InCycle
    <2> HIDE DEF t
    <2>4. Look(t).ready = t.ready
      BY <2>2 DEF Look, View
    <2> QED BY <2>1, <2>3, <2>4
  <1>16. begun[f] = st[p + 1].no /\ f \in Writers
    BY <1>1, <1>4, <1>5, <1>9, <1>15 DEF Prepared, L
  <1> QED BY <1>12, <1>13, <1>14, <1>16 DEF Writers

\* The node that looks for deadlocks has read its own locks, and what all members have, and
\* nobody has ended the cycle before.
LEMMA EndingSeesAll ==
    ASSUME Types, Common, NEW n \in Nodes, NEW d, NEW out,
           Handled(n, Head(inbox[n]), d, out), Delivered(n, d, out), Ending(out)
    PROVE  /\ Wrote(n) /\ group \subseteq d.ready
           /\ ~HasEnd(inbox[n])
  <1>1. PICK log, st, pos : Follow(log, st, pos) /\ Counts(st, pos) /\ Prepared(log, st, begun, Writers)
    BY DEF Common
  <1> DEFINE p == pos[n]
             L == Len(log)
             h == log[p + 1]
  <1>2. n \in group /\ inbox[n] # <<>>
    BY DEF Delivered
  <1>3. /\ log \in Seq(Message) /\ inbox[n] \in Seq(Message) /\ p \in 0 .. L
        /\ Rest(inbox[n], log, p)
    BY <1>1, <1>2, FollowNode DEF Placed
  <1>4. /\ p + 1 \in DOMAIN log /\ Placed(d, Tail(inbox[n]), log, st, p + 1)
        /\ Fires(st[p], h, n)
    <2>1. Moves(n, d, out, log, st, pos[n])
      BY <1>1, <1>2, NextPlace
    <2> QED BY <2>1 DEF Moves
  <1>5. /\ st \in [0 .. L -> View] /\ DOMAIN st = 0 .. L /\ LogOK(log, st, pos, group)
    BY <1>1 DEF Follow, Shape
  <1>6. (p + 1) - 1 = p /\ p + 1 \in 0 .. L /\ DOMAIN log = 1 .. L /\ L \in Nat
    BY <1>3, <1>4, SMT
  <1>7. st[p + 1] = Step(st[p], h) /\ Sane(st[p + 1], group)
    BY <1>4, <1>5, <1>6 DEF LogOK
  <1>8. h.type # "end" /\ st[p + 1].all_ready
    BY <1>4, <1>7 DEF Fires
  <1>9. group \subseteq st[p + 1].ready
    BY <1>7, <1>8 DEF Sane
  <1>10. d.ready = st[p + 1].ready
    BY <1>4 DEF Placed, Member, Agree, Handled
  <1>11. ASSUME NEW e \in p + 1 .. L, log[e].type = "end"
         PROVE  FALSE
    <2>1. e # p + 1
      BY <1>8, <1>11
    <2>2. e \in DOMAIN log /\ p < e /\ p + 1 \in p + 1 .. e - 1
      BY <1>3, <1>6, <2>1, SMT
    <2>3. ~Fires(st[(p + 1) - 1], log[p + 1], n)
      BY <1>2, <1>5, <1>11, <2>2 DEF LogOK, Ended
    <2> QED BY <1>4, <1>6, <2>3
  <1>12. NoEnd(log, p + 1, L)
    <2>1. \A e \in (p + 1) + 1 .. L : e \in p + 1 .. L
      BY <1>3, SMT
    <2> QED BY <1>11, <2>1 DEF NoEnd
  <1>13. n \in Writers
    BY <1>1, <1>2, <1>5, <1>6, <1>9, <1>12 DEF Prepared
  <1>14. ~HasEnd(inbox[n])
    <2>1. \A i \in DOMAIN inbox[n] : p + i \in p + 1 .. L /\ inbox[n][i] = log[p + i]
      BY <1>3, SMT DEF Rest
    <2> QED BY <1>11, <2>1 DEF HasEnd
  <1> QED BY <1>2, <1>9, <1>10, <1>13, <1>14 DEF Writers

-----------------------------------------------------------------------------
(* What a cycle is to find: the invariant *)

\* The locks of the lockspace are those of its members, which master its resources.
Kern == /\ LockTable(locks) /\ \A l \in locks : l.home \in group
        /\ \A r \in Rsbs : master[r] \in group
        /\ gone \cap group = {}

\* What is due is there; nothing else is, in a cycle that is quiet.
Hist == /\ due \in [Cycles -> SUBSET locks] /\ quiet \in [Cycles -> BOOLEAN]
        /\ \A k \in Cycles : quiet[k] => due[k] = locks

\* The checkpoint of m, which may have failed since, has what m had of the locks that are
\* due in its cycle; all of them have another home and master if m has failed or could not
\* read its locks.
Reader(m) == IF Wrote(m) THEN {m} ELSE {}

Snapshot(m) ==
    /\ m \notin gone /\ ~Wrote(m) => ckpt[m] = {}
    /\ begun[m] # 0 => Copies(ckpt[m], due[begun[m]], master, Reader(m), quiet[begun[m]])

\* What n has of them, until the cycle is ended: all that it has read
Gathered(n) ==
    /\ dl[n].transactions # {} => HasEnd(inbox[n])
    /\ Wrote(n) /\ ~HasEnd(inbox[n]) /\ begun[n] # 0 =>
         Copies(dl[n].lkbs, due[begun[n]], master, dl[n].ready \cup {n}, quiet[begun[n]])

Exact == /\ Kern /\ Hist
         /\ (\A m \in Nodes : Snapshot(m)) /\ (\A n \in group : Gathered(n))
         /\ missed = {} /\ false = {}

\* In the cycle k, no more is due than before.
Fewer(k) == due'[k] \subseteq due[k] /\ (quiet'[k] => quiet[k] /\ due[k] \subseteq due'[k])

LEMMA CopiesFewer ==
    ASSUME NEW S, NEW D, NEW mas, NEW R, NEW only, Copies(S, D, mas, R, only),
           NEW D2 \in SUBSET D, NEW only2, only2 => only /\ D \subseteq D2
    PROVE  Copies(S, D2, mas, R, only2)
  BY DEF Copies

\* A checkpoint, and what a node has gathered, stay right when the daemon does nothing.
LEMMA SnapshotStays ==
    ASSUME Types, NEW m \in Nodes, begun[m] # 0 => Fewer(begun[m]), Snapshot(m), master' = master,
           dl'[m].running = dl[m].running, ckpt'[m] = ckpt[m], begun'[m] = begun[m], m \in unread' <=> m \in unread, gone' = gone
    PROVE  Snapshot(m)'
  <1>1. Wrote(m)' <=> Wrote(m)
    BY DEF Wrote
  <1>2. Reader(m)' = Reader(m)
    BY <1>1 DEF Reader
  <1>3. ASSUME begun[m] # 0
        PROVE  Copies(ckpt[m], due'[begun[m]], master, Reader(m), quiet'[begun[m]])
    <2>2. Copies(ckpt[m], due[begun[m]], master, Reader(m), quiet[begun[m]])
      BY <1>3 DEF Snapshot
    <2>3. due'[begun[m]] \in SUBSET due[begun[m]] /\ (quiet'[begun[m]] => quiet[begun[m]] /\ due[begun[m]] \subseteq due'[begun[m]])
      BY <1>3 DEF Fewer
    <2> QED BY <2>2, <2>3, CopiesFewer
  <1> QED BY <1>1, <1>2, <1>3 DEF Snapshot

LEMMA GatheredStays ==
    ASSUME Types, NEW n \in group, begun[n] # 0 => Fewer(begun[n]), Gathered(n), master' = master,
           dl'[n] = dl[n], begun'[n] = begun[n], n \in unread' <=> n \in unread,
           HasEnd(inbox[n]) => HasEnd(inbox'[n]) \/ (dl[n].transactions = {} /\ ~dl[n].running)
    PROVE  Gathered(n)'
  <1>1. Wrote(n)' <=> Wrote(n)
    BY DEF Wrote
  <1>2. ASSUME Wrote(n), ~HasEnd(inbox'[n]), begun[n] # 0
        PROVE  Copies(dl[n].lkbs, due'[begun[n]], master, dl[n].ready \cup {n}, quiet'[begun[n]])
    <2>2. Copies(dl[n].lkbs, due[begun[n]], master, dl[n].ready \cup {n}, quiet[begun[n]])
      BY <1>2 DEF Gathered, Wrote
    <2>3. due'[begun[n]] \in SUBSET due[begun[n]] /\ (quiet'[begun[n]] => quiet[begun[n]] /\ due[begun[n]] \subseteq due'[begun[n]])
      BY <1>2 DEF Fewer
    <2> QED BY <2>2, <2>3, CopiesFewer
  <1>3. dl[n].transactions # {} => HasEnd(inbox'[n])
    BY DEF Gathered
  <1> QED BY <1>1, <1>2, <1>3 DEF Gathered

LEMMA ExactStays ==
    ASSUME Types, Exact, Kern', Hist', \A k \in Cycles : Fewer(k),
           UNCHANGED <<dl, ckpt, group, master, gone, begun, missed, false, unread>>,
           \A n \in group : HasEnd(inbox[n]) => HasEnd(inbox'[n]) \/ (dl[n].transactions = {} /\ ~dl[n].running)
    PROVE  Exact'
  <1>1. ASSUME NEW m \in Nodes
        PROVE  Snapshot(m)'
    <2>1. begun[m] # 0 => Fewer(begun[m])
      BY DEF Types
    <2> QED BY <2>1, SnapshotStays DEF Exact
  <1>2. ASSUME NEW n \in group
        PROVE  Gathered(n)'
    <2>1. begun[n] # 0 => Fewer(begun[n])
      BY DEF Types
    <2> QED BY <2>1, GatheredStays DEF Exact
  <1> QED BY <1>1, <1>2 DEF Exact

\* When nothing is recorded
LEMMA SameHistory ==
    ASSUME Hist, UNCHANGED <<due, quiet, locks>>
    PROVE  Hist' /\ \A k \in Cycles : Fewer(k)
  BY DEF Hist, Fewer

\* When the locks change, only those that last are due.
LEMMA OtherLocks ==
    ASSUME Hist, due' = StillDue(locks'), quiet' = [k \in Cycles |-> FALSE]
    PROVE  Hist' /\ \A k \in Cycles : Fewer(k)
  BY DEF Hist, Fewer, StillDue

\* A node begins a cycle: what the others have begun is as it was.
LEMMA NotesKeep ==
    ASSUME Types, Hist, NEW n \in Nodes, NEW k \in Cycles, Notes(n, k), locks' = locks
    PROVE  /\ Hist' /\ begun'[n] = k
           /\ \A m \in Nodes \ {n} :
                begun'[m] = begun[m] /\ (begun[m] # 0 => Fewer(begun[m]))
  <1>1. /\ begun' = [begun EXCEPT ![n] = k] /\ begun \in [Nodes -> Cycles \cup {0}]
        /\ IF \E m \in Nodes : begun[m] = k THEN UNCHANGED <<due, quiet>>
           ELSE due' = [due EXCEPT ![k] = locks] /\ quiet' = [quiet EXCEPT ![k] = TRUE]
    BY DEF Notes, Types
  <1>2. CASE \E m \in Nodes : begun[m] = k
    BY <1>1, <1>2 DEF Hist, Fewer
  <1>3. CASE ~\E m \in Nodes : begun[m] = k
    <2>1. due' = [due EXCEPT ![k] = locks] /\ quiet' = [quiet EXCEPT ![k] = TRUE]
      BY <1>1, <1>3
    <2>2. Hist'
      BY <2>1 DEF Hist
    <2>3. \A j \in Cycles : j # k => Fewer(j)
      BY <2>1 DEF Hist, Fewer
    <2> QED BY <1>1, <1>3, <2>2, <2>3
  <1> QED BY <1>2, <1>3

\* What changes no lock, master or member leaves them right.
LEMMA SameKernel ==
    ASSUME Kern, UNCHANGED <<locks, master, group, gone>>
    PROVE  Kern'
  BY DEF Kern

-----------------------------------------------------------------------------
(* dlm-kernel's locks *)

LEMMA LockIsKernel ==
    ASSUME NEW x \in Xids, NEW r \in Rsbs, NEW s \in Status, s # UNSET, NEW gr \in Modes, NEW rq \in Modes
    PROVE  /\ Lock(x, r, s, gr, rq) \in KernelLock /\ Lock(x, r, s, gr, rq).id = <<x, r>>
           /\ Lock(x, r, s, gr, rq).home = Home[x]
  <1> DEFINE q == Lock(x, r, s, gr, rq)
  <1>1. q \in LockType /\ q.xid # 0
    BY LockIsKnown DEF Known
  <1>2. /\ q.id = <<x, r>> /\ q.xid = x /\ q.rsb = r /\ q.status = s /\ q.grmode = gr /\ q.rqmode = rq
        /\ q.home = Home[x]
    BY DEF Lock
  <1> HIDE DEF q
  <1>3. q = Lock(q.xid, q.rsb, q.status, q.grmode, q.rqmode)
    BY <1>2 DEF q
  <1> QED BY <1>1, <1>2, <1>3 DEF KernelLock, q

LEMMA KernelFields ==
    ASSUME NEW l \in KernelLock
    PROVE  /\ l \in LockType /\ l \in Known
           /\ l.xid \in Xids /\ l.rsb \in Rsbs /\ l.grmode \in Modes /\ l.rqmode \in Modes
           /\ l.id = <<l.xid, l.rsb>> /\ l.home = Home[l.xid]
  <1>1. l \in Known /\ l \in LockType
    BY DEF KernelLock, Known
  <1>2. PICK x, r, s, gr, rq : /\ x = l.xid /\ r = l.rsb /\ s = l.status /\ gr = l.grmode /\ rq = l.rqmode
                               /\ l = Lock(x, r, s, gr, rq)
    BY DEF KernelLock
  <1>3. Lock(x, r, s, gr, rq).id = <<x, r>> /\ Lock(x, r, s, gr, rq).home = Home[x]
    BY DEF Lock
  <1>4. l.id = <<x, r>> /\ l.home = Home[x]
    BY ONLY <1>2, <1>3, ZenonT(30)
  <1> QED BY <1>1, <1>2, <1>4, KnownFields

\* The locks H give way to the locks Q, one each at most.
LEMMA TableReplaced ==
    ASSUME NEW T, LockTable(T), NEW H \in SUBSET T, NEW Q \in SUBSET KernelLock,
           \A q \in Q : \E h \in H : q.id = h.id,
           \A q, p \in Q : q.id = p.id => q = p
    PROVE  LockTable((T \ H) \cup Q)
  <1>1. (T \ H) \cup Q \subseteq KernelLock
    BY DEF LockTable
  <1>2. ASSUME NEW a \in T \ H, NEW q \in Q
        PROVE  a.id # q.id
    BY DEF LockTable
  <1>3. \A a, b \in T : a.id = b.id => a = b
    BY DEF LockTable
  <1> QED BY <1>1, <1>2, <1>3 DEF LockTable

\* A lock that is granted, or whose conversion is given up
LEMMA GrantedFields ==
    ASSUME NEW l \in KernelLock, NEW mode \in Modes
    PROVE  /\ Lock(l.xid, l.rsb, GRANTED, mode, IV) \in KernelLock
           /\ Lock(l.xid, l.rsb, GRANTED, mode, IV).id = l.id
           /\ Lock(l.xid, l.rsb, GRANTED, mode, IV).home = l.home
  <1>1. l.xid \in Xids /\ l.rsb \in Rsbs /\ l.id = <<l.xid, l.rsb>> /\ l.home = Home[l.xid]
    BY KernelFields
  <1>2. GRANTED \in Status /\ GRANTED # UNSET /\ IV \in Modes
    BY ModesType, StatusType DEF GRANTED, UNSET
  <1>3. PICK x \in Xids, r \in Rsbs : x = l.xid /\ r = l.rsb
    BY <1>1
  <1>4. /\ Lock(x, r, GRANTED, mode, IV) \in KernelLock
        /\ Lock(x, r, GRANTED, mode, IV).id = <<x, r>>
        /\ Lock(x, r, GRANTED, mode, IV).home = Home[x]
    BY <1>2, LockIsKernel
  <1> QED BY ONLY <1>1, <1>3, <1>4, ZenonT(30)

LEMMA RequestKern ==
    ASSUME Types, Kern, NEW x \in Xids, NEW r \in Rsbs, Request(x, r)
    PROVE  Kern'
  <1>1. PICK q : q = IF Compatible(EX, r, x) THEN Lock(x, r, GRANTED, EX, IV) ELSE Lock(x, r, WAITING, IV, EX)
    OBVIOUS
  <1>2. /\ locks' = locks \cup {q} /\ Home[x] \in group /\ ~\E l \in Holds(x) : l.rsb = r
        /\ UNCHANGED <<group, master, gone>>
    BY <1>1 DEF Request, Operation
  <1>3. /\ GRANTED \in Status \ {UNSET} /\ WAITING \in Status \ {UNSET}
        /\ EX \in Modes /\ IV \in Modes
    BY ModesType, StatusType DEF GRANTED, UNSET, WAITING
  <1>4. q \in KernelLock /\ q.id = <<x, r>> /\ q.home = Home[x]
    <2>1. CASE q = Lock(x, r, GRANTED, EX, IV)
      BY <1>3, <2>1, LockIsKernel
    <2>2. CASE q = Lock(x, r, WAITING, IV, EX)
      BY <1>3, <2>2, LockIsKernel
    <2> QED BY <1>1, <2>1, <2>2
  <1>5. ASSUME NEW l \in locks
        PROVE  l.id # q.id
    <2>1. l.id = <<l.xid, l.rsb>>
      BY KernelFields DEF Kern, LockTable
    <2>2. l.xid # x \/ l.rsb # r
      BY <1>2 DEF Holds
    <2> QED BY <1>4, <2>1, <2>2, SMT
  <1>6. LockTable(locks')
    BY <1>2, <1>4, <1>5 DEF LockTable, Kern
  <1>7. \A l \in locks' : l.home \in group'
    BY <1>2, <1>4 DEF Kern
  <1> QED BY <1>2, <1>6, <1>7 DEF Kern

LEMMA GrantKern ==
    ASSUME Types, Kern, NEW l \in locks, Grant(l)
    PROVE  Kern'
  <1>1. PICK q : q = Lock(l.xid, l.rsb, GRANTED, l.rqmode, IV)
    OBVIOUS
  <1>2. locks' = (locks \ {l}) \cup {q} /\ UNCHANGED <<group, master, gone>>
    BY <1>1 DEF Grant, Operation
  <1>3. l \in KernelLock
    BY DEF Kern, LockTable
  <1>4. q \in KernelLock /\ q.id = l.id /\ q.home = l.home
    BY <1>1, <1>3, GrantedFields, KernelFields
  <1>5. LockTable(locks')
    <2>1. /\ LockTable(locks) /\ {l} \in SUBSET locks /\ {q} \in SUBSET KernelLock
          /\ \A a \in {q} : \E h \in {l} : a.id = h.id
          /\ \A a, b \in {q} : a.id = b.id => a = b
      BY <1>4 DEF Kern
    <2>2. LockTable((locks \ {l}) \cup {q})
      BY ONLY <2>1, TableReplaced, ZenonT(30)
    <2> QED BY <1>2, <2>2
  <1>6. \A a \in locks' : a.home \in group'
    BY <1>2, <1>4 DEF Kern
  <1> QED BY <1>2, <1>5, <1>6 DEF Kern

LEMMA CancelKern ==
    ASSUME Types, Kern, NEW n, NEW id, locks' = CancelLock(n, id), UNCHANGED <<group, master, gone>>
    PROVE  Kern'
  <1> DEFINE H == {l \in locks : l.id = id /\ l.home = n /\ l.status # GRANTED}
             G(l) == Lock(l.xid, l.rsb, GRANTED, l.grmode, IV)
             Q == {G(l) : l \in {h \in H : h.status = CONVERT}}
  <1>1. locks' = (locks \ H) \cup Q
    BY DEF CancelLock
  <1>2. ASSUME NEW l \in locks
        PROVE  G(l) \in KernelLock /\ G(l).id = l.id /\ G(l).home = l.home
    BY GrantedFields, KernelFields DEF Kern, LockTable
  <1>3. /\ LockTable(locks) /\ H \in SUBSET locks
        /\ \A a, b \in locks : a.id = b.id => a = b
    BY DEF Kern, LockTable
  <1>4. \A q \in Q : \E h \in H : q = G(h)
    OBVIOUS
  <1> HIDE DEF H, G, Q
  <1>5. /\ Q \in SUBSET KernelLock /\ (\A q \in Q : \E h \in H : q.id = h.id)
        /\ \A q \in Q : q.home \in group
    <2>1. ASSUME NEW q \in Q
          PROVE  q \in KernelLock /\ q.home \in group /\ \E h \in H : q.id = h.id
      <3>1. PICK h \in H : q = G(h)
        BY <1>4
      <3>2. h \in locks
        BY <1>3
      <3>3. h.home \in group
        BY <3>2 DEF Kern
      <3> QED BY <1>2, <3>1, <3>2, <3>3
    <2> QED BY <2>1
  <1>6. ASSUME NEW q \in Q, NEW p \in Q, q.id = p.id
        PROVE  q = p
    <2>1. PICK h \in H, k \in H : q = G(h) /\ p = G(k)
      BY <1>4
    <2>2. h.id = k.id
      BY <1>2, <1>3, <1>6, <2>1
    <2>3. h = k
      BY <1>3, <2>2
    <2> QED BY <2>1, <2>3
  <1>7. LockTable((locks \ H) \cup Q)
    BY <1>3, <1>5, <1>6, TableReplaced
  <1> QED BY <1>1, <1>5, <1>7 DEF Kern

LEMMA KernelExact ==
    ASSUME Types, Exact, Kernel
    PROVE  Exact'
  <1>1. Operation
    BY DEF Kernel, Request, Grant, End
  <1>2. Kern'
    <2>1. CASE \E x \in Xids, r \in Rsbs : Request(x, r)
      BY <2>1, RequestKern DEF Exact
    <2>2. CASE \E l \in locks : Grant(l)
      BY <2>2, GrantKern DEF Exact
    <2>3. CASE \E x \in Xids : End(x)
      <3>1. locks' \subseteq locks /\ UNCHANGED <<group, master, gone>>
        BY <2>3 DEF End, Operation
      <3> QED BY <3>1 DEF Exact, Kern, LockTable
    <2> QED BY <2>1, <2>2, <2>3 DEF Kernel
  <1>3. Hist' /\ \A k \in Cycles : Fewer(k)
    BY <1>1, OtherLocks DEF Exact, Operation
  <1>4. UNCHANGED <<dl, inbox, ckpt, group, master, gone, begun, missed, false, unread>>
    BY <1>1 DEF Operation, daemonVars
  <1> QED BY <1>2, <1>3, <1>4, ExactStays

-----------------------------------------------------------------------------
(* The steps that read no locks and look for no deadlock *)

LEMMA TailKeepsEnd ==
    ASSUME Types, NEW n \in group, inbox[n] # <<>>, inbox' = [inbox EXCEPT ![n] = Tail(@)],
           Head(inbox[n]).type = "end" => dl[n].transactions = {} /\ ~dl[n].running
    PROVE  \A m \in group : HasEnd(inbox[m]) =>
               HasEnd(inbox'[m]) \/ (dl[m].transactions = {} /\ ~dl[m].running)
  <1> SUFFICES ASSUME NEW m \in group, HasEnd(inbox[m])
               PROVE  HasEnd(inbox'[m]) \/ (dl[m].transactions = {} /\ ~dl[m].running)
    OBVIOUS
  <1>1. n \in Nodes /\ m \in Nodes /\ inbox[n] \in Seq(Message)
    BY DEF Types
  <1>2. inbox'[m] = IF m = n THEN Tail(inbox[n]) ELSE inbox[m]
    BY <1>1 DEF Types
  <1>3. CASE m = n /\ Head(inbox[n]).type # "end"
    <2>1. HasEnd(Tail(inbox[n])) <=> HasEnd(inbox[n])
      BY <1>1, <1>3, HasEndTail
    <2> QED BY <1>2, <1>3, <2>1
  <1> QED BY <1>2, <1>3

LEMMA IgnoredExact ==
    ASSUME Types, Common, Exact, NEW n \in Nodes, Ignored(n)
    PROVE  Exact'
  <1>1. /\ n \in group /\ inbox[n] # <<>> /\ Ignores(n, Head(inbox[n]))
        /\ inbox' = [inbox EXCEPT ![n] = Tail(@)]
        /\ UNCHANGED <<dl, ckpt, group, locks, master, gone, due, begun, quiet, missed, false, unread>>
    BY DEF Ignored, kernelVars, history
  <1>2. Head(inbox[n]).type = "end" => ~dl[n].running
    BY <1>1 DEF Ignores, Ends
  <1>3. ~dl[n].running => dl[n].transactions = {}
    BY <1>1, CommonClean DEF CleanBetweenCycles
  <1>4. Kern' /\ Hist' /\ \A k \in Cycles : Fewer(k)
    BY <1>1, SameKernel, SameHistory DEF Exact
  <1>5. \A m \in group : HasEnd(inbox[m]) =>
            HasEnd(inbox'[m]) \/ (dl[m].transactions = {} /\ ~dl[m].running)
    BY <1>1, <1>2, <1>3, TailKeepsEnd
  <1> QED BY <1>1, <1>4, <1>5, ExactStays

LEMMA CancelExact ==
    ASSUME Types, Exact, NEW n \in Nodes, ReceiveCancel(n)
    PROVE  Exact'
  <1>1. /\ n \in group /\ inbox[n] # <<>> /\ Head(inbox[n]).type = "cancel"
        /\ inbox' = [inbox EXCEPT ![n] = Tail(@)]
        /\ locks' = CancelLock(n, Head(inbox[n]).id)
        /\ due' = StillDue(locks') /\ quiet' = [k \in Cycles |-> FALSE]
        /\ UNCHANGED <<dl, ckpt, group, master, gone, begun, missed, false, unread>>
    BY DEF ReceiveCancel, Receives
  <1>2. Kern'
    BY <1>1, CancelKern DEF Exact
  <1>3. Hist' /\ \A k \in Cycles : Fewer(k)
    BY <1>1, OtherLocks DEF Exact
  <1>4. \A m \in group : HasEnd(inbox[m]) =>
            HasEnd(inbox'[m]) \/ (dl[m].transactions = {} /\ ~dl[m].running)
    BY <1>1, TailKeepsEnd
  <1> QED BY <1>1, <1>2, <1>3, <1>4, ExactStays

LEMMA SendExact ==
    ASSUME Types, Exact, NEW n \in Nodes, SendCycleStart(n)
    PROVE  Exact'
  <1> DEFINE out == <<[type |-> "start", no |-> starts + 1]>>
  <1>1. /\ inbox' = Multicast(inbox, out)
        /\ UNCHANGED <<dl, ckpt, group, locks, master, gone, due, begun, quiet, missed, false, unread>>
    BY DEF SendCycleStart, kernelVars, history
  <1>2. starts + 1 \in Cycles
    BY DeadlockAssumption, SMT DEF SendCycleStart, Types, Cycles
  <1>3. [type |-> "start", no |-> starts + 1] \in Message
    BY <1>2 DEF Message
  <1>4. out \in Seq(Message)
    BY <1>3, SMT
  <1> HIDE DEF out
  <1>5. \A m \in Nodes : inbox'[m] = IF m \in group THEN inbox[m] \o out ELSE inbox[m]
    BY <1>1, <1>4, MulticastForm DEF Types
  <1>6. ASSUME NEW m \in group
        PROVE  HasEnd(inbox[m]) => HasEnd(inbox'[m])
    <2>1. inbox[m] \in Seq(Message) /\ inbox'[m] = inbox[m] \o out
      BY <1>5 DEF Types
    <2> QED BY <1>4, <2>1, HasEndMore
  <1>7. Kern' /\ Hist' /\ \A k \in Cycles : Fewer(k)
    BY <1>1, SameKernel, SameHistory DEF Exact
  <1> QED BY <1>1, <1>6, <1>7, ExactStays

LEMMA JoinExact ==
    ASSUME Types, Common, Exact, NEW n \in Nodes, Join(n)
    PROVE  Exact'
  <1> DEFINE ev == Event(group \cup {n}, {n}, {})
  <1>1. /\ n \notin group \cup gone /\ group' = group \cup {n} /\ inbox' = Post(inbox, ev)
        /\ UNCHANGED <<dl, ckpt, locks, master, gone, due, begun, quiet, missed, false, unread>>
    BY DEF Join, kernelVars, history
  <1>2. ev \in Message /\ ev.members = group \cup {n}
    <2>1. group \cup {n} \in SUBSET Nodes /\ {n} \in SUBSET Nodes /\ {} \in SUBSET Nodes
      BY DEF Types
    <2> QED BY <2>1 DEF Event, Message
  <1> HIDE DEF ev
  <1>3. \A m \in Nodes : inbox'[m] = IF m \in ev.members THEN Append(inbox[m], ev) ELSE inbox[m]
    BY <1>1, <1>2, PostForm DEF Types
  <1>4. dl[n] = NewDaemon
    BY <1>1 DEF Common, Follow
  <1>5. dl[n].running = FALSE /\ dl[n].transactions = {}
    <2>1. NewDaemon.running = FALSE /\ NewDaemon.transactions = {}
      BY DEF NewDaemon
    <2> QED BY <1>4, <2>1
  <1>6. Kern'
    BY <1>1 DEF Exact, Kern
  <1>7. Hist' /\ \A k \in Cycles : Fewer(k)
    BY <1>1, SameHistory DEF Exact
  <1>8. ASSUME NEW m \in Nodes
        PROVE  Snapshot(m)' /\ (begun[m] # 0 => Fewer(begun[m]))
    <2>1. begun[m] # 0 => Fewer(begun[m])
      BY <1>7 DEF Types
    <2> QED BY <1>1, <2>1, SnapshotStays DEF Exact
  <1>9. ASSUME NEW m \in group
        PROVE  Gathered(m)'
    <2>1. m \in Nodes /\ inbox[m] \in Seq(Message) /\ inbox'[m] = Append(inbox[m], ev)
      BY <1>2, <1>3 DEF Types
    <2>2. HasEnd(inbox[m]) => HasEnd(inbox'[m])
      BY <1>2, <2>1, HasEndAppend
    <2> QED BY <1>1, <1>8, <2>1, <2>2, GatheredStays DEF Exact
  <1>10. Gathered(n)'
    BY <1>1, <1>5 DEF Gathered, Wrote
  <1> QED BY <1>1, <1>6, <1>7, <1>8, <1>9, <1>10 DEF Exact

=============================================================================
