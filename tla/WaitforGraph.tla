---------------------------- MODULE WaitforGraph ----------------------------
(***************************************************************************)
(* The part of deadlock.c that looks for deadlocks in a set of locks: the  *)
(* transactions that own them, the graph of who waits for whom, and its    *)
(* reduction.  A lock (struct dlm_lkb with its pack_lock) is a record      *)
(*   id      names the lock: its ids on the node that masters its resource *)
(*           and on its home                                               *)
(*   rsb     the resource          xid   its transaction, 0 if not known   *)
(*   home    the node of its owner copy  LOCAL_COPY or MASTER_COPY         *)
(*   status, grmode, rqmode                                                *)
(* The lists of the code are sets: their order is that of a debugfs file.  *)
(***************************************************************************)
EXTENDS Integers, FiniteSets

LOCAL_COPY == "local"
MASTER_COPY == "master"

\* DLM_LKSTS_...; a lock of which only the process copy has been read has status 0
UNSET == "0"
WAITING == "W"
GRANTED == "G"
CONVERT == "C"
Status == {UNSET, WAITING, GRANTED, CONVERT}

IV == -1
NL == 0
PR == 3
EX == 5
Modes == -1 .. 6

\* The rows and columns are UN NL CR CW PR PW EX PD.
dlm_compat_matrix ==
    << <<1, 1, 1, 1, 1, 1, 1, 0>>,
       <<1, 1, 1, 1, 1, 1, 1, 0>>,
       <<1, 1, 1, 1, 1, 1, 0, 0>>,
       <<1, 1, 1, 1, 0, 0, 0, 0>>,
       <<1, 1, 1, 0, 1, 0, 0, 0>>,
       <<1, 1, 1, 0, 0, 0, 0, 0>>,
       <<1, 1, 0, 0, 0, 0, 0, 0>>,
       <<0, 0, 0, 0, 0, 0, 0, 0>> >>

dlm_modes_compat(mode1, mode2) == dlm_compat_matrix[mode1 + 2][mode2 + 2] = 1

-----------------------------------------------------------------------------
(* Building the graph *)

\* create_trans_list
Transactions(lkbs) == {lkb.xid : lkb \in lkbs}

\* The locks that create_waitfor_graph takes as waiting and as granted
WaitingLocks(lkbs, xid) == {lkb \in lkbs : lkb.xid = xid /\ lkb.status # GRANTED}
GrantedLocks(lkbs, rsb) == {lkb \in lkbs : lkb.rsb = rsb /\ lkb.status # WAITING}

locks_compat(waiting, granted) ==
    /\ waiting.xid # granted.xid
    /\ dlm_modes_compat(granted.grmode, waiting.rqmode)

\* Mutant: the requests that wait block each other, too.
Blockers_Queue(lkbs, waiting) ==
    {lkb.xid : lkb \in {l \in lkbs : /\ l.rsb = waiting.rsb /\ l.xid # waiting.xid
                                     /\ \E mode \in {l.grmode, l.rqmode} : ~dlm_modes_compat(mode, waiting.rqmode)}}

\* add_waitfor: the transactions for which the lock waiting makes its own one wait
Blockers(lkbs, waiting) ==
    {granted.xid : granted \in {lkb \in GrantedLocks(lkbs, waiting.rsb) :
                                    /\ ~locks_compat(waiting, lkb)
                                    /\ lkb.xid # waiting.xid}}

\* A graph: the transactions left, whom each of them waits for, and
\* others_waiting_on_us.
create_waitfor_graph(lkbs) ==
    LET trans == Transactions(lkbs)
        waitfor(x) == UNION {Blockers(lkbs, w) : w \in WaitingLocks(lkbs, x)}
    IN  [trans |-> trans,
         waitfor |-> [x \in trans |-> waitfor(x)],
         others |-> [y \in trans |-> Cardinality({x \in trans : y \in waitfor(x)})]]

-----------------------------------------------------------------------------
(* Reducing it *)

\* One pass, when the transactions left are S: remove_trans takes those that wait for
\* nobody off the list and out of the others' waitfor.  They waited for nobody, so the
\* counts of the others stay.  (In one pass the code also removes those that a removal
\* before them in the list has unblocked; here that takes another pass.)
reduce_waitfor_graph(g, S) == {x \in S : g.waitfor[x] \cap S # {}}

Left(g, S) == [trans |-> S,
               waitfor |-> [x \in S |-> g.waitfor[x] \cap S],
               others |-> [x \in S |-> g.others[x]]]

\* Passes until nothing is removed
reduce_waitfor_graph_loop(g) ==
    LET loop[S \in SUBSET g.trans] ==
            IF reduce_waitfor_graph(g, S) = S THEN S ELSE loop[reduce_waitfor_graph(g, S)]
    IN  Left(g, loop[g.trans])

-----------------------------------------------------------------------------
(* Cancelling a transaction *)

\* find_trans_to_cancel takes the first of these in the list.
Cancellable(g) == {x \in g.trans : g.others[x] > 0}

\* waitfor_trans of the waiting locks of x: a lock that made x wait for several
\* transactions remembers only the last one, and it is the first lock, in the order
\* of the list, that makes x wait for a transaction.  The orders are enumerated as
\* rankings.
Rankings(S) == {rank \in [S -> 1 .. Cardinality(S)] : \A a, b \in S : rank[a] = rank[b] => a = b}

Added(lkbs, waiting, rank) ==
    Blockers(lkbs, waiting) \ UNION {Blockers(lkbs, w) : w \in {v \in DOMAIN rank : rank[v] < rank[waiting]}}

Remembered(lkbs, x) ==
    UNION {{{last[w] : w \in DOMAIN last} :
                last \in {f \in [{w \in DOMAIN rank : Added(lkbs, w, rank) # {}} -> Transactions(lkbs)] :
                             \A w \in DOMAIN f : f[w] \in Added(lkbs, w, rank)}}
           : rank \in Rankings(WaitingLocks(lkbs, x))}

\* cancel_trans for the transaction x, with its remembered ones; the pass at its
\* end, and the loop that find_deadlock runs next
cancel_trans(g, x, remembered) ==
    LET gone == g.waitfor[x] \cap remembered
    IN  reduce_waitfor_graph_loop(
            [g EXCEPT !.waitfor[x] = @ \ remembered,
                      !.others = [y \in g.trans |-> IF y \in gone THEN @[y] - 1 ELSE @[y]]])

-----------------------------------------------------------------------------
(* What a deadlock is *)

\* Every transaction of K waits for one of K.
Knot(g, K) == K \subseteq g.trans /\ \A x \in K : g.waitfor[x] \cap K # {}

\* In dlm-kernel's locks x has a request that a lock of y is in the way of.
WaitsFor(lkbs, x, y) ==
    \E w, h \in lkbs : /\ w.xid = x /\ h.xid = y /\ x # y /\ w.rsb = h.rsb
                       /\ w.status \in {WAITING, CONVERT} /\ h.status \in {GRANTED, CONVERT}
                       /\ ~dlm_modes_compat(h.grmode, w.rqmode)

\* The transactions of which each waits for another one, for ever
Deadlocked(lkbs) ==
    UNION {{x \in g.trans : \E K \in SUBSET g.trans : x \in K /\ Knot(g, K)}
              : g \in {[trans |-> Transactions(lkbs),
                        waitfor |-> [x \in Transactions(lkbs) |->
                                        {y \in Transactions(lkbs) : WaitsFor(lkbs, x, y)}]]}}
=============================================================================
