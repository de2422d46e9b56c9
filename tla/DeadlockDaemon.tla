--------------------------- MODULE DeadlockDaemon ---------------------------
(***************************************************************************)
(* The deadlock detection of one dlm_controld, for one lockspace: the      *)
(* functions of deadlock.c that change struct lockspace, as operators from *)
(* the record d to a record.  Its fields are those of the code:            *)
(*   init         deadlk_confchg_init                                      *)
(*   nodes        deadlk_nodes, with in_cycle and ready (checkpoint_ready) *)
(*                as the sets of the nodes that have the flag              *)
(*   running      cycle_running        all_ready  all_checkpoints_ready    *)
(*   low          deadlk_low_nodeid                                        *)
(*   lkbs         the locks on resources                                   *)
(*   transactions what is left on the list of transactions                 *)
(***************************************************************************)
EXTENDS WaitforGraph, Sequences

NoNode == -1

NewDaemon == [init |-> FALSE, nodes |-> {}, in_cycle |-> {}, ready |-> {},
              running |-> FALSE, all_ready |-> FALSE, low |-> NoNode,
              lkbs |-> {}, transactions |-> {}]

-----------------------------------------------------------------------------
(* Locks read from debugfs and from checkpoints *)

\* get_lkb: a local copy is always a new lock; a master copy may have been read before
get_lkb(lkbs, lock) ==
    {lkb \in lkbs : lock.copy = MASTER_COPY /\ lkb.copy = MASTER_COPY /\ lkb.id = lock.id}

\* A process copy, which set_copy turned into a partial master copy, has the xid; the
\* real master copy has the rest.
partial_master_copy(lock) == lock.xid # 0

\* add_lock: the lock that stands for lock afterwards
Merge(old, lock) ==
    IF partial_master_copy(lock) THEN [old EXCEPT !.xid = lock.xid] ELSE [lock EXCEPT !.xid = old.xid]

add_lock(lkbs, lock) ==
    IF get_lkb(lkbs, lock) = {} THEN {lock} ELSE {Merge(old, lock) : old \in get_lkb(lkbs, lock)}

\* read_debugfs_locks, read_checkpoint_locks: the locks of one node
AddLocks(lkbs, new) ==
    (lkbs \ UNION {get_lkb(lkbs, lock) : lock \in new}) \cup UNION {add_lock(lkbs, lock) : lock \in new}

\* set_copy: what the debugfs file of node n, the master of some resources, says
\* about a lock of the cluster.  The fields of a process copy that add_lock ignores
\* are left unset.
Masters(n, master, lock) == master[lock.rsb] = n

set_copy(n, master, lock) ==
    IF lock.home = n /\ Masters(n, master, lock) THEN [lock EXCEPT !.copy = LOCAL_COPY]
    ELSE IF Masters(n, master, lock) THEN [lock EXCEPT !.copy = MASTER_COPY, !.xid = 0]
    ELSE [lock EXCEPT !.copy = MASTER_COPY, !.status = UNSET, !.grmode = NL, !.rqmode = NL]

Debugfs(n, master, locks) ==
    {set_copy(n, master, lock) : lock \in {l \in locks : l.home = n \/ Masters(n, master, l)}}

-----------------------------------------------------------------------------
(* Cycles *)

\* The sender of a cycle_start and of a cycle_end is only logged.
CycleEndMsg == [type |-> "end"]

send_cancel_lock(n, lkb) == [type |-> "cancel", from |-> n, to |-> lkb.home, id |-> lkb.id]

\* find_deadlock: the possible results, each with the messages sent and the
\* transactions that were found to be deadlocked.  Which of them is cancelled, and
\* in which order its locks are, depends on the order of the lists.
NothingFound(d) == {[d |-> d, out |-> <<CycleEndMsg>>, found |-> {}]}

CancelMessages(n, d, x) ==
    LET msgs == {send_cancel_lock(n, lkb) : lkb \in WaitingLocks(d.lkbs, x)}
    IN  UNION {{out \in [1 .. k -> msgs] : \A m \in msgs : \E i \in 1 .. k : out[i] = m}
                  : k \in 0 .. Cardinality(msgs)}

Cancelled(n, d, g) ==
    UNION {{[d |-> [d EXCEPT !.transactions = cancel_trans(g, x, rem).trans],
             out |-> cancels \o <<CycleEndMsg>>,
             found |-> g.trans] : rem \in Remembered(d.lkbs, x), cancels \in CancelMessages(n, d, x)}
           : x \in Cancellable(g)}

find_deadlock(n, d) ==
    IF d.lkbs = {} \/ d.transactions # {} THEN NothingFound(d)
    ELSE UNION {IF g.trans = {} THEN NothingFound(d) ELSE Cancelled(n, d, g)
                   : g \in {reduce_waitfor_graph_loop(h) : h \in {create_waitfor_graph(d.lkbs)}}}

\* run_deadlock: the node with the lowest id looks for deadlocks when it has the
\* checkpoints of all the nodes in the cycle.
Lowest(S) ==
    LET low == {n \in S : \A m \in S : n <= m}
    IN  IF low = {} THEN NoNode ELSE CHOOSE n \in low : TRUE

Quiet(d) == {[d |-> d, out |-> <<>>, found |-> {}]}

\* Mutant: our own checkpoint is all we wait for.
run_deadlock_Early(n, d) ==
    IF n \notin d.ready THEN Quiet(d)
    ELSE IF Lowest(d.nodes \cap d.in_cycle) = n
         THEN find_deadlock(n, [d EXCEPT !.all_ready = TRUE, !.low = n])
         ELSE Quiet([d EXCEPT !.all_ready = TRUE, !.low = Lowest(d.nodes \cap d.in_cycle)])

\* Mutant: every node looks for deadlocks, not only the lowest one.
run_deadlock_Each(n, d) ==
    IF ~(d.nodes \cap d.in_cycle \subseteq d.ready) THEN Quiet(d)
    ELSE find_deadlock(n, [d EXCEPT !.all_ready = TRUE, !.low = Lowest(d.nodes \cap d.in_cycle)])

run_deadlock(n, d) ==
    LET cycle == d.nodes \cap d.in_cycle
        ready == [d EXCEPT !.all_ready = TRUE, !.low = Lowest(cycle)]
    IN  IF ~(cycle \subseteq d.ready) THEN Quiet(d)
        ELSE IF Lowest(cycle) = n THEN find_deadlock(n, ready) ELSE Quiet(ready)

\* What add_lock takes of a lock in the checkpoint of from: a local copy is a lock of from,
\* a master copy that has an xid counts as a partial one.
Taken(lock, from) ==
    IF lock.copy = LOCAL_COPY THEN [lock EXCEPT !.home = from]
    ELSE IF partial_master_copy(lock) THEN [lock EXCEPT !.status = UNSET, !.grmode = NL, !.rqmode = NL]
    ELSE lock

\* read_checkpoint: our own locks have been read from debugfs
read_checkpoint(n, d, from, ckpt) ==
    IF from = n THEN d.lkbs ELSE AddLocks(d.lkbs, {Taken(lock, from) : lock \in ckpt})

receive_checkpoint_ready(n, d, from, ckpt) ==
    UNION {run_deadlock(n, e) : e \in {[d EXCEPT !.lkbs = read_checkpoint(n, d, from, ckpt),
                                                 !.ready = @ \cup ({from} \cap d.nodes)]}}

\* receive_cycle_start: locks is what debugfs has; the checkpoint is what d.lkbs is
\* afterwards
Starts(d) == ~d.running

receive_cycle_start(n, d, locks) ==
    [d EXCEPT !.running = TRUE, !.in_cycle = d.nodes, !.lkbs = AddLocks(@, locks)]

\* debugfs cannot be read: the cycle runs, but no checkpoint is written
receive_cycle_start_Unreadable(d) == [d EXCEPT !.running = TRUE, !.in_cycle = d.nodes]

Ends(d) == d.running

\* Mutant: the locks are kept.
receive_cycle_end_NoFree(d) ==
    [d EXCEPT !.running = FALSE, !.all_ready = FALSE, !.ready = {}, !.transactions = {}]

receive_cycle_end(d) ==
    [d EXCEPT !.running = FALSE, !.all_ready = FALSE, !.ready = {}, !.lkbs = {}, !.transactions = {}]

\* receive_cancel_lock: the lock is cancelled by the node that sent the message.
Cancels(n, msg) == msg.from = n

-----------------------------------------------------------------------------
(* Membership *)

purge_locks(d, left) == [d EXCEPT !.lkbs = {lkb \in @ : lkb.home \notin left}]

FirstConfchg(d, ev) == [d EXCEPT !.init = TRUE, !.nodes = ev.members]

\* Mutant: the flags of a node that left are kept for when it returns.
UpdateNodes_KeepFlags(d, ev) == [d EXCEPT !.nodes = (@ \cup ev.joined) \ ev.left]

\* node_joined and node_left: a struct node that goes takes its flags along
UpdateNodes(d, ev) ==
    [d EXCEPT !.nodes = (@ \cup ev.joined) \ ev.left,
              !.in_cycle = @ \ ev.left, !.ready = @ \ ev.left]

\* Mutant: nobody takes over from the node with the lowest id.
LeftDuringCycle_NoTakeover(n, d, left) ==
    IF ~d.all_ready THEN run_deadlock(n, d) ELSE Quiet(purge_locks(d, left))

LeftDuringCycle(n, d, left) ==
    IF ~d.all_ready THEN run_deadlock(n, d)
    ELSE IF d.low \in left THEN run_deadlock(n, purge_locks(d, left))
    ELSE Quiet(purge_locks(d, left))

deadlk_confchg(n, d, ev) ==
    IF ~d.init THEN Quiet(FirstConfchg(d, ev))
    ELSE IF ~d.running \/ ev.left = {} THEN Quiet(UpdateNodes(d, ev))
    ELSE UNION {LeftDuringCycle(n, e, ev.left) : e \in {UpdateNodes(d, ev)}}
=============================================================================
