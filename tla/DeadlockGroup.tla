---------------------------- MODULE DeadlockGroup ----------------------------
(***************************************************************************)
(* Deadlock detection in a cluster: the daemons of the nodes that have a   *)
(* lockspace, dlm-kernel's locks in it, and the checkpoint and group       *)
(* services between them.  Transactions go on requesting locks and ending  *)
(* while the daemons take their snapshots.                                 *)
(*                                                                         *)
(* dlm-kernel, the checkpoint service and CPG are modelled from the way    *)
(* deadlock.c uses them; CPG as in LockspaceGroup.  A transaction releases *)
(* its locks when it ends, which deadlock.c assumes.                       *)
(***************************************************************************)
EXTENDS DeadlockDaemon

CONSTANTS
    Nodes,     \* node ids
    Founders,  \* the nodes that have the lockspace at the start
    Rsbs,      \* resources
    Home,      \* Home[x]: the node of the transaction x
    Master,    \* Master[r]: the node that masters r at the start
    Tables,    \* the sets of locks that the kernel may have at the start
    JoinInCycle, \* may a node join while a cycle runs?
    MaxStarts, \* bound on cycle start messages
    MaxOps,    \* bound on lock operations and on failures to read debugfs
    MaxGone    \* bound on failures

Xids == DOMAIN Home

LockType == [id : Xids \X Rsbs, rsb : Rsbs, xid : Xids \cup {0}, home : Nodes,
             copy : {LOCAL_COPY, MASTER_COPY}, status : Status, grmode : Modes, rqmode : Modes]

\* dlm-kernel's locks: a transaction has at most one on a resource, which has a status.
Lock(x, r, status, gr, rq) ==
    [id |-> <<x, r>>, rsb |-> r, xid |-> x, home |-> Home[x], copy |-> LOCAL_COPY,
     status |-> status, grmode |-> gr, rqmode |-> rq]

KernelLock == {l \in LockType : /\ l.xid # 0 /\ l.status # UNSET
                                 /\ l = Lock(l.xid, l.rsb, l.status, l.grmode, l.rqmode)}

LockTable(T) == T \subseteq KernelLock /\ \A a, b \in T : a.id = b.id => a = b

ASSUME DeadlockAssumption ==
    /\ Nodes \subseteq Nat \ {0} /\ IsFiniteSet(Nodes)
    /\ Founders \subseteq Nodes
    /\ Xids \subseteq Nat \ {0} /\ IsFiniteSet(Xids) /\ \A x \in Xids : Home[x] \in Founders
    /\ Master \in [Rsbs -> Founders]
    /\ \A T \in Tables : LockTable(T)
    /\ JoinInCycle \in BOOLEAN
    /\ MaxStarts \in Nat /\ MaxOps \in Nat /\ MaxGone \in Nat

VARIABLES
    dl,      \* dl[n]: the daemon's state
    inbox,   \* inbox[n]: what CPG has yet to deliver to n
    group,   \* the nodes in the CPG group
    ckpt,    \* ckpt[n]: the checkpoint of n, {} if there is none
    locks,   \* the locks of the lockspace, as dlm-kernel has them
    master,  \* master[r]: the node that masters r
    starts,  \* number of cycle start messages so far
    ops,     \* number of lock operations so far
    gone,    \* nodes that have failed
    due,     \* due[k]: the locks that are as they were when the first node began the cycle of
             \* start message k, with the same master (history)
    begun,   \* begun[n]: the start message of n's latest cycle (history)
    quiet,   \* quiet[k]: no lock operation or failure since cycle k began (history)
    missed,  \* transactions deadlocked in due that a cycle did not find (history)
    false,   \* transactions that a quiet cycle found without need (history)
    unread   \* members that could not read debugfs in their latest cycle (history)

daemonVars == <<dl, inbox, ckpt>>
kernelVars == <<locks, master>>
history == <<due, begun, quiet, missed, false, unread>>
vars == <<daemonVars, group, kernelVars, starts, ops, gone, history>>

Cycles == 1 .. MaxStarts

\* The lockspace is up on the founders; s cycles, o lock operations and the failures of
\* the nodes g have been.
InitWith(tables, s, o, g) ==
        /\ dl = [n \in Nodes |-> IF n \in Founders THEN FirstConfchg(NewDaemon, [members |-> Founders])
                                 ELSE NewDaemon]
        /\ inbox = [n \in Nodes |-> <<>>]
        /\ group = Founders
        /\ ckpt = [n \in Nodes |-> {}]
        /\ locks \in tables
        /\ master = Master
        /\ starts = s /\ ops = o /\ gone = g
        /\ due = [k \in Cycles |-> {}]
        /\ begun = [n \in Nodes |-> 0]
        /\ quiet = [k \in Cycles |-> FALSE]
        /\ missed = {} /\ false = {} /\ unread = {}

Init == InitWith(Tables, 0, 0, {})

\* What is left of due when only the locks S last
StillDue(S) == [k \in Cycles |-> due[k] \cap S]

Multicast(box, out) == [n \in Nodes |-> IF n \in group THEN box[n] \o out ELSE box[n]]

-----------------------------------------------------------------------------
(* dlm-kernel *)

Blocked(x) == \E l \in locks : l.xid = x /\ l.status # GRANTED
Holds(x) == {l \in locks : l.xid = x}
Compatible(mode, r, x) ==
    \A l \in locks : l.rsb = r /\ l.xid # x => dlm_modes_compat(l.grmode, mode)

\* A lock operation; the cycles that run are not quiet any more.
Operation == /\ ops < MaxOps /\ ops' = ops + 1
             /\ due' = StillDue(locks') /\ quiet' = [k \in Cycles |-> FALSE]
             /\ UNCHANGED <<daemonVars, group, master, starts, gone, begun, missed, false, unread>>

\* A transaction requests an exclusive lock.
Request(x, r) ==
    /\ Home[x] \in group /\ ~Blocked(x)
    /\ ~\E l \in Holds(x) : l.rsb = r
    /\ locks' = locks \cup {IF Compatible(EX, r, x) THEN Lock(x, r, GRANTED, EX, IV)
                            ELSE Lock(x, r, WAITING, IV, EX)}
    /\ Operation

\* A lock that waits is granted.
Grant(l) ==
    /\ l.status # GRANTED /\ Compatible(l.rqmode, l.rsb, l.xid)
    /\ locks' = (locks \ {l}) \cup {Lock(l.xid, l.rsb, GRANTED, l.rqmode, IV)}
    /\ Operation

\* A transaction that waits for nothing ends and releases its locks.
End(x) ==
    /\ Holds(x) # {} /\ ~Blocked(x)
    /\ locks' = locks \ Holds(x)
    /\ Operation

\* dlm_ls_deadlock_cancel: a request is dropped, a conversion is given up.  An id that
\* the node does not know is an error.
CancelLock(n, id) ==
    LET hit == {l \in locks : l.id = id /\ l.home = n /\ l.status # GRANTED}
    IN  (locks \ hit) \cup {Lock(l.xid, l.rsb, GRANTED, l.grmode, IV) : l \in {h \in hit : h.status = CONVERT}}

-----------------------------------------------------------------------------
(* The daemons *)

\* send_cycle_start: a request of dlm_tool or a warning of dlm-kernel
SendCycleStart(n) ==
    /\ n \in group /\ dl[n].init /\ starts < MaxStarts
    /\ starts' = starts + 1
    /\ inbox' = Multicast(inbox, <<[type |-> "start", no |-> starts + 1]>>)
    /\ UNCHANGED <<dl, ckpt, group, kernelVars, ops, gone, history>>

Receives(n, type) == n \in group /\ inbox[n] # <<>> /\ Head(inbox[n]).type = type

\* n's handler leaves the daemon's state r.d and sends r.out; what find_deadlock found,
\* if it ran, is compared with what there was to find.
Finish(n, r) ==
    /\ dl' = [dl EXCEPT ![n] = r.d]
    /\ inbox' = Multicast([inbox EXCEPT ![n] = Tail(@)], r.out)
    /\ LET k == begun[n]
       IN  IF r.out = <<>> \/ k = 0 THEN UNCHANGED <<missed, false>>
           ELSE /\ missed' = missed \cup (Deadlocked(due[k]) \ r.found)
                /\ false' = IF quiet[k] THEN false \cup (r.found \ Deadlocked(due[k])) ELSE false
    /\ UNCHANGED <<ckpt, group, kernelVars, starts, ops, gone, due, begun, quiet, unread>>

\* n begins the cycle k; what there is to find in it is there when the first node begins it.
Notes(n, k) ==
    /\ begun' = [begun EXCEPT ![n] = k]
    /\ IF \E m \in Nodes : begun[m] = k THEN UNCHANGED <<due, quiet>>
       ELSE /\ due' = [due EXCEPT ![k] = locks]
            /\ quiet' = [quiet EXCEPT ![k] = TRUE]

CycleStart(n) ==
    /\ Receives(n, "start") /\ Starts(dl[n])
    /\ \E d \in {receive_cycle_start(n, dl[n], Debugfs(n, master, locks))} :
         /\ dl' = [dl EXCEPT ![n] = d]
         /\ ckpt' = [ckpt EXCEPT ![n] = d.lkbs]
    /\ inbox' = Multicast([inbox EXCEPT ![n] = Tail(@)], <<[type |-> "ready", from |-> n]>>)
    /\ Notes(n, Head(inbox[n]).no)
    /\ unread' = unread \ {n}
    /\ UNCHANGED <<group, kernelVars, starts, ops, gone, missed, false>>

CycleStartUnreadable(n) ==
    /\ ops < MaxOps /\ ops' = ops + 1
    /\ unread' = unread \cup {n}
    /\ Receives(n, "start") /\ Starts(dl[n])
    /\ dl' = [dl EXCEPT ![n] = receive_cycle_start_Unreadable(dl[n])]
    /\ inbox' = [inbox EXCEPT ![n] = Tail(@)]
    /\ Notes(n, Head(inbox[n]).no)
    /\ UNCHANGED <<ckpt, group, kernelVars, starts, gone, missed, false>>

CheckpointReady(n) ==
    /\ Receives(n, "ready")
    /\ \E r \in receive_checkpoint_ready(n, dl[n], Head(inbox[n]).from, ckpt[Head(inbox[n]).from]) :
         Finish(n, r)

CycleEnd(n) ==
    /\ Receives(n, "end") /\ Ends(dl[n])
    /\ dl' = [dl EXCEPT ![n] = receive_cycle_end(dl[n])]
    /\ ckpt' = [ckpt EXCEPT ![n] = {}]
    /\ inbox' = [inbox EXCEPT ![n] = Tail(@)]
    /\ UNCHANGED <<group, kernelVars, starts, ops, gone, history>>

Ignores(n, msg) == CASE msg.type = "start"  -> ~Starts(dl[n])
                     [] msg.type = "end"    -> ~Ends(dl[n])
                     [] msg.type = "cancel" -> ~Cancels(n, msg)
                     [] OTHER -> FALSE

Ignored(n) ==
    /\ n \in group /\ inbox[n] # <<>> /\ Ignores(n, Head(inbox[n]))
    /\ inbox' = [inbox EXCEPT ![n] = Tail(@)]
    /\ UNCHANGED <<dl, ckpt, group, kernelVars, starts, ops, gone, history>>

ReceiveCancel(n) ==
    /\ Receives(n, "cancel") /\ Cancels(n, Head(inbox[n]))
    /\ locks' = CancelLock(n, Head(inbox[n]).id)
    /\ inbox' = [inbox EXCEPT ![n] = Tail(@)]
    /\ due' = StillDue(locks')
    /\ quiet' = [k \in Cycles |-> FALSE]
    /\ UNCHANGED <<dl, ckpt, group, master, starts, ops, gone, begun, missed, false, unread>>

Confchg(n) ==
    /\ Receives(n, "confchg")
    /\ \E r \in deadlk_confchg(n, dl[n], Head(inbox[n])) : Finish(n, r)

-----------------------------------------------------------------------------
(* Membership *)

Event(members, joined, left) ==
    [type |-> "confchg", members |-> members, joined |-> joined, left |-> left]

Post(box, ev) == [n \in Nodes |-> IF n \in ev.members THEN Append(box[n], ev) ELSE box[n]]

Idle == \A n \in group : ~dl[n].running /\ inbox[n] = <<>>

Join(n) ==
    /\ n \notin group \cup gone
    /\ JoinInCycle \/ Idle
    /\ group' = group \cup {n}
    /\ inbox' = Post(inbox, Event(group \cup {n}, {n}, {}))
    /\ UNCHANGED <<dl, ckpt, kernelVars, starts, ops, gone, history>>

\* A node fails, or leaves.  Its locks are gone; others take over as masters.  What it
\* mastered may not have been in any checkpoint.
Depart(n) ==
    /\ n \in group /\ group # {n} /\ Cardinality(gone) < MaxGone
    /\ group' = group \ {n}
    /\ gone' = gone \cup {n}
    /\ dl' = [dl EXCEPT ![n] = NewDaemon]
    /\ inbox' = [Post(inbox, Event(group \ {n}, {}, {n})) EXCEPT ![n] = <<>>]
    /\ locks' = {l \in locks : l.home # n}
    /\ master' \in {m \in [Rsbs -> group \ {n}] : \A r \in Rsbs : master[r] # n => m[r] = master[r]}
    /\ due' = StillDue({l \in locks : l.home # n /\ master[l.rsb] # n})
    /\ quiet' = [k \in Cycles |-> FALSE]
    /\ unread' = unread \ {n}
    /\ UNCHANGED <<ckpt, starts, ops, begun, missed, false>>

Deliver(n) == \/ CycleStart(n) \/ CycleStartUnreadable(n) \/ CheckpointReady(n) \/ CycleEnd(n)
              \/ Ignored(n) \/ ReceiveCancel(n) \/ Confchg(n)

Kernel == \/ \E x \in Xids, r \in Rsbs : Request(x, r)
          \/ \E l \in locks : Grant(l)
          \/ \E x \in Xids : End(x)

Next == \/ \E n \in Nodes : SendCycleStart(n)
        \/ \E n \in Nodes : Deliver(n)
        \/ \E n \in Nodes : Join(n)
        \/ \E n \in Nodes : Depart(n)
        \/ Kernel

\* The daemons' loops take the events that CPG has for them.  (That some daemon goes on is
\* enough: no daemon can keep the others from it, as deliveries run out.)
Fairness == WF_vars(\E n \in Nodes : Deliver(n))

Spec == Init /\ [][Next]_vars /\ Fairness

-----------------------------------------------------------------------------
Message == [type : {"ready"}, from : Nodes] \cup [type : {"end"}] \cup [type : {"start"}, no : Cycles]
             \cup [type : {"cancel"}, from : Nodes, to : Nodes, id : Xids \X Rsbs]
             \cup [type : {"confchg"}, members : SUBSET Nodes, joined : SUBSET Nodes, left : SUBSET Nodes]

DaemonType == [init : BOOLEAN, nodes : SUBSET Nodes, in_cycle : SUBSET Nodes, ready : SUBSET Nodes,
               running : BOOLEAN, all_ready : BOOLEAN, low : Nodes \cup {NoNode},
               lkbs : SUBSET LockType, transactions : SUBSET (Xids \cup {0})]

\* The state has its types; the flags of a node are kept only while it is on the list.
TypeOK ==
    /\ \A n \in Nodes :
         /\ dl[n].lkbs \subseteq LockType
         /\ [dl[n] EXCEPT !.lkbs = {}] \in DaemonType
         /\ dl[n].in_cycle \cup dl[n].ready \subseteq dl[n].nodes
         /\ \A i \in DOMAIN inbox[n] : inbox[n][i] \in Message
         /\ ckpt[n] \subseteq LockType
    /\ locks \subseteq LockType /\ master \in [Rsbs -> Nodes]

\* The node that looks for deadlocks sees all there are: transactions that were
\* deadlocked when the first node began the cycle are found, if the locks they are
\* deadlocked on are still as they were and have the same masters, whatever the other
\* transactions do while the nodes read their locks, and whichever node fails.
NoDeadlockMissed == missed = {}

\* When no lock has changed and no node has failed since the first node began the cycle,
\* then what the cycle finds is deadlocked.
NoFalseDeadlock == false = {}

\* Between cycles a node keeps nothing that the next one would take for fresh:
\* no locks, no checkpoint_ready flags and no transactions.
CleanBetweenCycles ==
    \A n \in group : ~dl[n].running =>
        dl[n].lkbs = {} /\ dl[n].ready = {} /\ dl[n].transactions = {} /\ ~dl[n].all_ready

\* A cycle is ended once, by one node: a cycle_end always finds the cycle running.
EndsOnce == \A n \in group : Receives(n, "end") => dl[n].running

\* Every cycle ends, on every node that stays, unless a node that stays could not read
\* its locks.
CycleEnds ==
    (\E n \in Nodes : dl[n].running) ~> (unread # {} \/ \A n \in Nodes : ~dl[n].running)
=============================================================================
