--------------------------- MODULE LockspaceGroup ---------------------------
(***************************************************************************)
(* The dlm_controld daemons of a cluster and one lockspace.  Each daemon   *)
(* applies the functions of cpg.c (module Changes) to the stream of        *)
(* confchgs and messages its CPG handle delivers, and to the timeouts of   *)
(* its poll loop.                                                          *)
(*                                                                         *)
(* CPG, fenced, the quorum service, fs_controld and dlm-kernel are not in  *)
(* the repository; they are modelled from the way the code uses them.  CPG *)
(* gives the members of a group one totally ordered stream, kept here as   *)
(* one queue per node: a multicast goes to the tail of the queue of every  *)
(* node that is in the sender's part of the group at that moment, and the  *)
(* nodes take events from the heads of their queues at their own pace.     *)
(***************************************************************************)
EXTENDS Changes

CONSTANTS
    Allowed,    \* what the environment may do, see EnvAssumption
    MaxViews,   \* bound on the number of confchgs
    MaxTime,    \* bound on the clock
    FsRegister  \* TRUE: a cluster fs is registered for the lockspace

\* rejoin: a node joins again after it left or failed.  loss: a partition loses messages in
\* flight.  fenced_error: queries to fenced may fail.
ASSUME EnvAssumption ==
    /\ Allowed \subseteq {"leave", "crash", "rejoin", "partition", "loss", "fenced_error"}
    /\ MaxViews \in Nat /\ MaxTime \in Nat
    /\ FsRegister \in BOOLEAN

VARIABLES
    lsp,        \* lsp[n]: the lockspace on node n
    poll,       \* poll[n]: poll_fencing, poll_quorum, poll_fs of n's daemon
    inbox,      \* inbox[n]: confchgs and messages CPG has yet to deliver to n
    cpg,        \* nodes in the CPG group
    down,       \* nodes that crashed and have not come back
    away,       \* nodes on the losing side of a network partition
    cluster,    \* cluster[n]: quorum_nodes as n's quorum callback saw them
    now,        \* clock, in the unit of time()
    victims,    \* failed nodes fenced has yet to fence
    fence_time, \* fence_time[n]: when fenced last fenced n, 0 for never
    past,       \* nodes that have joined so far (history)
    view,       \* number of confchgs so far (history)
    divorced    \* <<n, m>>: a split parted n from m, whose lockspace had been
                \* started, and neither has been reset since (history)

vars == <<lsp, poll, inbox, cpg, down, away, cluster, now, victims, fence_time, past, view,
          divorced>>
fencedVars == <<victims, fence_time>>
history == <<past, view, divorced>>

Init == /\ lsp = [n \in Nodes |-> NoLockspace]
        /\ poll = [n \in Nodes |-> NoPoll]
        /\ inbox = [n \in Nodes |-> <<>>]
        /\ cpg = {} /\ down = {} /\ away = {}
        /\ cluster = [n \in Nodes |-> Nodes]
        /\ now = 1
        /\ victims = {} /\ fence_time = [n \in Nodes |-> 0]
        /\ past = {} /\ view = 0 /\ divorced = {}

-----------------------------------------------------------------------------
(* The environment of a daemon *)

\* The cluster nodes n can talk to, and those of them in the CPG group.
SameSide(n) == {m \in Nodes \ down : (m \in away) = (n \in away)}
Group(n) == cpg \cap SameSide(n)

\* cluster_quorate, set by the quorum callback with the node list
Quorate(n) == 2 * Cardinality(cluster[n]) > Cardinality(Nodes)

\* fence_node_time: when the query fails the caller goes on with an uninitialized
\* value, here a late one.
FenceTimes == IF "fenced_error" \in Allowed
              THEN {fence_time, [m \in Nodes |-> MaxTime + 1]} ELSE {fence_time}

\* fence_in_progress: the local fenced may not know of all the victims yet; a
\* failed query counts as fencing in progress.
InProgress == IF victims = {} /\ "fenced_error" \notin Allowed THEN {FALSE} ELSE BOOLEAN

Envs(n) == {[now |-> now, fence_time |-> time, in_progress |-> busy,
             cluster |-> cluster[n], quorate |-> Quorate(n)]
               : time \in FenceTimes, busy \in InProgress}

Event(members, joined, left, failed) ==
    [type |-> "confchg", members |-> members, joined |-> joined,
     left |-> left, failed |-> failed, view |-> view + 1]

\* A place in a queue whose message was lost.
Gap == [type |-> "gap"]

\* CPG delivers a confchg to its members, and to a node that left by itself.
Post(box, cc, extra) ==
    [m \in Nodes |-> IF m \in cc.members \cup extra THEN Append(box[m], cc) ELSE box[m]]

\* cpg_mcast_joined: fails, and the message is lost, when n has left the group
Multicast(box, n, out) ==
    [m \in Nodes |-> IF n \in cpg /\ m \in Group(n) THEN box[m] \o out ELSE box[m]]

\* fenced has to fence the failed nodes S.
FencedFail(S) == victims' = IF EnableFencing THEN victims \cup S ELSE victims

\* n's lockspace is gone, and with it what it had to be kept apart from.
Reset(n) == divorced' = {p \in divorced : n \notin {p[1], p[2]}}

-----------------------------------------------------------------------------
(* Lockspaces come and go: uevents of dlm-kernel *)

\* "online": a node that failed comes back once fenced has dealt with it
Join(n) ==
    /\ ~lsp[n].present /\ n \notin away \cup victims
    /\ n \in past => "rejoin" \in Allowed
    /\ view < MaxViews
    /\ lsp' = [lsp EXCEPT ![n] = dlm_join_lockspace(FsRegister)]
    /\ cpg' = cpg \cup {n}
    /\ down' = down \ {n} /\ past' = past \cup {n}
    /\ view' = view + 1
    /\ inbox' = Post(inbox, Event((cpg \ away) \cup {n}, {n}, {}, {}), {n})
    /\ UNCHANGED <<poll, away, cluster, now, fencedVars, divorced>>

\* "offline": dlm-kernel sends it only after its "online" was answered
Leave(n) ==
    /\ "leave" \in Allowed
    /\ lsp[n].present /\ ~lsp[n].joining /\ ~lsp[n].leaving
    /\ view < MaxViews
    /\ lsp' = [lsp EXCEPT ![n].leaving = TRUE]
    /\ cpg' = cpg \ {n}
    /\ view' = view + 1
    /\ inbox' = Post(inbox, Event(Group(n) \ {n}, {}, {n}, {}), {n})
    /\ UNCHANGED <<poll, down, away, cluster, now, fencedVars, past, divorced>>

-----------------------------------------------------------------------------
(* The daemon: CPG callbacks and the poll loop *)

\* apply_changes on n with the lockspace ls; rest is what stays in n's queue.
ApplyChanges(n, ls, rest) ==
    \E r \in {apply_changes(n, ls, poll[n], env) : env \in Envs(n)} :
        /\ lsp' = [lsp EXCEPT ![n] = r.ls]
        /\ poll' = [poll EXCEPT ![n] = r.poll]
        /\ inbox' = Multicast([inbox EXCEPT ![n] = rest], n, r.out)
        /\ UNCHANGED <<cpg, down, away, cluster, now, fencedVars, history>>

OurLeave(n, ev) == lsp[n].leaving /\ n \in ev.left

DeliverConfchg(n) ==
    /\ inbox[n] # <<>> /\ Head(inbox[n]).type = "confchg"
    /\ ~OurLeave(n, Head(inbox[n]))
    /\ \E ls \in {confchg_cb(n, lsp[n], Head(inbox[n]))} : ApplyChanges(n, ls, Tail(inbox[n]))

\* The confchg for our own leave frees the lockspace.
DeliverLeave(n) ==
    /\ inbox[n] # <<>> /\ Head(inbox[n]).type = "confchg"
    /\ OurLeave(n, Head(inbox[n]))
    /\ lsp' = [lsp EXCEPT ![n] = NoLockspace]
    /\ inbox' = [inbox EXCEPT ![n] = <<>>]
    /\ Reset(n)
    /\ UNCHANGED <<poll, cpg, down, away, cluster, now, fencedVars, past, view>>

DeliverMessage(n) ==
    /\ inbox[n] # <<>> /\ Head(inbox[n]).type \in {"start", "stored"}
    /\ \E ls \in {deliver_cb(n, lsp[n], Head(inbox[n]), now)} :
         ApplyChanges(n, ls, Tail(inbox[n]))

\* CPG goes on after a lost message
SkipGap(n) ==
    /\ inbox[n] # <<>> /\ Head(inbox[n]).type = "gap"
    /\ inbox' = [inbox EXCEPT ![n] = Tail(@)]
    /\ UNCHANGED <<lsp, poll, cpg, down, away, cluster, now, fencedVars, history>>

\* process_lockspace_changes in an iteration of loop()
ProcessLockspaceChanges(n) ==
    /\ poll[n] # NoPoll
    /\ lsp[n].present /\ lsp[n].changes # <<>>
    /\ ApplyChanges(n, lsp[n], inbox[n])

\* DLMC_CMD_FS_NOTIFIED from fs_controld; no call of apply_changes
FsNotified(n, m) ==
    /\ lsp[n].present /\ m \in lsp[n].check_fs
    /\ lsp' = [lsp EXCEPT ![n] = set_fs_notified(@, m)]
    /\ UNCHANGED <<poll, inbox, cpg, down, away, cluster, now, fencedVars, history>>

\* quorum_callback: the new list of cluster members
QuorumCallback(n) ==
    /\ EnableQuorum
    /\ cluster[n] # SameSide(n)
    /\ cluster' = [cluster EXCEPT ![n] = SameSide(n)]
    /\ UNCHANGED <<lsp, poll, inbox, cpg, down, away, now, fencedVars, history>>

-----------------------------------------------------------------------------
(* Failures *)

\* Node n stops: its daemon and kernel state are gone, and the rest of its
\* part of the group sees it fail.
Stop(n) ==
    /\ n \in cpg => view < MaxViews
    /\ lsp' = [lsp EXCEPT ![n] = NoLockspace]
    /\ poll' = [poll EXCEPT ![n] = NoPoll]
    /\ cpg' = cpg \ {n} /\ down' = down \cup {n}
    /\ Reset(n)
    /\ view' = IF n \in cpg THEN view + 1 ELSE view
    /\ inbox' = LET box == [inbox EXCEPT ![n] = <<>>]
                IN  IF n \in cpg
                    THEN Post(box, Event(Group(n) \ {n}, {}, {n}, {n}), {}) ELSE box

Crash(n) ==
    /\ "crash" \in Allowed
    /\ lsp[n].present
    /\ Stop(n)
    /\ FencedFail({n})
    /\ UNCHANGED <<away, cluster, now, fence_time, past>>

\* Messages from the other side that no node of a side has seen when the
\* network splits may never reach that side; they leave a gap in its queues.
Lose(box, side, lost) ==
    LET Dropped(ev) == /\ lost /\ ev.type \in {"start", "stored"} /\ ev.from \notin side
                       /\ \A m \in side : \E i \in DOMAIN box[m] : box[m][i] = ev
    IN  [m \in Nodes |->
            [i \in 1 .. Len(box[m]) |->
                IF m \in side /\ Dropped(box[m][i]) THEN Gap ELSE box[m][i]]]

\* The network splits; the nodes in S are on the side that will be fenced, the
\* one without quorum where there is quorum.
Partition(S) ==
    /\ "partition" \in Allowed
    /\ away = {} /\ view + 1 < MaxViews
    /\ cpg \cap S # {} /\ cpg \ S # {}
    /\ EnableQuorum => 2 * Cardinality(Nodes \ S) > Cardinality(Nodes)
    /\ away' = S
    /\ view' = view + 2
    /\ divorced' = divorced \cup
         {p \in (cpg \X cpg) : (p[1] \in S) # (p[2] \in S) /\ lsp[p[2]].started_count # 0}
    /\ \E lostStay, lostAway \in {FALSE, "loss" \in Allowed} :
         LET box == Lose(Lose(inbox, cpg \ S, lostStay), cpg \cap S, lostAway)
             ev  == Event(cpg \cap S, {}, cpg \ S, cpg \ S)
         IN  inbox' = Post(Post(box, Event(cpg \ S, {}, cpg \cap S, cpg \cap S), {}),
                           [ev EXCEPT !.view = view + 2], {})
    /\ FencedFail(S \ down)
    /\ UNCHANGED <<lsp, poll, cpg, down, cluster, now, fence_time, past>>

\* The network heals; each side sees the other one join.
Merge ==
    /\ away # {} /\ view < MaxViews
    /\ away' = {}
    /\ IF cpg \cap away # {} /\ cpg \ away # {}
       THEN /\ view' = view + 1
            /\ inbox' = [m \in Nodes |->
                            IF m \in cpg
                            THEN Append(inbox[m], Event(cpg, cpg \ SameSide(m), {}, {}))
                            ELSE inbox[m]]
       ELSE UNCHANGED <<view, inbox>>
    /\ UNCHANGED <<lsp, poll, cpg, down, cluster, now, fencedVars, past, divorced>>

-----------------------------------------------------------------------------
(* fenced *)

Tick == /\ EnableFencing /\ now < MaxTime
        /\ now' = now + 1
        /\ UNCHANGED <<lsp, poll, inbox, cpg, down, away, cluster, fencedVars, history>>

\* The victim is reset, if it is not dead already.
Fence(n) ==
    /\ n \in victims
    /\ victims' = victims \ {n}
    /\ fence_time' = [fence_time EXCEPT ![n] = now]
    /\ Stop(n)
    /\ away' = away \ {n}
    /\ UNCHANGED <<cluster, now, past>>

-----------------------------------------------------------------------------
\* A daemon takes the next event or polls, or one of the services it waits for
\* answers.
DaemonStep(n) == \/ DeliverConfchg(n) \/ DeliverLeave(n) \/ DeliverMessage(n) \/ SkipGap(n)
                 \/ ProcessLockspaceChanges(n)
                 \/ QuorumCallback(n)
                 \/ \E m \in Nodes : FsNotified(n, m)

Next == \/ \E n \in Nodes : DaemonStep(n) \/ Join(n) \/ Leave(n) \/ Crash(n) \/ Fence(n)
        \/ \E S \in SUBSET Nodes : Partition(S)
        \/ Merge
        \/ Tick

Spec == Init /\ [][Next]_vars

\* While a daemon has something to do, some daemon does something.
Fairness == WF_vars(\E n \in Nodes : DaemonStep(n))

FairSpec == Spec /\ Fairness

-----------------------------------------------------------------------------
(* Invariants of every node's lockspace *)

Events == Confchg \cup Message \cup {Gap}

\* Every variable, lockspace record and queued event has its type.
TypeOK ==
    /\ lsp \in [Nodes -> Lockspace]
    /\ poll \in [Nodes -> Poll]
    /\ inbox \in [Nodes -> Seq(Events)]
    /\ cpg \subseteq Nodes /\ down \subseteq Nodes /\ away \subseteq Nodes
    /\ cluster \in [Nodes -> SUBSET Nodes]
    /\ now \in Nat /\ view \in Nat
    /\ victims \subseteq Nodes /\ past \subseteq Nodes /\ divorced \subseteq Nodes \X Nodes
    /\ fence_time \in [Nodes -> Nat]

\* A kernel that runs, and a start message that was sent for the newest change,
\* mean that no failed node is left to wait for: fenced has fenced it, the
\* quorum service has dropped it, fs_controld has been told (wait_conditions_done).
NoFailureOutstanding ==
    \A n \in Nodes : Settled(lsp[n]) => Outstanding(lsp[n]) = {}

\* While a kernel runs fs_controld has acknowledged a failure of every node that has
\* failed: check_fs_done waits for it.  After a second failure of a node the
\* acknowledgement of the first one does, fs_notified is never cleared.
FailuresAcked ==
    \A n \in Nodes : Running(lsp[n]) => lsp[n].unacked \subseteq lsp[n].fs_notified

\* A kernel runs only on the newest change, with a start message from every
\* member of it: any confchg stops it until the change list is worked off.
RunsOnNewestChange ==
    \A n \in Nodes : Running(lsp[n]) =>
        /\ lsp[n].changes = <<>>
        /\ lsp[n].started_change.members \subseteq lsp[n].started_change.start

\* The configfs directories of a running kernel are those of the members, and
\* none is a left-over of a member that left and joined again (format_renew_ids),
\* as long as set_configfs_members has not failed.
ConfigfsMatches ==
    \A n \in Nodes : Running(lsp[n]) /\ ~lsp[n].configfs_failed =>
        /\ lsp[n].kernel_members = lsp[n].started_change.members
        /\ lsp[n].stale = {}

-----------------------------------------------------------------------------
(* Properties of the cluster *)

\* The members of n's kernel, while it runs.
Mates(n) == IF Running(lsp[n]) THEN lsp[n].started_change.members ELSE {}

\* n has still to be told that m failed or left.
NewsPending(n, m) ==
    \E i \in DOMAIN inbox[n] : inbox[n][i].type = "confchg" /\ m \in inbox[n][i].left

\* No running kernel counts a node as a member whose own running kernel was
\* started without it: the stop, start and fencing rules of cpg.c keep two
\* parts of a split or reformed lockspace from granting locks side by side.  A
\* node that asked to leave is exempt: dlm-kernel has no users left then.
NoSplitBrain ==
    \A n, m \in Nodes :
        n \in Mates(m) /\ Running(lsp[n]) /\ ~lsp[m].leaving => m \in Mates(n)

\* Two running kernels that count each other as members were started for the
\* same change: a start waits for the start message of every member, and a
\* member stops its kernel before it sends one.
SameChange ==
    \A n, m \in Nodes :
        n \in Mates(m) /\ m \in Mates(n)
            => lsp[n].started_change.view = lsp[m].started_change.view

\* A node that was parted from others by a network split while its lockspace was
\* in use is not started with them again before it is reset: receive_start does
\* not count its start message.
NoReadmission ==
    \A p \in divorced : p[2] \in Mates(p[1]) => NewsPending(p[1], p[2])

\* Nodes started for the same change agree on the node whose checkpoint holds
\* the plock state (plock_ckpt_node).
CkptAgreement ==
    \A n, m \in Nodes :
        n \in Mates(m) /\ m \in Mates(n)
            => lsp[n].plock_ckpt_node = lsp[m].plock_ckpt_node

\* A node that runs and still waits for plock state (need_plocks) waits for a
\* member that has it, or is about to learn that this member is gone, or is about
\* to go itself.
PlockSource ==
    \A n \in Nodes : EnablePlock /\ Running(lsp[n]) /\ lsp[n].need_plocks /\ ~lsp[n].leaving =>
        LET low == lsp[n].plock_ckpt_node
        IN  /\ low \in Mates(n) \ {n}
            /\ (lsp[low].present /\ ~lsp[low].need_plocks) \/ NewsPending(n, low)

\* After the last membership change every node of the group gets to run, with
\* plock state, unless too few nodes are left for quorum.
Progress ==
    <>[]\A n \in cpg : \/ Running(lsp[n]) /\ ~lsp[n].need_plocks
                       \/ EnableQuorum /\ 2 * Cardinality(Nodes \ down) <= Cardinality(Nodes)
=============================================================================
