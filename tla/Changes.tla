------------------------------ MODULE Changes ------------------------------
(***************************************************************************)
(* struct lockspace of dlm_controld and the functions of cpg.c that change *)
(* it when a membership change (a CPG confchg) or a message arrives.  The  *)
(* functions are operators from records to records: a lockspace record ls, *)
(* the daemon's poll flags, and what the daemon can ask of the rest of the *)
(* node (env: clock, fenced, quorum) give the new record, the new flags    *)
(* and the messages to multicast.  LockspaceGroup applies them on every    *)
(* node of a cluster.                                                      *)
(*                                                                         *)
(* The per-node history list (struct node) is kept as one set of nodes per *)
(* flag.  Sequence numbers, flags and times kept "for queries" or "for     *)
(* debug" are left out.  Fields marked history are read by properties only.*)
(***************************************************************************)
EXTENDS Naturals, Sequences, FiniteSets

CONSTANTS
    Nodes,          \* nodeids
    EnableFencing,  \* cfgd_enable_fencing
    EnableQuorum,   \* cfgd_enable_quorum
    EnablePlock,    \* cfgd_enable_plock
    CountMod        \* started_count wraps at CountMod (2^32 in the code)

ASSUME NodesAssumption == Nodes \subseteq Nat \ {0} /\ IsFiniteSet(Nodes)
ASSUME SwitchAssumption ==
    EnableFencing \in BOOLEAN /\ EnableQuorum \in BOOLEAN /\ EnablePlock \in BOOLEAN
ASSUME CountAssumption == CountMod \in Nat /\ CountMod >= 2

\* A confchg as CPG delivers it; failed is the part of left whose reason is
\* NODEDOWN or PROCDOWN.  view numbers the confchgs (history).
Confchg == {cc \in [type : {"confchg"}, members : SUBSET Nodes, joined : SUBSET Nodes,
                    left : SUBSET Nodes, failed : SUBSET Nodes, view : Nat] :
              /\ cc.joined \subseteq cc.members /\ cc.failed \subseteq cc.left
              /\ cc.members \cap cc.left = {}}

\* struct change.  start and have are the members whose start message was
\* accepted, and those whose start message carried DLM_MFLG_HAVEPLOCK.
Change == [members : SUBSET Nodes, joined : SUBSET Nodes, removed : SUBSET Nodes,
           failed : SUBSET Nodes, state : {"conditions", "messages"},
           start : SUBSET Nodes, have : SUBSET Nodes, view : Nat]

\* What a count of nodes can be: member_count, joined_count, remove_count, failed_count.
NodeCount == {Cardinality(S) : S \in SUBSET Nodes}

\* A start or plocks_stored message: struct ls_info and the member ids.
Message == [type : {"start", "stored"}, from : Nodes, ids : SUBSET Nodes,
            counts : NodeCount \X NodeCount \X NodeCount \X NodeCount,
            started_count : 0 .. CountMod - 1, have : BOOLEAN, view : Nat]

\* ls->started_change when no change has been started
NoChange == [members |-> {}, joined |-> {}, removed |-> {}, failed |-> {},
             state |-> "conditions", start |-> {}, have |-> {}, view |-> 0]

\* present: the lockspace is on the daemon's list.  kernel_members: the node
\* directories in configfs.  stale (history): directories of nodes that left
\* since they were made.  configfs_failed (history): set_configfs_members gave
\* up half way.  unacked (history): nodes whose last failure fs_controld has
\* not acknowledged.
Lockspace == [present : BOOLEAN, joining : BOOLEAN, leaving : BOOLEAN,
              kernel_stopped : BOOLEAN, fs_registered : BOOLEAN,
              need_plocks : BOOLEAN, save_plocks : BOOLEAN,
              plock_ckpt_node : Nodes \cup {0},
              started_count : 0 .. CountMod - 1,
              changes : Seq(Change), started_change : Change,
              known : SUBSET Nodes, check_fencing : SUBSET Nodes,
              check_quorum : SUBSET Nodes, check_fs : SUBSET Nodes,
              fs_notified : SUBSET Nodes, add_time : [Nodes -> Nat],
              kernel_members : SUBSET Nodes, stale : SUBSET Nodes,
              configfs_failed : BOOLEAN, unacked : SUBSET Nodes]

NoLockspace ==
    [present |-> FALSE, joining |-> FALSE, leaving |-> FALSE,
     kernel_stopped |-> TRUE, fs_registered |-> FALSE,
     need_plocks |-> FALSE, save_plocks |-> FALSE, plock_ckpt_node |-> 0,
     started_count |-> 0, changes |-> <<>>, started_change |-> NoChange,
     known |-> {}, check_fencing |-> {}, check_quorum |-> {}, check_fs |-> {},
     fs_notified |-> {}, add_time |-> [m \in Nodes |-> 0],
     kernel_members |-> {}, stale |-> {}, configfs_failed |-> FALSE,
     unacked |-> {}]

\* The daemon's poll flags, shared by all its lockspaces.
Poll == [fencing : BOOLEAN, quorum : BOOLEAN, fs : BOOLEAN]
NoPoll == [fencing |-> FALSE, quorum |-> FALSE, fs |-> FALSE]

\* What the daemon learns from the clock, fenced and the quorum service.
Env == [now : Nat, fence_time : [Nodes -> Nat], in_progress : BOOLEAN,
        cluster : SUBSET Nodes, quorate : BOOLEAN]

Running(ls) == ls.present /\ ~ls.kernel_stopped

-----------------------------------------------------------------------------
(* dlm_join_lockspace, set_fs_notified, stop_kernel *)

dlm_join_lockspace(registered) ==
    [NoLockspace EXCEPT !.present = TRUE, !.joining = TRUE,
                        !.need_plocks = TRUE, !.fs_registered = registered]

set_fs_notified(ls, m) ==
    IF m \in ls.known /\ m \in ls.check_fs
    THEN [ls EXCEPT !.fs_notified = @ \cup {m}, !.unacked = @ \ {m}]
    ELSE ls

stop_kernel(ls) == [ls EXCEPT !.kernel_stopped = TRUE]

-----------------------------------------------------------------------------
(* add_change, with node_history_init, _left and _fail *)

NewChange(cc) == [members |-> cc.members, joined |-> cc.joined,
                  removed |-> cc.left, failed |-> cc.failed,
                  state |-> "conditions", start |-> {}, have |-> {},
                  view |-> cc.view]

\* node_history_init: the nodes that joined, or every member if we joined.
HistoryInit(self, ls, cc) ==
    ls.known \cup (cc.joined \ {self}) \cup (IF self \in cc.joined THEN cc.members ELSE {})

\* node_history_fail: only a node whose good start we saw needs fencing.
NeedFencing(ls, cc) ==
    IF EnableFencing THEN {m \in cc.failed \cap ls.known : ls.add_time[m] # 0} ELSE {}

NeedQuorum(ls, cc) ==
    IF EnableQuorum /\ ~EnableFencing THEN cc.failed \cap ls.known ELSE {}

NeedFs(ls, cc) == IF ls.fs_registered THEN cc.failed \cap ls.known ELSE {}

\* node_history_left
LeftTime(ls, cc) ==
    [m \in Nodes |-> IF m \in (cc.left \ cc.failed) \cap ls.known THEN 0 ELSE ls.add_time[m]]

add_change(self, ls, cc) ==
    [ls EXCEPT !.changes = <<NewChange(cc)>> \o @,
               !.known = HistoryInit(self, ls, cc),
               !.check_fencing = @ \cup NeedFencing(ls, cc),
               !.check_quorum = @ \cup NeedQuorum(ls, cc),
               !.check_fs = @ \cup NeedFs(ls, cc),
               !.unacked = @ \cup NeedFs(ls, cc),
               !.add_time = LeftTime(ls, cc),
               !.stale = @ \cup (cc.left \cap ls.kernel_members)]

-----------------------------------------------------------------------------
(* check_fencing_done, check_quorum_done, check_fs_done, wait_conditions_done *)

\* The failed nodes that fenced has fenced since their good start.
Fenced(ls, env) == {m \in ls.check_fencing : env.fence_time[m] > ls.add_time[m]}

AfterFencing(ls, env) ==
    IF EnableFencing
    THEN [ls EXCEPT !.check_fencing = @ \ Fenced(ls, env),
                    !.add_time = [m \in Nodes |-> IF m \in Fenced(ls, env) THEN 0 ELSE @[m]]]
    ELSE ls

\* Mutant: only asks whether fenced is busy, not whether it got to the failed nodes.
check_fencing_done_OnlyProgress(ls, env) == EnableFencing => ~env.in_progress

check_fencing_done(ls, env) ==
    EnableFencing => /\ AfterFencing(ls, env).check_fencing = {}
                     /\ ~env.in_progress

AfterQuorum(ls, env) ==
    IF check_fencing_done(ls, env) /\ EnableQuorum
    THEN [AfterFencing(ls, env) EXCEPT !.check_quorum = @ \cap env.cluster]
    ELSE AfterFencing(ls, env)

\* Mutant: does not wait for the quorum service to see the failures.
check_quorum_done_OnlyQuorate(ls, env) == EnableQuorum => env.quorate

check_quorum_done(ls, env) ==
    EnableQuorum => AfterQuorum(ls, env).check_quorum = {} /\ env.quorate

\* fs_notified is not cleared with check_fs
AfterFs(ls, env) ==
    IF check_fencing_done(ls, env) /\ check_quorum_done(ls, env) /\ ls.fs_registered
    THEN [AfterQuorum(ls, env) EXCEPT !.check_fs = @ \ ls.fs_notified]
    ELSE AfterQuorum(ls, env)

\* Mutant: fs_controld is not waited for.
check_fs_done_Not(ls, env) == TRUE

check_fs_done(ls, env) == ls.fs_registered => AfterFs(ls, env).check_fs = {}

\* The checks stop at the first one that is not done, and leave the flags of
\* the later ones alone.
wait_conditions_done(ls, env) ==
    /\ check_fencing_done(ls, env)
    /\ check_quorum_done(ls, env)
    /\ check_fs_done(ls, env)

\* Mutant: no polling for fs_controld's acknowledgement.
WaitConditionsPoll_NoFs(ls, poll, env) ==
    [fencing |-> ~check_fencing_done(ls, env),
     quorum  |-> check_fencing_done(ls, env) /\ ~check_quorum_done(ls, env),
     fs      |-> poll.fs]

WaitConditionsPoll(ls, poll, env) ==
    LET fencing == check_fencing_done(ls, env)
        quorum  == fencing /\ check_quorum_done(ls, env)
    IN  [fencing |-> ~fencing,
         quorum  |-> IF fencing THEN ~quorum ELSE poll.quorum,
         fs      |-> IF quorum THEN ~check_fs_done(ls, env) ELSE poll.fs]

-----------------------------------------------------------------------------
(* start_kernel, with set_configfs_members of action.c *)

\* Mutant: looks at the removed list of the change that starts.
format_renew_ids_StartCg(ls) == ls.changes[1].members \cap ls.changes[1].removed

format_renew_ids(ls) ==
    ls.changes[1].members
        \cap UNION {ls.changes[i].removed : i \in 2 .. Len(ls.changes)}

\* A renewed node without a directory makes rmdir fail, and the function
\* returns with the directories of the nodes listed before it (CPG lists the
\* members by nodeid).
RenewError(ls) == format_renew_ids(ls) \ ls.kernel_members

BeforeError(ls) == {m \in ls.changes[1].members : \A e \in RenewError(ls) : m < e}

set_configfs_members(ls) ==
    LET new  == ls.changes[1].members
        kept == ls.kernel_members \cap new
    IN  [ls EXCEPT
            !.kernel_members = kept \cup BeforeError(ls),
            !.stale = (@ \cap new) \ (format_renew_ids(ls) \cap BeforeError(ls)),
            !.configfs_failed = @ \/ RenewError(ls) # {}]

start_kernel(ls) ==
    IF ls.kernel_stopped
    THEN [set_configfs_members(ls) EXCEPT !.kernel_stopped = FALSE, !.joining = FALSE]
    ELSE ls

-----------------------------------------------------------------------------
(* send_info, prepare_plocks, cleanup_changes, apply_changes *)

Counts(cg) == <<Cardinality(cg.members), Cardinality(cg.joined),
                Cardinality(cg.removed), Cardinality(cg.failed)>>

\* Mutant: HAVEPLOCK from any node that was started before.
send_info_HaveIfStarted(self, ls, type) ==
    LET cg == ls.changes[1]
    IN  [type |-> type, from |-> self, ids |-> cg.members, counts |-> Counts(cg),
         started_count |-> ls.started_count, have |-> ls.started_count # 0,
         view |-> cg.view]

send_info(self, ls, type) ==
    LET cg == ls.changes[1]
    IN  [type |-> type, from |-> self, ids |-> cg.members, counts |-> Counts(cg),
         started_count |-> ls.started_count, have |-> ~ls.need_plocks,
         view |-> cg.view]

\* set_plock_ckpt_node: the lowest member that has plock state, 0 for none.
LowHavePlock(cg) ==
    LET low == {m \in cg.have : \A k \in cg.have : m <= k}
    IN  IF low = {} THEN 0 ELSE CHOOSE m \in low : TRUE

\* Mutant: every node with plock state takes itself for the checkpoint node.
prepare_plocks_OwnCkpt(self, ls) ==
    LET low == LowHavePlock(ls.changes[1])
    IN  IF low # 0 /\ ls.need_plocks
        THEN [ls |-> [ls EXCEPT !.plock_ckpt_node = low, !.save_plocks = TRUE], out |-> <<>>]
        ELSE [ls |-> [ls EXCEPT !.plock_ckpt_node = self, !.need_plocks = FALSE],
              out |-> <<send_info(self, ls, "stored")>>]

\* What is stored in the checkpoint and read back is not part of this module.
prepare_plocks(self, ls) ==
    LET cg  == ls.changes[1]
        low == LowHavePlock(cg)
    IN  IF ~EnablePlock
        THEN [ls |-> ls, out |-> <<>>]
        ELSE IF Cardinality(cg.members) = 1
        THEN [ls |-> [ls EXCEPT !.plock_ckpt_node = self, !.need_plocks = FALSE],
              out |-> <<>>]
        ELSE IF low = 0
        THEN [ls |-> [ls EXCEPT !.plock_ckpt_node = 0, !.need_plocks = FALSE,
                                !.save_plocks = FALSE],
              out |-> <<>>]
        ELSE IF ls.need_plocks
        THEN [ls |-> [ls EXCEPT !.plock_ckpt_node = low, !.save_plocks = TRUE],
              out |-> <<>>]
        ELSE [ls |-> [ls EXCEPT !.plock_ckpt_node = low],
              out |-> IF low = self THEN <<send_info(self, ls, "stored")>> ELSE <<>>]

\* Mutants: no wrap, and a wrap to zero.
NextCount_NoWrap(c) == c + 1
NextCount_WrapToZero(c) == (c + 1) % CountMod

\* started_count skips zero when it wraps
NextCount(c) == IF (c + 1) % CountMod = 0 THEN 1 ELSE (c + 1) % CountMod

cleanup_changes(ls) ==
    [ls EXCEPT !.started_change = ls.changes[1], !.changes = <<>>,
               !.started_count = NextCount(@)]

\* Mutant: starts on the first start message.
wait_messages_done_First(ls) == ls.changes[1].start # {}

wait_messages_done(ls) == ls.changes[1].members \subseteq ls.changes[1].start

\* CGST_WAIT_CONDITIONS
ApplyConditions(self, ls, poll, env) ==
    LET done  == wait_conditions_done(ls, env)
        after == AfterFs(ls, env)
    IN  [ls   |-> IF done THEN [after EXCEPT !.changes[1].state = "messages"] ELSE after,
         poll |-> WaitConditionsPoll(ls, poll, env),
         out  |-> IF done THEN <<send_info(self, ls, "start")>> ELSE <<>>]

\* CGST_WAIT_MESSAGES
ApplyMessages(self, ls, poll) ==
    LET prep == prepare_plocks(self, start_kernel(ls))
    IN  IF wait_messages_done(ls)
        THEN [ls |-> cleanup_changes(prep.ls), poll |-> poll, out |-> prep.out]
        ELSE [ls |-> ls, poll |-> poll, out |-> <<>>]

apply_changes(self, ls, poll, env) ==
    IF ls.changes = <<>>
    THEN [ls |-> ls, poll |-> poll, out |-> <<>>]
    ELSE IF ls.changes[1].state = "conditions"
    THEN ApplyConditions(self, ls, poll, env)
    ELSE ApplyMessages(self, ls, poll)

-----------------------------------------------------------------------------
(* match_change, find_change, receive_start, receive_plocks_stored *)

match_change(self, cg, msg) ==
    /\ self \in msg.ids
    /\ msg.from \in cg.members
    /\ msg.counts = Counts(cg)
    /\ msg.ids \subseteq cg.members

\* The change a message is for, if any: find_change goes from the oldest to the newest.
Matches(self, ls, msg) ==
    {i \in 1 .. Len(ls.changes) :
        /\ match_change(self, ls.changes[i], msg)
        /\ \A j \in i + 1 .. Len(ls.changes) : ~match_change(self, ls.changes[j], msg)}

find_change(self, ls, msg) == CHOOSE i \in Matches(self, ls, msg) : TRUE

is_added(ls, m) == \E i \in 1 .. Len(ls.changes) : m \in ls.changes[i].joined

SetHave(cg, msg) ==
    [cg EXCEPT !.have = IF msg.have THEN @ \cup {msg.from} ELSE @ \ {msg.from}]

receive_start(self, ls, msg, now) ==
    IF Matches(self, ls, msg) = {}
    THEN ls
    ELSE LET i == find_change(self, ls, msg)
             cg == SetHave(ls.changes[i], msg)
         IN  IF is_added(ls, msg.from) /\ msg.started_count # 0
             THEN [ls EXCEPT !.changes[i] = cg]
             ELSE [ls EXCEPT
                     !.changes[i] = [cg EXCEPT !.start = @ \cup {msg.from}],
                     !.add_time = IF msg.from \in ls.known
                                  THEN [@ EXCEPT ![msg.from] = now] ELSE @]

receive_plocks_stored(self, ls, msg) ==
    IF /\ ls.need_plocks
       /\ ls.changes = <<>>
       /\ ls.started_change # NoChange
       /\ match_change(self, ls.started_change, msg)
    THEN [ls EXCEPT !.need_plocks = FALSE, !.save_plocks = FALSE]
    ELSE ls

-----------------------------------------------------------------------------
(* deliver_cb, and confchg_cb other than for our own leave: what they do to the *)
(* lockspace before they call apply_changes                                     *)

deliver_cb(self, ls, msg, now) ==
    IF msg.type = "start" THEN receive_start(self, ls, msg, now)
    ELSE receive_plocks_stored(self, ls, msg)

\* Mutant: the kernel is not stopped.
confchg_cb_NoStop(self, ls, cc) == add_change(self, ls, cc)

confchg_cb(self, ls, cc) == stop_kernel(add_change(self, ls, cc))

-----------------------------------------------------------------------------
(* What properties say of a lockspace *)

\* The kernel runs, or our start message for the newest change was sent.
Settled(ls) ==
    Running(ls) \/ (ls.changes # <<>> /\ ls.changes[1].state = "messages")

\* The failed nodes some condition still waits for.
Outstanding(ls) == ls.check_fencing \cup ls.check_quorum \cup ls.check_fs
=============================================================================
