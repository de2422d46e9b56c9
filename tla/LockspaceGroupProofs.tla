------------------------ MODULE LockspaceGroupProofs ------------------------
(***************************************************************************)
(* Invariants of LockspaceGroup for every set of nodes, configuration and  *)
(* environment.                                                            *)
(*                                                                         *)
(* First what the functions of cpg.c modelled in Changes preserve: the     *)
(* types of their results, and the rules that tie a running kernel to the  *)
(* change list (StartRules).  Then the same for the whole cluster, and     *)
(* that nodes parted by a split stay parted.  Last what one node does with *)
(* changes and start messages, for SameChangeProofs.                       *)
(***************************************************************************)
EXTENDS LockspaceGroup, TLAPS

\* A leaf that names no prover is left to Zenon.
USE ZenonT(30)

-----------------------------------------------------------------------------
(* The functions of cpg.c *)

\* stop_kernel keeps the type of a lockspace.
LEMMA StopType ==
    ASSUME NEW ls \in Lockspace
    PROVE  stop_kernel(ls) \in Lockspace
  BY DEF stop_kernel, Lockspace

\* The empty records have their types.
LEMMA NoLockspaceType == NoChange \in Change /\ NoLockspace \in Lockspace
  <1>1. NoChange \in Change
    BY DEF NoChange, Change
  <1>2. <<>> \in Seq(Change) /\ [m \in Nodes |-> 0] \in [Nodes -> Nat]
    BY SMT
  <1>3. 0 \in 0 .. CountMod - 1
    BY CountAssumption, SMT
  <1> QED BY <1>1, <1>2, <1>3 DEF NoLockspace, Lockspace

\* dlm_join_lockspace makes a lockspace.
LEMMA JoinType ==
    ASSUME NEW registered \in BOOLEAN
    PROVE  dlm_join_lockspace(registered) \in Lockspace
  BY NoLockspaceType DEF dlm_join_lockspace, Lockspace

\* set_fs_notified keeps the type of a lockspace.
LEMMA FsType ==
    ASSUME NEW ls \in Lockspace, NEW m \in Nodes
    PROVE  set_fs_notified(ls, m) \in Lockspace
  BY DEF set_fs_notified, Lockspace

\* add_change builds a change from a confchg.
LEMMA NewChangeType ==
    ASSUME NEW cc \in Confchg
    PROVE  NewChange(cc) \in Change
  BY DEF NewChange, Change, Confchg

\* add_change keeps the type of a lockspace.
LEMMA AddChangeType ==
    ASSUME NEW self \in Nodes, NEW ls \in Lockspace, NEW cc \in Confchg
    PROVE  add_change(self, ls, cc) \in Lockspace
  <1>1. <<NewChange(cc)>> \o ls.changes \in Seq(Change)
    BY NewChangeType, SMT DEF Lockspace
  <1>2. /\ HistoryInit(self, ls, cc) \in SUBSET Nodes
        /\ NeedFencing(ls, cc) \in SUBSET Nodes
        /\ NeedQuorum(ls, cc) \in SUBSET Nodes
        /\ NeedFs(ls, cc) \in SUBSET Nodes
        /\ cc.left \cap ls.kernel_members \in SUBSET Nodes
    BY DEF HistoryInit, NeedFencing, NeedQuorum, NeedFs, Confchg, Lockspace
  <1>3. LeftTime(ls, cc) \in [Nodes -> Nat]
    BY DEF LeftTime, Lockspace
  <1> QED BY <1>1, <1>2, <1>3 DEF add_change, Lockspace

\* check_fencing_done keeps the type of a lockspace.
LEMMA FencingType ==
    ASSUME NEW ls \in Lockspace, NEW env \in Env
    PROVE  AfterFencing(ls, env) \in Lockspace
  <1>1. [m \in Nodes |-> IF m \in Fenced(ls, env) THEN 0 ELSE ls.add_time[m]] \in [Nodes -> Nat]
    BY DEF Lockspace
  <1> QED BY <1>1 DEF AfterFencing, Lockspace

\* check_quorum_done keeps the type of a lockspace.
LEMMA QuorumType ==
    ASSUME NEW ls \in Lockspace, NEW env \in Env
    PROVE  AfterQuorum(ls, env) \in Lockspace
  <1>1. AfterFencing(ls, env) \in Lockspace
    BY FencingType
  <1> QED BY <1>1 DEF AfterQuorum, Lockspace

\* check_fs_done, after the other two, keeps the type of a lockspace.
LEMMA ConditionsType ==
    ASSUME NEW ls \in Lockspace, NEW env \in Env
    PROVE  AfterFs(ls, env) \in Lockspace
  <1>1. AfterQuorum(ls, env) \in Lockspace
    BY QuorumType
  <1> QED BY <1>1 DEF AfterFs, Lockspace

\* The counts of a change count nodes.
LEMMA CountsType ==
    ASSUME NEW cg \in Change
    PROVE  Counts(cg) \in NodeCount \X NodeCount \X NodeCount \X NodeCount
  <1>1. ASSUME NEW S \in SUBSET Nodes
        PROVE  Cardinality(S) \in NodeCount
    BY DEF NodeCount
  <1> QED BY <1>1 DEF Counts, Change

\* send_info makes a message from the newest change.
LEMMA MessageType ==
    ASSUME NEW self \in Nodes, NEW ls \in Lockspace, ls.changes # <<>>,
           NEW type \in {"start", "stored"}
    PROVE  send_info(self, ls, type) \in Message
  <1>1. ls.changes[1] \in Change
    BY SMT DEF Lockspace
  <1>2. Counts(ls.changes[1]) \in NodeCount \X NodeCount \X NodeCount \X NodeCount
    BY <1>1, CountsType
  <1> QED BY <1>1, <1>2 DEF send_info, Message, Change, Lockspace

\* set_configfs_members keeps the type of a lockspace.
LEMMA ConfigfsType ==
    ASSUME NEW ls \in Lockspace, ls.changes # <<>>
    PROVE  set_configfs_members(ls) \in Lockspace
  <1>1. ls.changes[1] \in Change
    BY SMT DEF Lockspace
  <1>2. /\ (ls.kernel_members \cap ls.changes[1].members) \cup BeforeError(ls) \in SUBSET Nodes
        /\ ((ls.stale \cap ls.changes[1].members)
              \ (format_renew_ids(ls) \cap BeforeError(ls))) \in SUBSET Nodes
        /\ (ls.configfs_failed \/ RenewError(ls) # {}) \in BOOLEAN
    BY <1>1 DEF BeforeError, Lockspace, Change
  <1> QED BY <1>2 DEF set_configfs_members, Lockspace

\* start_kernel keeps the type of a lockspace.
LEMMA StartKernelType ==
    ASSUME NEW ls \in Lockspace, ls.changes # <<>>
    PROVE  start_kernel(ls) \in Lockspace
  <1>1. set_configfs_members(ls) \in Lockspace
    BY ConfigfsType
  <1> QED BY <1>1 DEF start_kernel, Lockspace

\* set_plock_ckpt_node picks a node, or 0.
LEMMA LowType ==
    ASSUME NEW cg \in Change
    PROVE  LowHavePlock(cg) \in Nodes \cup {0}
  BY DEF LowHavePlock, Change

\* The fields the start rules below speak of are the same in a and b.
SameCore(a, b) ==
    /\ a.changes = b.changes /\ a.started_change = b.started_change
    /\ a.check_fencing = b.check_fencing /\ a.check_quorum = b.check_quorum
    /\ a.check_fs = b.check_fs /\ a.fs_registered = b.fs_registered
    /\ a.kernel_stopped = b.kernel_stopped /\ a.kernel_members = b.kernel_members
    /\ a.stale = b.stale /\ a.configfs_failed = b.configfs_failed
    /\ a.fs_notified = b.fs_notified /\ a.unacked = b.unacked

\* prepare_plocks keeps the type, sends messages and leaves the start state alone.
LEMMA PlocksType ==
    ASSUME NEW self \in Nodes, NEW ls \in Lockspace, ls.changes # <<>>,
           NEW r, r = prepare_plocks(self, ls)
    PROVE  r.ls \in Lockspace /\ r.out \in Seq(Message) /\ SameCore(r.ls, ls)
  <1> DEFINE low == LowHavePlock(ls.changes[1])
  <1>1. low \in Nodes \cup {0}
    BY LowType, SMT DEF Lockspace
  <1>2. send_info(self, ls, "stored") \in Message
    BY MessageType
  <1>3. r.out \in Seq(Message)
    BY <1>2, SMT DEF prepare_plocks
  <1>4. r.ls \in Lockspace
    <2>1. ASSUME NEW l \in Nodes \cup {0}
          PROVE  /\ [ls EXCEPT !.plock_ckpt_node = l] \in Lockspace
                 /\ [ls EXCEPT !.plock_ckpt_node = l, !.need_plocks = FALSE] \in Lockspace
                 /\ [ls EXCEPT !.plock_ckpt_node = l, !.save_plocks = TRUE] \in Lockspace
                 /\ [ls EXCEPT !.plock_ckpt_node = l, !.need_plocks = FALSE,
                               !.save_plocks = FALSE] \in Lockspace
      BY DEF Lockspace
    <2> QED BY <1>1, <2>1 DEF prepare_plocks
  <1>5. SameCore(r.ls, ls)
    BY DEF prepare_plocks, Lockspace, SameCore
  <1> QED BY <1>3, <1>4, <1>5

\* cleanup_changes keeps the type, and started_count below its modulus.
LEMMA CleanupType ==
    ASSUME NEW ls \in Lockspace, ls.changes # <<>>
    PROVE  cleanup_changes(ls) \in Lockspace
  <1>1. ls.changes[1] \in Change /\ <<>> \in Seq(Change)
    BY SMT DEF Lockspace
  <1>2. ASSUME NEW c \in 0 .. CountMod - 1
        PROVE  NextCount(c) \in 0 .. CountMod - 1
    BY CountAssumption, SMT DEF NextCount
  <1>3. NextCount(ls.started_count) \in 0 .. CountMod - 1
    BY <1>2 DEF Lockspace
  <1> QED BY <1>1, <1>3 DEF cleanup_changes, Lockspace

\* The change find_change returns is on the list and matches the message.
LEMMA FindChange ==
    ASSUME NEW self \in Nodes, NEW ls \in Lockspace, NEW msg \in Message,
           Matches(self, ls, msg) # {}
    PROVE  /\ find_change(self, ls, msg) \in 1 .. Len(ls.changes)
           /\ match_change(self, ls.changes[find_change(self, ls, msg)], msg)
  <1>1. find_change(self, ls, msg) \in Matches(self, ls, msg)
    BY DEF find_change
  <1> QED BY <1>1 DEF Matches

\* receive_start keeps the type of a lockspace.
LEMMA ReceiveStartType ==
    ASSUME NEW self \in Nodes, NEW ls \in Lockspace, NEW msg \in Message, NEW clock \in Nat
    PROVE  receive_start(self, ls, msg, clock) \in Lockspace
  <1>1. CASE Matches(self, ls, msg) = {}
    BY <1>1 DEF receive_start
  <1>2. CASE Matches(self, ls, msg) # {}
    <2> DEFINE i == find_change(self, ls, msg)
               cg == SetHave(ls.changes[i], msg)
               time == IF msg.from \in ls.known
                       THEN [ls.add_time EXCEPT ![msg.from] = clock] ELSE ls.add_time
    <2>1. i \in 1 .. Len(ls.changes)
      BY <1>2, FindChange
    <2>2. cg \in Change /\ [cg EXCEPT !.start = @ \cup {msg.from}] \in Change
      <3>1. ls.changes[i] \in Change /\ msg.from \in Nodes
        BY <2>1, SMT DEF Lockspace, Message
      <3> HIDE DEF i
      <3>2. cg \in Change
        BY <3>1 DEF SetHave, Change
      <3> QED BY <3>1, <3>2 DEF Change
    <2>3. time \in [Nodes -> Nat]
      BY DEF Lockspace, Message
    <2> HIDE DEF i, cg, time
    <2>4. /\ [ls EXCEPT !.changes[i] = cg] \in Lockspace
          /\ [ls EXCEPT !.changes[i] = [cg EXCEPT !.start = @ \cup {msg.from}],
                        !.add_time = time] \in Lockspace
      <3>1. ASSUME NEW new \in Change
            PROVE  [ls.changes EXCEPT ![i] = new] \in Seq(Change)
        BY <2>1, SMT DEF Lockspace
      <3> QED BY <2>2, <2>3, <3>1 DEF Lockspace
    <2> QED BY <1>2, <2>4 DEF receive_start, i, cg, time
  <1> QED BY <1>1, <1>2

\* receive_plocks_stored keeps the type of a lockspace.
LEMMA StoredType ==
    ASSUME NEW self \in Nodes, NEW ls \in Lockspace, NEW msg \in Message
    PROVE  receive_plocks_stored(self, ls, msg) \in Lockspace
  BY DEF receive_plocks_stored, Lockspace

\* apply_changes in state CGST_WAIT_CONDITIONS returns values of the right types.
LEMMA ApplyConditionsType ==
    ASSUME NEW self \in Nodes, NEW ls \in Lockspace, ls.changes # <<>>,
           NEW flags \in Poll, NEW env \in Env,
           NEW r, r = ApplyConditions(self, ls, flags, env)
    PROVE  r.ls \in Lockspace /\ r.poll \in Poll /\ r.out \in Seq(Message)
  <1> DEFINE after == AfterFs(ls, env)
  <1>1. after \in Lockspace /\ after.changes = ls.changes
    <2>1. after \in Lockspace
      BY ConditionsType
    <2>2. AfterFencing(ls, env).changes = ls.changes
      BY DEF AfterFencing, Lockspace
    <2>3. AfterQuorum(ls, env).changes = ls.changes
      <3>1. AfterFencing(ls, env) \in Lockspace
        BY FencingType
      <3> QED BY <2>2, <3>1 DEF AfterQuorum, Lockspace
    <2>4. AfterQuorum(ls, env) \in Lockspace
      BY QuorumType
    <2> QED BY <2>1, <2>3, <2>4 DEF AfterFs, Lockspace
  <1>2. [after EXCEPT !.changes[1].state = "messages"] \in Lockspace
    <2> HIDE DEF after
    <2>0. after.changes[1] \in Change
      BY <1>1, SMT DEF Lockspace
    <2>1. [after.changes[1] EXCEPT !.state = "messages"] \in Change
      BY <2>0 DEF Change
    <2>2. [after.changes EXCEPT ![1] = [after.changes[1] EXCEPT !.state = "messages"]]
              \in Seq(Change)
      BY <1>1, <2>1, SMT DEF Lockspace
    <2> QED BY <1>1, <2>2 DEF Lockspace
  <1>3. r.ls \in Lockspace
    BY <1>1, <1>2 DEF ApplyConditions
  <1>4. r.poll \in Poll
    BY DEF ApplyConditions, WaitConditionsPoll, Poll
  <1>5. r.out \in Seq(Message)
    <2>1. send_info(self, ls, "start") \in Message
      BY MessageType
    <2> QED BY <2>1, SMT DEF ApplyConditions
  <1> QED BY <1>3, <1>4, <1>5

\* apply_changes in state CGST_WAIT_MESSAGES returns values of the right types.
LEMMA ApplyMessagesType ==
    ASSUME NEW self \in Nodes, NEW ls \in Lockspace, ls.changes # <<>>,
           NEW flags \in Poll,
           NEW r, r = ApplyMessages(self, ls, flags)
    PROVE  r.ls \in Lockspace /\ r.poll \in Poll /\ r.out \in Seq(Message)
  <1> DEFINE started == start_kernel(ls)
             prep == prepare_plocks(self, started)
  <1>1. started \in Lockspace /\ started.changes # <<>>
    <2>1. started \in Lockspace
      BY StartKernelType
    <2>2. set_configfs_members(ls).changes = ls.changes
      BY DEF set_configfs_members, Lockspace
    <2>3. started.changes = ls.changes
      BY <2>2 DEF start_kernel, set_configfs_members, Lockspace
    <2> QED BY <2>1, <2>3
  <1>2. prep.ls \in Lockspace /\ prep.out \in Seq(Message) /\ prep.ls.changes # <<>>
    <2> HIDE DEF started
    <2> QED BY <1>1, PlocksType DEF SameCore
  <1>3. cleanup_changes(prep.ls) \in Lockspace
    <2> HIDE DEF prep
    <2> QED BY <1>2, CleanupType
  <1> QED BY <1>2, <1>3, SMT DEF ApplyMessages

\* apply_changes returns values of the right types.
LEMMA ApplyType ==
    ASSUME NEW self \in Nodes, NEW ls \in Lockspace, NEW flags \in Poll, NEW env \in Env,
           NEW r, r = apply_changes(self, ls, flags, env)
    PROVE  r.ls \in Lockspace /\ r.poll \in Poll /\ r.out \in Seq(Message)
  <1>1. CASE ls.changes = <<>>
    BY <1>1, SMT DEF apply_changes
  <1>2. CASE ls.changes # <<>> /\ ls.changes[1].state = "conditions"
    BY <1>2, ApplyConditionsType DEF apply_changes
  <1>3. CASE ls.changes # <<>> /\ ls.changes[1].state # "conditions"
    BY <1>3, ApplyMessagesType DEF apply_changes
  <1> QED BY <1>1, <1>2, <1>3

-----------------------------------------------------------------------------
(***************************************************************************)
(* StartRules is the inductive invariant of one lockspace record.  Settled *)
(* and the kernel's state alone are not inductive: a condition that is     *)
(* switched off must have nothing to wait for, and the directories that    *)
(* went stale must be accounted for by a removed list of a pending change, *)
(* where format_renew_ids will find them.  A failure fs_controld has not   *)
(* acknowledged is still waited for, or an earlier one was acknowledged.   *)
(***************************************************************************)
Disjoint(ls) ==
    \A i \in 1 .. Len(ls.changes) : ls.changes[i].members \cap ls.changes[i].removed = {}

NothingWaitsForDisabled(ls) ==
    /\ ~EnableFencing => ls.check_fencing = {}
    /\ ~EnableQuorum => ls.check_quorum = {}
    /\ ~ls.fs_registered => ls.check_fs = {}

Clean(ls) ==
    /\ ls.kernel_stopped => \A m \in ls.stale : \E i \in 1 .. Len(ls.changes) :
                                m \in ls.changes[i].removed
    /\ ~ls.kernel_stopped => /\ ls.kernel_members = ls.started_change.members
                             /\ ls.stale = {}

Started(ls) ==
    ~ls.kernel_stopped => /\ ls.changes = <<>>
                          /\ ls.started_change.members \subseteq ls.started_change.start

Sent(ls) == ls.changes # <<>> /\ ls.changes[1].state = "messages"

Acked(ls) == ls.unacked \subseteq ls.check_fs \cup ls.fs_notified

StartRules(ls) ==
    /\ Disjoint(ls)
    /\ Acked(ls)
    /\ NothingWaitsForDisabled(ls)
    /\ Sent(ls) \/ ~ls.kernel_stopped => Outstanding(ls) = {}
    /\ Started(ls)
    /\ ~ls.configfs_failed => Clean(ls)

\* A lockspace that is absent, or new, obeys the start rules.
LEMMA NoLockspaceRules ==
    /\ StartRules(NoLockspace)
    /\ \A registered \in BOOLEAN : StartRules(dlm_join_lockspace(registered))
  <1>1. /\ NoLockspace.changes = <<>> /\ NoLockspace.kernel_stopped
        /\ NoLockspace.stale = {} /\ Outstanding(NoLockspace) = {}
        /\ NoLockspace.check_fencing = {} /\ NoLockspace.check_quorum = {}
        /\ NoLockspace.check_fs = {} /\ NoLockspace.unacked = {}
    BY DEF NoLockspace, Outstanding
  <1>2. ASSUME NEW registered \in BOOLEAN, NEW ls, ls = dlm_join_lockspace(registered)
        PROVE  /\ ls.changes = <<>> /\ ls.kernel_stopped
               /\ ls.stale = {} /\ Outstanding(ls) = {}
               /\ ls.check_fencing = {} /\ ls.check_quorum = {} /\ ls.check_fs = {}
               /\ ls.unacked = {}
    BY <1>2 DEF dlm_join_lockspace, NoLockspace, Outstanding
  <1>3. ASSUME NEW ls, ls.changes = <<>>, ls.kernel_stopped, ls.stale = {},
               Outstanding(ls) = {}, ls.check_fencing = {}, ls.check_quorum = {},
               ls.check_fs = {}, ls.unacked = {}
        PROVE  StartRules(ls)
    BY <1>3, SMT DEF StartRules, Disjoint, Acked, NothingWaitsForDisabled, Clean, Started, Sent
  <1>4. StartRules(NoLockspace)
    BY <1>1, <1>3
  <1>5. ASSUME NEW registered \in BOOLEAN
        PROVE  StartRules(dlm_join_lockspace(registered))
    BY <1>2, <1>3
  <1> QED BY <1>4, <1>5

\* The start rules depend on the core fields only.
LEMMA CoreRules ==
    ASSUME NEW a, NEW b, SameCore(a, b), StartRules(a)
    PROVE  StartRules(b)
  BY DEF SameCore, StartRules, Disjoint, Acked, NothingWaitsForDisabled, Clean, Started, Sent,
         Outstanding

\* set_fs_notified preserves the start rules.
LEMMA FsRules ==
    ASSUME NEW ls \in Lockspace, StartRules(ls), NEW m \in Nodes
    PROVE  StartRules(set_fs_notified(ls, m))
  <1> DEFINE mid == [ls EXCEPT !.fs_notified = @ \cup {m}, !.unacked = @ \ {m}]
  <1>1. /\ mid.changes = ls.changes /\ mid.started_change = ls.started_change
        /\ mid.check_fencing = ls.check_fencing /\ mid.check_quorum = ls.check_quorum
        /\ mid.check_fs = ls.check_fs /\ mid.fs_registered = ls.fs_registered
        /\ mid.kernel_stopped = ls.kernel_stopped /\ mid.kernel_members = ls.kernel_members
        /\ mid.stale = ls.stale /\ mid.configfs_failed = ls.configfs_failed
        /\ mid.fs_notified = ls.fs_notified \cup {m} /\ mid.unacked = ls.unacked \ {m}
    BY DEF Lockspace
  <1> HIDE DEF mid
  <1>2. Acked(mid)
    BY <1>1 DEF StartRules, Acked
  <1>3. StartRules(mid)
    BY <1>1, <1>2 DEF StartRules, Disjoint, NothingWaitsForDisabled, Clean, Started, Sent,
                      Outstanding
  <1> QED BY <1>3 DEF set_fs_notified, mid

\* confchg_cb, up to apply_changes, preserves type and start rules: it stops the kernel.
LEMMA ConfchgRules ==
    ASSUME NEW self \in Nodes, NEW ls \in Lockspace, StartRules(ls), NEW cc \in Confchg
    PROVE  /\ confchg_cb(self, ls, cc) \in Lockspace
           /\ StartRules(confchg_cb(self, ls, cc))
  <1> DEFINE added == add_change(self, ls, cc)
             new == confchg_cb(self, ls, cc)
             cg == NewChange(cc)
  <1>1. added \in Lockspace /\ new \in Lockspace
    BY AddChangeType, StopType DEF confchg_cb
  <1>2. /\ new.changes = <<cg>> \o ls.changes
        /\ new.check_fencing = ls.check_fencing \cup NeedFencing(ls, cc)
        /\ new.check_quorum = ls.check_quorum \cup NeedQuorum(ls, cc)
        /\ new.check_fs = ls.check_fs \cup NeedFs(ls, cc)
        /\ new.fs_registered = ls.fs_registered
        /\ new.kernel_stopped
        /\ new.stale = ls.stale \cup (cc.left \cap ls.kernel_members)
        /\ new.configfs_failed = ls.configfs_failed
        /\ new.fs_notified = ls.fs_notified
        /\ new.unacked = ls.unacked \cup NeedFs(ls, cc)
    BY <1>1 DEF confchg_cb, stop_kernel, add_change, Lockspace
  <1>3. /\ cg.members \cap cg.removed = {} /\ cg.removed = cc.left
        /\ cg.state = "conditions"
    BY DEF NewChange, Confchg
  <1>4. /\ Len(new.changes) = Len(ls.changes) + 1
        /\ Len(ls.changes) \in Nat
        /\ new.changes[1] = cg
        /\ \A i \in 1 .. Len(ls.changes) : new.changes[i + 1] = ls.changes[i]
        /\ \A i \in 1 .. Len(new.changes) :
              new.changes[i] = cg \/ \E j \in 1 .. Len(ls.changes) : new.changes[i] = ls.changes[j]
    <2>1. ls.changes \in Seq(Change) /\ cg \in Change
      BY NewChangeType DEF Lockspace
    <2> HIDE DEF cg, new
    <2>2. /\ Len(new.changes) = Len(ls.changes) + 1 /\ Len(ls.changes) \in Nat
          /\ new.changes[1] = cg
          /\ \A i \in 1 .. Len(ls.changes) : new.changes[i + 1] = ls.changes[i]
      BY <1>2, <2>1, SMT
    <2>3. ASSUME NEW i \in 1 .. Len(new.changes)
          PROVE  new.changes[i] = cg \/ \E j \in 1 .. Len(ls.changes) : new.changes[i] = ls.changes[j]
      <3>1. CASE i = 1
        BY <2>2, <3>1
      <3>2. CASE i # 1
        <4>1. i - 1 \in 1 .. Len(ls.changes) /\ (i - 1) + 1 = i
          BY <2>2, <3>2, SMT
        <4> QED BY <2>2, <4>1
      <3> QED BY <3>1, <3>2
    <2> QED BY <2>2, <2>3
  <1> HIDE DEF new, cg
  <1>5. Disjoint(new)
    BY <1>3, <1>4 DEF Disjoint, StartRules
  <1>6. NothingWaitsForDisabled(new)
    BY <1>2 DEF NothingWaitsForDisabled, StartRules, NeedFencing, NeedQuorum, NeedFs
  <1>7. ~Sent(new) /\ Started(new)
    BY <1>2, <1>3, <1>4 DEF Sent, Started
  <1>8. ~new.configfs_failed => Clean(new)
    <2> SUFFICES ASSUME ~new.configfs_failed, NEW m \in new.stale
                 PROVE  \E i \in 1 .. Len(new.changes) : m \in new.changes[i].removed
      BY <1>2 DEF Clean
    <2>1. Clean(ls)
      BY <1>2 DEF StartRules
    <2>2. CASE m \in cc.left
      BY <1>3, <1>4, <2>2, SMT
    <2>3. CASE m \in ls.stale
      <3>1. PICK i \in 1 .. Len(ls.changes) : m \in ls.changes[i].removed
        BY <2>1, <2>3 DEF Clean
      <3>2. i + 1 \in 1 .. Len(new.changes)
        BY <1>4, SMT
      <3> QED BY <1>4, <3>1, <3>2
    <2> QED BY <1>2, <2>2, <2>3
  <1>9. Acked(new)
    BY <1>2 DEF StartRules, Acked
  <1>10. StartRules(new)
    BY <1>2, <1>5, <1>6, <1>7, <1>8, <1>9 DEF StartRules
  <1> QED BY <1>1, <1>10 DEF new

\* receive_start preserves the start rules: it only adds to start and have of a change.
LEMMA ReceiveStartRules ==
    ASSUME NEW self \in Nodes, NEW ls \in Lockspace, StartRules(ls),
           NEW msg \in Message, NEW clock \in Nat
    PROVE  StartRules(receive_start(self, ls, msg, clock))
  <1> DEFINE new == receive_start(self, ls, msg, clock)
             i == find_change(self, ls, msg)
             cg == SetHave(ls.changes[i], msg)
  <1>1. CASE Matches(self, ls, msg) = {}
    BY <1>1 DEF receive_start
  <1>2. CASE Matches(self, ls, msg) # {}
    <2>1. i \in 1 .. Len(ls.changes) /\ ls.changes \in Seq(Change) /\ ls.changes[i] \in Change
      BY <1>2, FindChange, SMT DEF Lockspace
    <2>2. PICK c : /\ c \in {cg, [cg EXCEPT !.start = @ \cup {msg.from}]}
                   /\ new.changes = [ls.changes EXCEPT ![i] = c]
      BY <1>2 DEF receive_start, Lockspace
    <2>3. /\ c.members = ls.changes[i].members /\ c.removed = ls.changes[i].removed
          /\ c.state = ls.changes[i].state
      <3> HIDE DEF i
      <3> QED BY <2>1, <2>2 DEF SetHave, Change
    <2>4. /\ new.started_change = ls.started_change
          /\ new.check_fencing = ls.check_fencing /\ new.check_quorum = ls.check_quorum
          /\ new.check_fs = ls.check_fs /\ new.fs_registered = ls.fs_registered
          /\ new.kernel_stopped = ls.kernel_stopped /\ new.kernel_members = ls.kernel_members
          /\ new.stale = ls.stale /\ new.configfs_failed = ls.configfs_failed
          /\ new.fs_notified = ls.fs_notified /\ new.unacked = ls.unacked
      BY <1>2 DEF receive_start, Lockspace
    <2> HIDE DEF new, i, cg
    <2>5. /\ Len(new.changes) = Len(ls.changes) /\ new.changes # <<>>
          /\ \A j \in 1 .. Len(ls.changes) :
                /\ new.changes[j].members = ls.changes[j].members
                /\ new.changes[j].removed = ls.changes[j].removed
                /\ new.changes[j].state = ls.changes[j].state
      <3>1. \A j \in 1 .. Len(ls.changes) :
               new.changes[j] = IF j = i THEN c ELSE ls.changes[j]
        BY <2>1, <2>2, SMT
      <3>2. Len(new.changes) = Len(ls.changes) /\ new.changes # <<>>
        BY <2>1, <2>2, SMT
      <3> QED BY <2>3, <3>1, <3>2
    <2>6. ls.changes # <<>> /\ 1 \in 1 .. Len(ls.changes)
      BY <2>1, SMT
    <2>7. Disjoint(new) /\ NothingWaitsForDisabled(new) /\ Acked(new)
      BY <2>4, <2>5 DEF StartRules, Disjoint, NothingWaitsForDisabled, Acked
    <2>8. (Sent(new) <=> Sent(ls)) /\ Outstanding(new) = Outstanding(ls)
      BY <2>4, <2>5, <2>6 DEF Sent, Outstanding
    <2>9. Started(new)
      BY <2>4, <2>6 DEF StartRules, Started
    <2>10. ~new.configfs_failed => Clean(new)
      BY <2>4, <2>5 DEF StartRules, Clean
    <2>11. StartRules(new)
      BY <2>4, <2>7, <2>8, <2>9, <2>10 DEF StartRules
    <2> QED BY <2>11 DEF new
  <1> QED BY <1>1, <1>2

\* deliver_cb, up to apply_changes, preserves type and start rules.
LEMMA DeliverRules ==
    ASSUME NEW self \in Nodes, NEW ls \in Lockspace, StartRules(ls),
           NEW msg \in Message, NEW clock \in Nat
    PROVE  /\ deliver_cb(self, ls, msg, clock) \in Lockspace
           /\ StartRules(deliver_cb(self, ls, msg, clock))
  <1>1. SameCore(ls, receive_plocks_stored(self, ls, msg))
    BY DEF receive_plocks_stored, Lockspace, SameCore
  <1>2. StartRules(receive_plocks_stored(self, ls, msg))
    BY <1>1, CoreRules
  <1> QED BY <1>2, ReceiveStartType, ReceiveStartRules, StoredType DEF deliver_cb

\* b has the fields of a, and waits for no more nodes than a does.
Frame(b, a) ==
    /\ b.changes = a.changes /\ b.started_change = a.started_change
    /\ b.fs_registered = a.fs_registered /\ b.kernel_stopped = a.kernel_stopped
    /\ b.kernel_members = a.kernel_members /\ b.stale = a.stale
    /\ b.configfs_failed = a.configfs_failed
    /\ b.check_fencing \subseteq a.check_fencing
    /\ b.check_quorum \subseteq a.check_quorum
    /\ b.check_fs \subseteq a.check_fs
    /\ b.fs_notified = a.fs_notified /\ b.unacked = a.unacked
    /\ a.check_fs \subseteq b.check_fs \cup b.fs_notified

\* wait_conditions_done lets the newest change go on only when nothing is outstanding.
LEMMA ConditionsRules ==
    ASSUME NEW self \in Nodes, NEW ls \in Lockspace, StartRules(ls),
           NEW flags \in Poll, NEW env \in Env,
           ls.changes # <<>>, ls.changes[1].state = "conditions",
           NEW new, new = ApplyConditions(self, ls, flags, env).ls
    PROVE  StartRules(new)
  <1> DEFINE after == AfterFs(ls, env)
             done == wait_conditions_done(ls, env)
  <1>1. /\ AfterFencing(ls, env) \in Lockspace /\ AfterQuorum(ls, env) \in Lockspace
        /\ after \in Lockspace
    BY FencingType, QuorumType, ConditionsType
  <1>2. Frame(AfterFencing(ls, env), ls)
    BY DEF AfterFencing, Lockspace, Frame
  <1>3. /\ Frame(AfterQuorum(ls, env), AfterFencing(ls, env))
        /\ AfterQuorum(ls, env).check_fencing = AfterFencing(ls, env).check_fencing
    BY <1>1 DEF AfterQuorum, Lockspace, Frame
  <1>4. /\ Frame(after, AfterQuorum(ls, env))
        /\ after.check_fencing = AfterQuorum(ls, env).check_fencing
        /\ after.check_quorum = AfterQuorum(ls, env).check_quorum
    <2>1. AfterFencing(ls, env).fs_notified = ls.fs_notified
      BY <1>2 DEF Frame
    <2>2. AfterQuorum(ls, env).fs_notified = ls.fs_notified
      BY <1>3, <2>1 DEF Frame
    <2> QED BY <1>1, <2>2, SMT DEF AfterFs, Lockspace, Frame
  <1>5. Frame(after, ls)
    BY <1>2, <1>3, <1>4 DEF Frame
  <1>6. NothingWaitsForDisabled(after)
    BY <1>5 DEF NothingWaitsForDisabled, StartRules, Frame
  <1>7. done => Outstanding(after) = {}
    <2> SUFFICES ASSUME done PROVE Outstanding(after) = {}
      OBVIOUS
    <2>1. after.check_fencing = {}
      BY <1>3, <1>4, <1>6 DEF wait_conditions_done, check_fencing_done, NothingWaitsForDisabled
    <2>2. after.check_quorum = {}
      BY <1>4, <1>6 DEF wait_conditions_done, check_quorum_done, NothingWaitsForDisabled
    <2>3. after.check_fs = {}
      BY <1>5, <1>6 DEF wait_conditions_done, check_fs_done, NothingWaitsForDisabled, Frame
    <2> QED BY <2>1, <2>2, <2>3 DEF Outstanding
  <1>8. ls.kernel_stopped
    BY DEF StartRules, Started
  <1>9. StartRules(after)
    <2>1. ~Sent(after)
      BY <1>5 DEF Sent, Frame
    <2>2. Acked(after)
      BY <1>5 DEF StartRules, Acked, Frame
    <2> QED BY <1>5, <1>6, <1>8, <2>1, <2>2 DEF StartRules, Disjoint, Started, Clean, Frame
  <1>10. CASE ~done
    BY <1>9, <1>10 DEF ApplyConditions
  <1>11. CASE done
    <2> DEFINE c == [ls.changes[1] EXCEPT !.state = "messages"]
    <2>1. ls.changes \in Seq(Change) /\ ls.changes[1] \in Change /\ 1 \in 1 .. Len(ls.changes)
      BY SMT DEF Lockspace
    <2>2. c.members = ls.changes[1].members /\ c.removed = ls.changes[1].removed
      BY <2>1 DEF Change
    <2>3. /\ new.changes = [ls.changes EXCEPT ![1] = c]
          /\ new.check_fencing = after.check_fencing /\ new.check_quorum = after.check_quorum
          /\ new.check_fs = after.check_fs /\ new.fs_registered = after.fs_registered
          /\ new.kernel_stopped = after.kernel_stopped /\ new.stale = after.stale
          /\ new.configfs_failed = after.configfs_failed
          /\ new.fs_notified = after.fs_notified /\ new.unacked = after.unacked
      <3>1. new = [after EXCEPT !.changes[1].state = "messages"]
        BY <1>11 DEF ApplyConditions
      <3>2. after.changes = ls.changes
        BY <1>5 DEF Frame
      <3> HIDE DEF after
      <3> QED BY <1>1, <3>1, <3>2 DEF Lockspace
    <2> HIDE DEF c
    <2>4. /\ Len(new.changes) = Len(ls.changes)
          /\ \A j \in 1 .. Len(ls.changes) :
                /\ new.changes[j].members = ls.changes[j].members
                /\ new.changes[j].removed = ls.changes[j].removed
      <3>1. /\ Len(new.changes) = Len(ls.changes)
            /\ \A j \in 1 .. Len(ls.changes) :
                  new.changes[j] = IF j = 1 THEN c ELSE ls.changes[j]
        BY <2>1, <2>3, SMT
      <3> QED BY <2>2, <3>1
    <2>5. Disjoint(new)
      BY <2>4 DEF StartRules, Disjoint
    <2>6. NothingWaitsForDisabled(new) /\ Outstanding(new) = {} /\ Acked(new)
      BY <1>6, <1>7, <1>9, <1>11, <2>3 DEF NothingWaitsForDisabled, Outstanding, StartRules, Acked
    <2>7. new.kernel_stopped
      BY <1>5, <1>8, <2>3 DEF Frame
    <2>8. ~new.configfs_failed => Clean(new)
      <3>1. new.stale = ls.stale /\ new.configfs_failed = ls.configfs_failed
        BY <1>5, <2>3 DEF Frame
      <3> QED BY <1>8, <2>4, <2>7, <3>1 DEF StartRules, Clean
    <2> QED BY <2>5, <2>6, <2>7, <2>8 DEF StartRules, Started
  <1> QED BY <1>10, <1>11

\* The directories of a lockspace that starts without a failed renewal.
LEMMA RenewClean ==
    ASSUME NEW ls \in Lockspace, StartRules(ls), ls.changes # <<>>,
           ~ls.configfs_failed, RenewError(ls) = {}
    PROVE  /\ set_configfs_members(ls).kernel_members = ls.changes[1].members
           /\ set_configfs_members(ls).stale = {}
  <1> DEFINE new == ls.changes[1].members
  <1>1. BeforeError(ls) = new
    BY DEF BeforeError
  <1>2. ls.kernel_stopped /\ Clean(ls) /\ new \cap ls.changes[1].removed = {}
    <2>1. 1 \in 1 .. Len(ls.changes)
      BY SMT DEF Lockspace
    <2> QED BY <2>1 DEF StartRules, Started, Disjoint
  <1>3. ls.stale \cap new \subseteq format_renew_ids(ls)
    <2> SUFFICES ASSUME NEW m \in ls.stale, m \in new
                 PROVE  m \in format_renew_ids(ls)
      OBVIOUS
    <2>1. PICK i \in 1 .. Len(ls.changes) : m \in ls.changes[i].removed
      BY <1>2 DEF Clean
    <2>2. i # 1
      BY <1>2, <2>1
    <2>3. i \in 2 .. Len(ls.changes)
      BY <2>2, SMT DEF Lockspace
    <2> QED BY <2>1, <2>3 DEF format_renew_ids
  <1>4. /\ set_configfs_members(ls).kernel_members
              = (ls.kernel_members \cap new) \cup BeforeError(ls)
        /\ set_configfs_members(ls).stale
              = (ls.stale \cap new) \ (format_renew_ids(ls) \cap BeforeError(ls))
    BY DEF set_configfs_members, Lockspace
  <1> QED BY <1>1, <1>3, <1>4

\* wait_messages_done lets the kernel start with the messages of all members.
LEMMA MessagesRules ==
    ASSUME NEW self \in Nodes, NEW ls \in Lockspace, StartRules(ls), NEW flags \in Poll,
           ls.changes # <<>>, ls.changes[1].state = "messages",
           NEW new, new = ApplyMessages(self, ls, flags).ls
    PROVE  StartRules(new)
  <1>1. CASE ~wait_messages_done(ls)
    BY <1>1 DEF ApplyMessages
  <1>2. CASE wait_messages_done(ls)
    <2> DEFINE conf == set_configfs_members(ls)
               started == start_kernel(ls)
               prep == prepare_plocks(self, started)
    <2>1. ls.kernel_stopped /\ Outstanding(ls) = {}
      BY DEF StartRules, Started, Sent
    <2>2. started \in Lockspace
      BY StartKernelType
    <2>3. /\ started.changes = ls.changes /\ ~started.kernel_stopped
          /\ started.check_fencing = ls.check_fencing /\ started.check_quorum = ls.check_quorum
          /\ started.check_fs = ls.check_fs /\ started.fs_registered = ls.fs_registered
          /\ started.kernel_members = conf.kernel_members /\ started.stale = conf.stale
          /\ started.configfs_failed = (ls.configfs_failed \/ RenewError(ls) # {})
          /\ started.fs_notified = ls.fs_notified /\ started.unacked = ls.unacked
      BY <2>1 DEF start_kernel, set_configfs_members, Lockspace
    <2>4. prep.ls \in Lockspace /\ SameCore(prep.ls, started)
      <3> HIDE DEF started
      <3> QED BY <2>2, <2>3, PlocksType
    <2>5. new = cleanup_changes(prep.ls)
      BY <1>2 DEF ApplyMessages
    <2> HIDE DEF conf, started, prep
    <2>6. /\ new.changes = <<>> /\ new.started_change = ls.changes[1]
          /\ ~new.kernel_stopped
          /\ new.check_fencing = ls.check_fencing /\ new.check_quorum = ls.check_quorum
          /\ new.check_fs = ls.check_fs
          /\ new.kernel_members = conf.kernel_members /\ new.stale = conf.stale
          /\ new.configfs_failed = (ls.configfs_failed \/ RenewError(ls) # {})
          /\ new.fs_notified = ls.fs_notified /\ new.unacked = ls.unacked
      BY <2>3, <2>4, <2>5, SMT DEF cleanup_changes, SameCore, Lockspace
    <2>7. Outstanding(new) = {} /\ NothingWaitsForDisabled(new)
      BY <2>1, <2>6 DEF Outstanding, NothingWaitsForDisabled
    <2>8. Started(new)
      BY <1>2, <2>6 DEF Started, wait_messages_done
    <2>9. ~new.configfs_failed => Clean(new)
      BY <2>6, RenewClean DEF Clean, conf
    <2>10. Disjoint(new) /\ Acked(new)
      BY <2>6, SMT DEF Disjoint, StartRules, Acked
    <2> QED BY <2>7, <2>8, <2>9, <2>10 DEF StartRules
  <1> QED BY <1>1, <1>2

\* apply_changes returns a lockspace that obeys the start rules.
LEMMA ApplyRules ==
    ASSUME NEW self \in Nodes, NEW ls \in Lockspace, StartRules(ls),
           NEW flags \in Poll, NEW env \in Env,
           NEW r, r = apply_changes(self, ls, flags, env)
    PROVE  StartRules(r.ls)
  <1>1. CASE ls.changes = <<>>
    BY <1>1 DEF apply_changes
  <1>2. CASE ls.changes # <<>> /\ ls.changes[1].state = "conditions"
    BY <1>2, ConditionsRules DEF apply_changes
  <1>3. CASE ls.changes # <<>> /\ ls.changes[1].state # "conditions"
    <2>1. ls.changes[1] \in Change
      BY <1>3, SMT DEF Lockspace
    <2>2. ls.changes[1].state = "messages"
      BY <1>3, <2>1 DEF Change
    <2> QED BY <1>3, <2>2, MessagesRules DEF apply_changes
  <1> QED BY <1>1, <1>2, <1>3

-----------------------------------------------------------------------------
(***************************************************************************)
(* What the functions do with a node m that a node was parted from: as     *)
(* long as m's start messages carry a nonzero started_count, m is not      *)
(* counted for the newest change, and the kernel does not run with m.      *)
(***************************************************************************)

\* m is a member of the newest change.
Listed(ls, m) == ls.changes # <<>> /\ m \in ls.changes[1].members

Apart(ls, m) ==
    /\ Listed(ls, m) => is_added(ls, m)
    /\ ls.changes # <<>> => m \notin ls.changes[1].start
    /\ Running(ls) => m \notin ls.started_change.members

\* b has the changes of a, but for their state, and the kernel of a.
SameChanges(a, b) ==
    /\ Len(b.changes) = Len(a.changes)
    /\ \A i \in 1 .. Len(a.changes) :
          /\ b.changes[i].members = a.changes[i].members
          /\ b.changes[i].joined = a.changes[i].joined
          /\ b.changes[i].start = a.changes[i].start
    /\ b.kernel_stopped = a.kernel_stopped /\ b.started_change = a.started_change

\* b is a after its newest change was started.
StartedFrom(a, b) ==
    /\ a.changes # <<>> /\ b.changes = <<>> /\ b.started_change = a.changes[1]
    /\ a.changes[1].members \subseteq a.changes[1].start

\* The messages in out come from self and carry the started_count of ls.
SentBy(self, ls, out) ==
    \A i \in DOMAIN out : /\ out[i].type \in {"start", "stored"} /\ out[i].from = self
                          /\ out[i].started_count = ls.started_count

\* The started_count of a lockspace that was started never returns to zero.
LEMMA CountNotZero ==
    ASSUME NEW c \in 0 .. CountMod - 1
    PROVE  NextCount(c) # 0
  BY CountAssumption, SMT DEF NextCount

\* The change list of one record is kept by the other: so is being apart.
LEMMA SameApart ==
    ASSUME NEW a \in Lockspace, NEW b \in Lockspace, NEW m, SameChanges(a, b),
           b.present = a.present
    PROVE  (Listed(a, m) <=> Listed(b, m)) /\ (Apart(a, m) => Apart(b, m))
  <1>1. a.changes \in Seq(Change) /\ b.changes \in Seq(Change)
    BY DEF Lockspace
  <1>2. (a.changes # <<>> <=> b.changes # <<>>) /\ (a.changes # <<>> => 1 \in 1 .. Len(a.changes))
    BY <1>1, SMT DEF SameChanges
  <1>3. Listed(a, m) <=> Listed(b, m)
    BY <1>2 DEF SameChanges, Listed
  <1>4. is_added(a, m) => is_added(b, m)
    BY DEF SameChanges, is_added
  <1> QED BY <1>2, <1>3, <1>4 DEF Apart, SameChanges, Running

\* A start needs the start messages of all members: m is not one of them.
LEMMA StartApart ==
    ASSUME NEW a \in Lockspace, NEW b \in Lockspace, NEW m, StartedFrom(a, b), Apart(a, m)
    PROVE  ~Listed(a, m) /\ ~Listed(b, m) /\ Apart(b, m)
  BY DEF StartedFrom, Apart, Listed

\* The checks of wait_conditions_done leave the change list alone.
LEMMA ConditionsKeep ==
    ASSUME NEW ls \in Lockspace, NEW env \in Env
    PROVE  LET after == AfterFs(ls, env)
           IN  /\ after.changes = ls.changes /\ after.started_change = ls.started_change
               /\ after.kernel_stopped = ls.kernel_stopped
               /\ after.present = ls.present /\ after.leaving = ls.leaving
               /\ after.started_count = ls.started_count
  <1> DEFINE Same(a, b) ==
        /\ a.changes = b.changes /\ a.started_change = b.started_change
        /\ a.kernel_stopped = b.kernel_stopped
        /\ a.present = b.present /\ a.leaving = b.leaving
        /\ a.started_count = b.started_count
  <1>1. AfterFencing(ls, env) \in Lockspace /\ AfterQuorum(ls, env) \in Lockspace
    BY FencingType, QuorumType
  <1>2. Same(AfterFencing(ls, env), ls)
    BY DEF AfterFencing, Lockspace
  <1>3. Same(AfterQuorum(ls, env), AfterFencing(ls, env))
    BY <1>1 DEF AfterQuorum, Lockspace
  <1>4. Same(AfterFs(ls, env), AfterQuorum(ls, env))
    BY <1>1 DEF AfterFs, Lockspace
  <1> QED BY <1>2, <1>3, <1>4

\* prepare_plocks leaves the rest of the record alone, too.
LEMMA PlocksKeep ==
    ASSUME NEW self \in Nodes, NEW ls \in Lockspace, NEW r, r = prepare_plocks(self, ls)
    PROVE  /\ r.ls.present = ls.present /\ r.ls.leaving = ls.leaving
           /\ r.ls.started_count = ls.started_count
  BY DEF prepare_plocks, Lockspace

\* apply_changes in state CGST_WAIT_CONDITIONS.
LEMMA ConditionsEffect ==
    ASSUME NEW self \in Nodes, NEW ls \in Lockspace, ls.changes # <<>>,
           NEW flags \in Poll, NEW env \in Env,
           NEW r, r = ApplyConditions(self, ls, flags, env)
    PROVE  /\ SameChanges(ls, r.ls) /\ SentBy(self, ls, r.out)
           /\ r.ls.present = ls.present /\ r.ls.leaving = ls.leaving
           /\ r.ls.started_count = ls.started_count
  <1> DEFINE after == AfterFs(ls, env)
             c == [ls.changes[1] EXCEPT !.state = "messages"]
  <1>1. /\ after \in Lockspace
        /\ after.changes = ls.changes /\ after.started_change = ls.started_change
        /\ after.kernel_stopped = ls.kernel_stopped
        /\ after.present = ls.present /\ after.leaving = ls.leaving
        /\ after.started_count = ls.started_count
    BY ConditionsType, ConditionsKeep
  <1>2. ls.changes \in Seq(Change) /\ ls.changes[1] \in Change /\ 1 \in 1 .. Len(ls.changes)
    BY SMT DEF Lockspace
  <1>3. /\ c.members = ls.changes[1].members /\ c.joined = ls.changes[1].joined
        /\ c.start = ls.changes[1].start
    BY <1>2 DEF Change
  <1>4. r.ls \in {after, [after EXCEPT !.changes[1].state = "messages"]}
    BY DEF ApplyConditions
  <1> HIDE DEF after
  <1>5. /\ r.ls.changes \in {ls.changes, [ls.changes EXCEPT ![1] = c]}
        /\ r.ls.started_change = ls.started_change /\ r.ls.kernel_stopped = ls.kernel_stopped
        /\ r.ls.present = ls.present /\ r.ls.leaving = ls.leaving
        /\ r.ls.started_count = ls.started_count
    BY <1>1, <1>4, SMT DEF Lockspace
  <1> HIDE DEF c
  <1>6. SameChanges(ls, r.ls)
    <2>1. CASE r.ls.changes = ls.changes
      BY <1>5, <2>1 DEF SameChanges
    <2>2. CASE r.ls.changes = [ls.changes EXCEPT ![1] = c]
      <3>1. /\ Len(r.ls.changes) = Len(ls.changes)
            /\ \A j \in 1 .. Len(ls.changes) :
                  r.ls.changes[j] = IF j = 1 THEN c ELSE ls.changes[j]
        BY <1>2, <2>2, SMT
      <3> QED BY <1>3, <1>5, <3>1 DEF SameChanges
    <2> QED BY <1>5, <2>1, <2>2
  <1>7. SentBy(self, ls, r.out)
    BY SMT DEF ApplyConditions, SentBy, send_info
  <1> QED BY <1>5, <1>6, <1>7

\* apply_changes in state CGST_WAIT_MESSAGES.
LEMMA MessagesEffect ==
    ASSUME NEW self \in Nodes, NEW ls \in Lockspace, ls.changes # <<>>,
           NEW flags \in Poll, NEW r, r = ApplyMessages(self, ls, flags)
    PROVE  /\ SameChanges(ls, r.ls) \/ StartedFrom(ls, r.ls)
           /\ SentBy(self, ls, r.out)
           /\ r.ls.present = ls.present /\ r.ls.leaving = ls.leaving
           /\ ls.started_count # 0 => r.ls.started_count # 0
  <1>1. CASE ~wait_messages_done(ls)
    BY <1>1, SMT DEF ApplyMessages, SameChanges, SentBy
  <1>2. CASE wait_messages_done(ls)
    <2> DEFINE started == start_kernel(ls)
               prep == prepare_plocks(self, started)
    <2>1. /\ started \in Lockspace /\ started.changes = ls.changes
          /\ started.present = ls.present /\ started.leaving = ls.leaving
          /\ started.started_count = ls.started_count
      <3> DEFINE set == set_configfs_members(ls)
      <3>1. started \in Lockspace /\ set \in Lockspace
        BY ConfigfsType, StartKernelType
      <3>2. /\ set.changes = ls.changes /\ set.present = ls.present
            /\ set.leaving = ls.leaving /\ set.started_count = ls.started_count
        BY DEF set_configfs_members, Lockspace
      <3>3. started = IF ls.kernel_stopped
                      THEN [set EXCEPT !.kernel_stopped = FALSE, !.joining = FALSE] ELSE ls
        BY DEF start_kernel
      <3> HIDE DEF set, started
      <3> QED BY <3>1, <3>2, <3>3 DEF Lockspace
    <2> HIDE DEF started
    <2>2. /\ prep.ls \in Lockspace /\ prep.ls.changes = ls.changes
          /\ prep.ls.present = ls.present /\ prep.ls.leaving = ls.leaving
          /\ prep.ls.started_count = ls.started_count
      <3>1. prep.ls \in Lockspace /\ prep.ls.changes = ls.changes
        BY <2>1, PlocksType DEF SameCore
      <3> QED BY <2>1, <3>1, PlocksKeep
    <2>3. SentBy(self, ls, prep.out)
      BY <2>1, SMT DEF prepare_plocks, SentBy, send_info
    <2>4. r.ls = cleanup_changes(prep.ls) /\ r.out = prep.out
      BY <1>2 DEF ApplyMessages, started
    <2> HIDE DEF prep
    <2>5. /\ r.ls.changes = <<>> /\ r.ls.started_change = ls.changes[1]
          /\ r.ls.present = ls.present /\ r.ls.leaving = ls.leaving
          /\ r.ls.started_count = NextCount(ls.started_count)
      BY <2>2, <2>4, SMT DEF cleanup_changes, Lockspace
    <2>6. r.ls.started_count # 0
      BY <2>5, CountNotZero DEF Lockspace
    <2> QED BY <1>2, <2>3, <2>4, <2>5, <2>6 DEF StartedFrom, wait_messages_done
  <1> QED BY <1>1, <1>2

\* apply_changes keeps the change list or starts its newest change; a message it
\* sends carries the started_count of before.
LEMMA ApplyEffect ==
    ASSUME NEW self \in Nodes, NEW ls \in Lockspace, NEW flags \in Poll, NEW env \in Env,
           NEW r, r = apply_changes(self, ls, flags, env)
    PROVE  /\ SameChanges(ls, r.ls) \/ StartedFrom(ls, r.ls)
           /\ SentBy(self, ls, r.out)
           /\ r.ls.present = ls.present /\ r.ls.leaving = ls.leaving
           /\ ls.started_count # 0 => r.ls.started_count # 0
  <1>1. CASE ls.changes = <<>>
    BY <1>1, SMT DEF apply_changes, SameChanges, SentBy
  <1>2. CASE ls.changes # <<>> /\ ls.changes[1].state = "conditions"
    BY <1>2, ConditionsEffect, SMT DEF apply_changes
  <1>3. CASE ls.changes # <<>> /\ ls.changes[1].state # "conditions"
    BY <1>3, MessagesEffect, SMT DEF apply_changes
  <1> QED BY <1>1, <1>2, <1>3

\* apply_changes keeps m apart.
LEMMA ApplyApart ==
    ASSUME NEW self \in Nodes, NEW ls \in Lockspace, NEW flags \in Poll, NEW env \in Env,
           NEW m, NEW r, r = apply_changes(self, ls, flags, env), Apart(ls, m)
    PROVE  Apart(r.ls, m) /\ (Listed(r.ls, m) <=> Listed(ls, m))
  <1>1. r.ls \in Lockspace
    BY ApplyType
  <1>2. (SameChanges(ls, r.ls) \/ StartedFrom(ls, r.ls)) /\ r.ls.present = ls.present
    BY ApplyEffect, SMT
  <1> QED BY <1>1, <1>2, SameApart, StartApart

\* confchg_cb, up to apply_changes, keeps what it is not about.
LEMMA ConfchgKeep ==
    ASSUME NEW self \in Nodes, NEW ls \in Lockspace, NEW cc \in Confchg,
           NEW new, new = confchg_cb(self, ls, cc)
    PROVE  /\ new.present = ls.present /\ new.leaving = ls.leaving
           /\ new.started_count = ls.started_count
  <1>1. add_change(self, ls, cc) \in Lockspace
    BY AddChangeType
  <1> QED BY <1>1 DEF confchg_cb, stop_kernel, add_change, Lockspace

\* It puts the new change in front and stops the kernel.
LEMMA ConfchgEffect ==
    ASSUME NEW self \in Nodes, NEW ls \in Lockspace, NEW cc \in Confchg,
           NEW new, new = confchg_cb(self, ls, cc)
    PROVE  /\ new.changes = <<NewChange(cc)>> \o ls.changes /\ new.kernel_stopped
  <1>1. add_change(self, ls, cc) \in Lockspace
    BY AddChangeType
  <1> QED BY <1>1 DEF confchg_cb, stop_kernel, add_change, Lockspace

\* The newest change lists the members of the last confchg.
LEMMA ConfchgListed ==
    ASSUME NEW self \in Nodes, NEW ls \in Lockspace, NEW cc \in Confchg,
           NEW new, new = confchg_cb(self, ls, cc), NEW m
    PROVE  Listed(new, m) <=> m \in cc.members
  <1> DEFINE cg == NewChange(cc)
  <1>1. ls.changes \in Seq(Change) /\ cg \in Change /\ cg.members = cc.members
    BY NewChangeType DEF Lockspace, NewChange
  <1>2. new.changes = <<cg>> \o ls.changes
    BY ConfchgEffect
  <1> HIDE DEF cg
  <1>3. new.changes # <<>> /\ new.changes[1] = cg
    BY <1>1, <1>2, SMT
  <1> QED BY <1>1, <1>3 DEF Listed

\* A confchg puts m apart that lists it as left, or that lists it as a member only
\* if it joined or was a member, and apart, before.
LEMMA ConfchgApart ==
    ASSUME NEW self \in Nodes, NEW ls \in Lockspace, NEW cc \in Confchg,
           NEW new, new = confchg_cb(self, ls, cc), NEW m,
           \/ m \in cc.left
           \/ Apart(ls, m) /\ (m \in cc.members => m \in cc.joined \/ Listed(ls, m))
    PROVE  Apart(new, m) /\ (Listed(new, m) <=> m \in cc.members)
  <1> DEFINE cg == NewChange(cc)
  <1>1. ls.changes \in Seq(Change) /\ cg \in Change
    BY NewChangeType DEF Lockspace
  <1>2. new.changes = <<cg>> \o ls.changes /\ new.kernel_stopped
    BY ConfchgEffect
  <1>3. cg.members = cc.members /\ cg.joined = cc.joined /\ cg.start = {}
    BY DEF NewChange
  <1> HIDE DEF cg
  <1>4. /\ new.changes # <<>> /\ new.changes[1] = cg
        /\ Len(new.changes) = Len(ls.changes) + 1 /\ Len(ls.changes) \in Nat
        /\ \A i \in 1 .. Len(ls.changes) : new.changes[i + 1] = ls.changes[i]
    BY <1>1, <1>2, SMT
  <1>5. Listed(new, m) <=> m \in cc.members
    BY <1>3, <1>4 DEF Listed
  <1>6. ASSUME m \in cc.members PROVE is_added(new, m)
    <2>1. CASE m \in cc.joined
      BY <1>3, <1>4, <2>1, SMT DEF is_added
    <2>2. CASE m \notin cc.joined
      <3>1. m \notin cc.left
        BY <1>6 DEF Confchg
      <3>2. is_added(ls, m)
        BY <1>6, <2>2, <3>1 DEF Apart
      <3>3. PICK i \in 1 .. Len(ls.changes) : m \in ls.changes[i].joined
        BY <3>2 DEF is_added
      <3>4. i + 1 \in 1 .. Len(new.changes)
        BY <1>4, SMT
      <3> QED BY <1>4, <3>3, <3>4 DEF is_added
    <2> QED BY <2>1, <2>2
  <1> QED BY <1>2, <1>3, <1>4, <1>5, <1>6 DEF Apart, Running

\* deliver_cb, up to apply_changes, keeps m apart, if a start message of m says that
\* m's lockspace was started before.
LEMMA DeliverApart ==
    ASSUME NEW self \in Nodes, NEW ls \in Lockspace, NEW msg \in Message, NEW clock \in Nat,
           NEW new, new = deliver_cb(self, ls, msg, clock), NEW m, Apart(ls, m),
           msg.type = "start" /\ msg.from = m => msg.started_count # 0
    PROVE  Apart(new, m) /\ (Listed(new, m) <=> Listed(ls, m))
  <1>1. CASE msg.type # "start"
    <2>1. new = receive_plocks_stored(self, ls, msg)
      BY <1>1 DEF deliver_cb
    <2>2. /\ new.changes = ls.changes /\ new.started_change = ls.started_change
          /\ new.present = ls.present /\ new.kernel_stopped = ls.kernel_stopped
      BY <2>1 DEF receive_plocks_stored, Lockspace
    <2> QED BY <2>2 DEF Apart, Listed, is_added, Running
  <1>2. CASE msg.type = "start" /\ Matches(self, ls, msg) = {}
    BY <1>2 DEF deliver_cb, receive_start
  <1>3. CASE msg.type = "start" /\ Matches(self, ls, msg) # {}
    <2> DEFINE i == find_change(self, ls, msg)
               cg == SetHave(ls.changes[i], msg)
               full == [cg EXCEPT !.start = @ \cup {msg.from}]
    <2>1. new = receive_start(self, ls, msg, clock)
      BY <1>3 DEF deliver_cb
    <2>2. /\ i \in 1 .. Len(ls.changes) /\ match_change(self, ls.changes[i], msg)
          /\ ls.changes \in Seq(Change) /\ ls.changes[i] \in Change
      BY <1>3, FindChange, SMT DEF Lockspace
    <2>3. /\ new.started_change = ls.started_change
          /\ new.present = ls.present /\ new.kernel_stopped = ls.kernel_stopped
          /\ \/ /\ is_added(ls, msg.from) /\ msg.started_count # 0
                /\ new.changes = [ls.changes EXCEPT ![i] = cg]
             \/ /\ ~(is_added(ls, msg.from) /\ msg.started_count # 0)
                /\ new.changes = [ls.changes EXCEPT ![i] = full]
      BY <1>3, <2>1 DEF receive_start, Lockspace
    <2>4. /\ cg.members = ls.changes[i].members /\ full.members = ls.changes[i].members
          /\ cg.joined = ls.changes[i].joined /\ full.joined = ls.changes[i].joined
          /\ cg.start = ls.changes[i].start
          /\ full.start = ls.changes[i].start \cup {msg.from}
      <3> HIDE DEF i
      <3> QED BY <2>2 DEF SetHave, Change
    <2> HIDE DEF i, cg, full
    <2>5. PICK c \in {cg, full} : new.changes = [ls.changes EXCEPT ![i] = c]
      BY <2>3
    <2>6. /\ Len(new.changes) = Len(ls.changes) /\ ls.changes # <<>> /\ new.changes # <<>>
          /\ 1 \in 1 .. Len(ls.changes)
          /\ \A j \in 1 .. Len(ls.changes) :
                new.changes[j] = IF j = i THEN c ELSE ls.changes[j]
      BY <2>2, <2>5, SMT
    <2>7. \A j \in 1 .. Len(ls.changes) :
             /\ new.changes[j].members = ls.changes[j].members
             /\ new.changes[j].joined = ls.changes[j].joined
      BY <2>4, <2>6
    <2>8. (Listed(new, m) <=> Listed(ls, m)) /\ (is_added(new, m) <=> is_added(ls, m))
      BY <2>6, <2>7 DEF Listed, is_added
    <2>9. m \notin new.changes[1].start
      <3>1. m \notin ls.changes[1].start
        BY <2>6 DEF Apart
      <3>2. CASE i # 1
        BY <2>6, <3>1, <3>2
      <3>3. CASE i = 1 /\ msg.from # m
        BY <2>4, <2>6, <3>1, <3>3, SMT
      <3>4. CASE i = 1 /\ msg.from = m
        <4>1. is_added(ls, m) /\ msg.started_count # 0
          BY <1>3, <2>2, <2>6, <3>4 DEF match_change, Apart, Listed
        <4>2. new.changes = [ls.changes EXCEPT ![i] = cg]
          BY <2>3, <3>4, <4>1
        <4>3. new.changes[1] = cg
          BY <2>2, <3>4, <4>2, SMT
        <4> QED BY <2>4, <3>1, <3>4, <4>3
      <3> QED BY <3>2, <3>3, <3>4
    <2> QED BY <2>3, <2>6, <2>8, <2>9 DEF Apart, Running
  <1> QED BY <1>1, <1>2, <1>3

\* deliver_cb, up to apply_changes, keeps what it is not about.
LEMMA DeliverKeep ==
    ASSUME NEW self \in Nodes, NEW ls \in Lockspace, NEW msg \in Message, NEW clock \in Nat,
           NEW new, new = deliver_cb(self, ls, msg, clock)
    PROVE  /\ new.present = ls.present /\ new.leaving = ls.leaving
           /\ new.started_count = ls.started_count
  <1>1. LET stored == receive_plocks_stored(self, ls, msg)
        IN  /\ stored.present = ls.present /\ stored.leaving = ls.leaving
            /\ stored.started_count = ls.started_count
    BY DEF receive_plocks_stored, Lockspace
  <1>2. LET start == receive_start(self, ls, msg, clock)
        IN  /\ start.present = ls.present /\ start.leaving = ls.leaving
            /\ start.started_count = ls.started_count
    BY DEF receive_start, Lockspace
  <1> QED BY <1>1, <1>2 DEF deliver_cb

-----------------------------------------------------------------------------
(***************************************************************************)
(* What the functions do with the list of changes and the start messages:  *)
(* which change a start message is sent for, and for which one it counts.  *)
(***************************************************************************)

\* b has the changes of a, but for their state and the start messages.
SameList(a, b) ==
    /\ Len(b.changes) = Len(a.changes)
    /\ \A i \in 1 .. Len(a.changes) :
          /\ b.changes[i].members = a.changes[i].members
          /\ b.changes[i].view = a.changes[i].view
          /\ Counts(b.changes[i]) = Counts(a.changes[i])
    /\ b.started_change = a.started_change
    /\ b.present = a.present /\ b.leaving = a.leaving

SameStarts(a, b) ==
    \A i \in 1 .. Len(a.changes) : b.changes[i].start = a.changes[i].start

SameStates(a, b) ==
    \A i \in 1 .. Len(a.changes) : b.changes[i].state = a.changes[i].state

NoStart(out) == \A i \in DOMAIN out : out[i].type # "start"

\* What apply_changes does: nothing that matters here, send the start message of the
\* newest change, or start the newest change.
Waits(a, b, out) == SameList(a, b) /\ SameStarts(a, b) /\ SameStates(a, b) /\ NoStart(out)

SendsStart(self, a, b, out) ==
    /\ SameList(a, b) /\ SameStarts(a, b)
    /\ a.changes # <<>> /\ a.changes[1].state = "conditions" /\ b.changes[1].state = "messages"
    /\ out = <<send_info(self, a, "start")>>

StartsNewest(a, b, out) ==
    StartedFrom(a, b) /\ NoStart(out) /\ b.present = a.present /\ b.leaving = a.leaving

\* The state of a change is not in its counts.
LEMMA StateCounts ==
    ASSUME NEW c \in Change, NEW d, d = [c EXCEPT !.state = "messages"]
    PROVE  /\ d.members = c.members /\ d.view = c.view /\ Counts(d) = Counts(c)
           /\ d.start = c.start /\ d.state = "messages"
  <1>1. /\ d.members = c.members /\ d.joined = c.joined /\ d.removed = c.removed
        /\ d.failed = c.failed /\ d.view = c.view /\ d.start = c.start /\ d.state = "messages"
    BY DEF Change
  <1> QED BY <1>1 DEF Counts

\* apply_changes sends a start message for the newest change, and only when it leaves
\* CGST_WAIT_CONDITIONS.
LEMMA ConditionsSend ==
    ASSUME NEW self \in Nodes, NEW ls \in Lockspace, ls.changes # <<>>,
           ls.changes[1].state = "conditions", NEW flags \in Poll, NEW env \in Env,
           NEW r, r = ApplyConditions(self, ls, flags, env)
    PROVE  Waits(ls, r.ls, r.out) \/ SendsStart(self, ls, r.ls, r.out)
  <1> DEFINE after == AfterFs(ls, env)
             c == [ls.changes[1] EXCEPT !.state = "messages"]
  <1>1. /\ after \in Lockspace
        /\ after.changes = ls.changes /\ after.started_change = ls.started_change
        /\ after.present = ls.present /\ after.leaving = ls.leaving
    BY ConditionsType, ConditionsKeep
  <1>2. ls.changes \in Seq(Change) /\ ls.changes[1] \in Change /\ 1 \in 1 .. Len(ls.changes)
    BY SMT DEF Lockspace
  <1>3. /\ c.members = ls.changes[1].members /\ c.view = ls.changes[1].view
        /\ Counts(c) = Counts(ls.changes[1])
        /\ c.start = ls.changes[1].start /\ c.state = "messages"
    BY <1>2, StateCounts, SMT
  <1>4. \/ r.ls = after /\ r.out = <<>>
        \/ r.ls = [after EXCEPT !.changes[1].state = "messages"]
             /\ r.out = <<send_info(self, ls, "start")>>
    BY DEF ApplyConditions
  <1> HIDE DEF after
  <1>5. CASE r.ls = after /\ r.out = <<>>
    <2>1. NoStart(<<>>)
      BY SMT DEF NoStart
    <2> QED BY <1>1, <1>5, <2>1 DEF Waits, SameList, SameStarts, SameStates
  <1>6. CASE r.ls = [after EXCEPT !.changes[1].state = "messages"]
               /\ r.out = <<send_info(self, ls, "start")>>
    <2>1. /\ r.ls.changes = [ls.changes EXCEPT ![1] = c]
          /\ r.ls.started_change = ls.started_change
          /\ r.ls.present = ls.present /\ r.ls.leaving = ls.leaving
      BY <1>1, <1>6, SMT DEF Lockspace
    <2> HIDE DEF c
    <2>2. /\ Len(r.ls.changes) = Len(ls.changes)
          /\ \A j \in 1 .. Len(ls.changes) :
                r.ls.changes[j] = IF j = 1 THEN c ELSE ls.changes[j]
      BY <1>2, <2>1, SMT
    <2>3. SameList(ls, r.ls) /\ SameStarts(ls, r.ls)
      BY <1>3, <2>1, <2>2 DEF SameList, SameStarts
    <2>4. r.ls.changes[1].state = "messages"
      BY <1>2, <1>3, <2>2
    <2> QED BY <1>6, <2>3, <2>4 DEF SendsStart
  <1> QED BY <1>4, <1>5, <1>6

\* In CGST_WAIT_MESSAGES it sends none.
LEMMA MessagesSend ==
    ASSUME NEW self \in Nodes, NEW ls \in Lockspace, ls.changes # <<>>,
           NEW flags \in Poll, NEW r, r = ApplyMessages(self, ls, flags)
    PROVE  Waits(ls, r.ls, r.out) \/ StartsNewest(ls, r.ls, r.out)
  <1>1. CASE ~wait_messages_done(ls)
    BY <1>1, SMT DEF ApplyMessages, Waits, SameList, SameStarts, SameStates, NoStart
  <1>2. CASE wait_messages_done(ls)
    <2> DEFINE prep == prepare_plocks(self, start_kernel(ls))
    <2>1. /\ r.ls.present = ls.present /\ r.ls.leaving = ls.leaving
      BY MessagesEffect, SMT
    <2>2. r.ls = cleanup_changes(prep.ls) /\ r.out = prep.out
      BY <1>2 DEF ApplyMessages
    <2>3. NoStart(prep.out)
      BY SMT DEF prepare_plocks, send_info, NoStart
    <2>4. StartedFrom(ls, r.ls)
      <3>1. start_kernel(ls) \in Lockspace /\ start_kernel(ls).changes = ls.changes
        <4>1. set_configfs_members(ls) \in Lockspace /\ start_kernel(ls) \in Lockspace
          BY ConfigfsType, StartKernelType
        <4>2. set_configfs_members(ls).changes = ls.changes
          BY DEF set_configfs_members, Lockspace
        <4> QED BY <4>1, <4>2 DEF start_kernel, Lockspace
      <3>2. prep.ls \in Lockspace /\ prep.ls.changes = ls.changes
        BY <3>1, PlocksType DEF SameCore
      <3> HIDE DEF prep
      <3>3. r.ls.changes = <<>> /\ r.ls.started_change = ls.changes[1]
        BY <2>2, <3>2, SMT DEF cleanup_changes, Lockspace
      <3> QED BY <1>2, <3>3 DEF StartedFrom, wait_messages_done
    <2> QED BY <2>1, <2>2, <2>3, <2>4 DEF StartsNewest
  <1> QED BY <1>1, <1>2

\* apply_changes waits, sends a start message, or starts the kernel.
LEMMA ApplySend ==
    ASSUME NEW self \in Nodes, NEW ls \in Lockspace, NEW flags \in Poll, NEW env \in Env,
           NEW r, r = apply_changes(self, ls, flags, env)
    PROVE  \/ Waits(ls, r.ls, r.out) \/ SendsStart(self, ls, r.ls, r.out)
           \/ StartsNewest(ls, r.ls, r.out)
  <1>1. CASE ls.changes = <<>>
    BY <1>1, SMT DEF apply_changes, Waits, SameList, SameStarts, SameStates, NoStart
  <1>2. CASE ls.changes # <<>> /\ ls.changes[1].state = "conditions"
    <2>1. r = ApplyConditions(self, ls, flags, env)
      BY <1>2 DEF apply_changes
    <2> QED BY <1>2, <2>1, ConditionsSend
  <1>3. CASE ls.changes # <<>> /\ ls.changes[1].state # "conditions"
    <2>1. r = ApplyMessages(self, ls, flags)
      BY <1>3 DEF apply_changes
    <2> QED BY <1>3, <2>1, MessagesSend
  <1> QED BY <1>1, <1>2, <1>3

\* confchg_cb puts the change in front of the others.
LEMMA ConfchgList ==
    ASSUME NEW self \in Nodes, NEW ls \in Lockspace, NEW cc \in Confchg,
           NEW new, new = confchg_cb(self, ls, cc)
    PROVE  /\ new \in Lockspace
           /\ new.present = ls.present /\ new.leaving = ls.leaving
           /\ new.started_change = ls.started_change
           /\ Len(new.changes) = Len(ls.changes) + 1
           /\ new.changes[1] = NewChange(cc)
           /\ \A i \in 1 .. Len(ls.changes) : new.changes[i + 1] = ls.changes[i]
           /\ \A i \in 1 .. Len(ls.changes) + 1 : i = 1 \/ (i - 1 \in 1 .. Len(ls.changes) /\ (i - 1) + 1 = i)
  <1>1. add_change(self, ls, cc) \in Lockspace
    BY AddChangeType
  <1>2. new \in Lockspace
    BY <1>1, StopType DEF confchg_cb
  <1>3. new.present = ls.present /\ new.leaving = ls.leaving
    BY ConfchgKeep, SMT
  <1>4. new.changes = <<NewChange(cc)>> \o ls.changes
    BY ConfchgEffect, SMT
  <1>5. new.started_change = ls.started_change
    BY <1>1 DEF confchg_cb, stop_kernel, add_change, Lockspace
  <1>6. ls.changes \in Seq(Change) /\ NewChange(cc) \in Change
    BY NewChangeType DEF Lockspace
  <1>7. /\ Len(new.changes) = Len(ls.changes) + 1
        /\ new.changes[1] = NewChange(cc)
        /\ \A i \in 1 .. Len(ls.changes) : new.changes[i + 1] = ls.changes[i]
        /\ \A i \in 1 .. Len(ls.changes) + 1 : i = 1 \/ (i - 1 \in 1 .. Len(ls.changes) /\ (i - 1) + 1 = i)
    BY <1>4, <1>6, SMT
  <1> QED BY <1>2, <1>3, <1>5, <1>7

\* The only start message new has counted more is msg, not for a newer change than any
\* it matches.
Counted(self, ls, msg, new) ==
    \A i \in 1 .. Len(ls.changes) : \A n \in new.changes[i].start :
        \/ n \in ls.changes[i].start
        \/ /\ msg.type = "start" /\ n = msg.from
           /\ \A k \in 1 .. Len(ls.changes) : match_change(self, ls.changes[k], msg) => k <= i

\* receive_start counts a message, if at all, for the oldest change it matches.
LEMMA DeliverList ==
    ASSUME NEW self \in Nodes, NEW ls \in Lockspace, NEW msg \in Message, NEW clock \in Nat,
           NEW new, new = deliver_cb(self, ls, msg, clock)
    PROVE  /\ new \in Lockspace /\ SameList(ls, new) /\ SameStates(ls, new)
           /\ Counted(self, ls, msg, new)
  <1> USE DEF Counted
  <1>0. ls.changes \in Seq(Change) /\ Len(ls.changes) \in Nat
    BY SMT DEF Lockspace
  <1>1. CASE msg.type # "start"
    <2>1. new = receive_plocks_stored(self, ls, msg)
      BY <1>1 DEF deliver_cb
    <2>2. new \in Lockspace
      BY <2>1, StoredType
    <2>3. /\ new.changes = ls.changes /\ new.started_change = ls.started_change
          /\ new.present = ls.present /\ new.leaving = ls.leaving
      BY <2>1 DEF receive_plocks_stored, Lockspace
    <2> QED BY <2>2, <2>3 DEF SameList, SameStates
  <1>2. CASE msg.type = "start" /\ Matches(self, ls, msg) = {}
    <2>1. new = ls
      BY <1>2 DEF deliver_cb, receive_start
    <2> QED BY <2>1 DEF SameList, SameStates
  <1>3. CASE msg.type = "start" /\ Matches(self, ls, msg) # {}
    <2> DEFINE i == find_change(self, ls, msg)
               cg == SetHave(ls.changes[i], msg)
               ch == [cg EXCEPT !.start = @ \cup {msg.from}]
    <2>1. /\ i \in 1 .. Len(ls.changes) /\ ls.changes[i] \in Change
          /\ \A k \in i + 1 .. Len(ls.changes) : ~match_change(self, ls.changes[k], msg)
      <3>1. i \in Matches(self, ls, msg)
        BY <1>3 DEF find_change
      <3>2. /\ i \in 1 .. Len(ls.changes)
            /\ \A k \in i + 1 .. Len(ls.changes) : ~match_change(self, ls.changes[k], msg)
        BY <3>1 DEF Matches
      <3> HIDE DEF i
      <3> QED BY <1>0, <3>2, SMT
    <2>2. \A k \in 1 .. Len(ls.changes) : match_change(self, ls.changes[k], msg) => k <= i
      <3> HIDE DEF i
      <3>1. \A k \in 1 .. Len(ls.changes) : k <= i \/ k \in i + 1 .. Len(ls.changes)
        BY <1>0, <2>1, SMT
      <3> QED BY <2>1, <3>1
    <2> HIDE DEF i
    <2>3. /\ cg.members = ls.changes[i].members /\ cg.joined = ls.changes[i].joined
          /\ cg.removed = ls.changes[i].removed /\ cg.failed = ls.changes[i].failed
          /\ cg.view = ls.changes[i].view /\ cg.start = ls.changes[i].start
          /\ cg.state = ls.changes[i].state /\ cg \in Change
      <3>1. msg.from \in Nodes
        BY DEF Message
      <3> QED BY <2>1, <3>1 DEF SetHave, Change
    <2> HIDE DEF cg
    <2>4. /\ ch.members = ls.changes[i].members /\ ch.joined = ls.changes[i].joined
          /\ ch.removed = ls.changes[i].removed /\ ch.failed = ls.changes[i].failed
          /\ ch.view = ls.changes[i].view /\ ch.start = ls.changes[i].start \cup {msg.from}
          /\ ch.state = ls.changes[i].state
      BY <2>3 DEF Change
    <2> HIDE DEF ch
    <2>5. PICK c \in {cg, ch} :
              /\ new.changes = [ls.changes EXCEPT ![i] = c]
              /\ new.started_change = ls.started_change
              /\ new.present = ls.present /\ new.leaving = ls.leaving
      <3> DEFINE time == IF msg.from \in ls.known THEN [ls.add_time EXCEPT ![msg.from] = clock] ELSE ls.add_time
      <3>1. new \in {[ls EXCEPT !.changes[i] = cg],
                     [ls EXCEPT !.changes[i] = ch, !.add_time = time]}
        BY <1>3 DEF deliver_cb, receive_start, i, cg, ch
      <3> HIDE DEF time
      <3> QED BY <3>1 DEF Lockspace
    <2>6. /\ c.members = ls.changes[i].members /\ Counts(c) = Counts(ls.changes[i])
          /\ c.view = ls.changes[i].view /\ c.state = ls.changes[i].state
          /\ c.start \subseteq ls.changes[i].start \cup {msg.from}
      BY <2>3, <2>4 DEF Counts
    <2>7. /\ Len(new.changes) = Len(ls.changes)
          /\ \A j \in 1 .. Len(ls.changes) : new.changes[j] = IF j = i THEN c ELSE ls.changes[j]
      BY <1>0, <2>1, <2>5, SMT
    <2>8. new \in Lockspace
      BY <1>3, ReceiveStartType DEF deliver_cb
    <2>9. SameList(ls, new) /\ SameStates(ls, new)
      BY <2>5, <2>6, <2>7 DEF SameList, SameStates
    <2> QED BY <1>3, <2>2, <2>6, <2>7, <2>8, <2>9
  <1> QED BY <1>1, <1>2, <1>3

-----------------------------------------------------------------------------
(* The cluster *)

\* The inductive invariant.
Inv == TypeOK /\ \A n \in Nodes : StartRules(lsp[n])

-----------------------------------------------------------------------------
(* Types of the environment and of the queues *)

\* What fenced, the clock and the quorum service answer has its type.
LEMMA EnvType ==
    ASSUME TypeOK, NEW n \in Nodes
    PROVE  Envs(n) \subseteq Env
  <1>1. FenceTimes \subseteq [Nodes -> Nat]
    BY EnvAssumption, SMT DEF FenceTimes, TypeOK
  <1>2. InProgress \subseteq BOOLEAN
    BY DEF InProgress
  <1>3. Quorate(n) \in BOOLEAN /\ now \in Nat /\ cluster[n] \in SUBSET Nodes
    BY SMT DEF Quorate, TypeOK
  <1> QED BY <1>1, <1>2, <1>3, SMT DEF Envs, Env

\* The confchgs the environment makes are well formed.
LEMMA EventType ==
    ASSUME TypeOK, NEW members \in SUBSET Nodes, NEW joined \in SUBSET members,
           NEW left \in SUBSET Nodes, NEW failed \in SUBSET left, members \cap left = {}
    PROVE  Event(members, joined, left, failed) \in Confchg
  BY SMT DEF Event, Confchg, TypeOK

\* Delivering a confchg keeps the queues typed.
LEMMA PostType ==
    ASSUME NEW box \in [Nodes -> Seq(Events)], NEW cc \in Confchg, NEW extra
    PROVE  Post(box, cc, extra) \in [Nodes -> Seq(Events)]
  <1>1. ASSUME NEW m \in Nodes
        PROVE  Append(box[m], cc) \in Seq(Events)
    BY SMT DEF Events
  <1> QED BY <1>1 DEF Post

\* Sending messages keeps the queues typed.
LEMMA MulticastType ==
    ASSUME NEW box \in [Nodes -> Seq(Events)], NEW n, NEW out \in Seq(Message)
    PROVE  Multicast(box, n, out) \in [Nodes -> Seq(Events)]
  <1>1. out \in Seq(Events)
    BY SMT DEF Events
  <1>2. ASSUME NEW m \in Nodes
        PROVE  box[m] \o out \in Seq(Events)
    BY <1>1, SMT
  <1> QED BY <1>2 DEF Multicast

\* Losing messages keeps the queues typed.
LEMMA LoseType ==
    ASSUME NEW box \in [Nodes -> Seq(Events)], NEW side, NEW lost
    PROVE  Lose(box, side, lost) \in [Nodes -> Seq(Events)]
  <1> DEFINE new == Lose(box, side, lost)
  <1>1. ASSUME NEW m \in Nodes
        PROVE  new[m] \in Seq(Events)
    <2>1. Gap \in Events /\ Len(box[m]) \in Nat
      BY SMT DEF Events
    <2>2. ASSUME NEW i \in 1 .. Len(box[m])
          PROVE  box[m][i] \in Events
      BY SMT
    <2>3. DOMAIN new[m] = 1 .. Len(box[m])
      BY DEF Lose
    <2>4. ASSUME NEW i \in 1 .. Len(box[m])
          PROVE  new[m][i] \in {Gap, box[m][i]}
      BY DEF Lose
    <2>5. new[m] = [i \in 1 .. Len(box[m]) |-> new[m][i]]
      BY DEF Lose
    <2> HIDE DEF new
    <2>6. ASSUME NEW i \in 1 .. Len(box[m])
          PROVE  new[m][i] \in Events
      BY <2>1, <2>2, <2>4
    <2>7. [i \in 1 .. Len(box[m]) |-> new[m][i]] \in Seq(Events)
      BY <2>1, <2>6, SMT
    <2> QED BY <2>5, <2>7
  <1>2. new = [m \in Nodes |-> new[m]]
    BY DEF Lose
  <1> QED BY <1>1, <1>2

\* The next event of a queue is what its type field says.
LEMMA HeadType ==
    ASSUME TypeOK, NEW n \in Nodes, inbox[n] # <<>>
    PROVE  /\ Head(inbox[n]).type = "confchg" => Head(inbox[n]) \in Confchg
           /\ Head(inbox[n]).type \in {"start", "stored"} => Head(inbox[n]) \in Message
           /\ Tail(inbox[n]) \in Seq(Events)
  <1>1. inbox[n] \in Seq(Events)
    BY DEF TypeOK
  <1>2. Head(inbox[n]) \in Events /\ Tail(inbox[n]) \in Seq(Events)
    BY <1>1, SMT
  <1>3. /\ \A cc \in Confchg : cc.type = "confchg"
        /\ \A msg \in Message : msg.type \in {"start", "stored"}
        /\ Gap.type = "gap"
    BY DEF Confchg, Message, Gap
  <1> QED BY <1>2, <1>3 DEF Events

-----------------------------------------------------------------------------
(***************************************************************************)
(* What the queue of a node n tells of another node m.  After the last     *)
(* confchg in it that lists m as left, m is a member exactly from the      *)
(* confchg on that lists it as joined; with no such confchg in the queue,  *)
(* also from its head on if m is a member of n's newest change (listed).   *)
(***************************************************************************)
LeftAt(q, m) == {i \in DOMAIN q : q[i].type = "confchg" /\ m \in q[i].left}

After(q, m, i) == \A l \in LeftAt(q, m) : l < i

JoinedAt(q, m, i) == After(q, m, i) /\ q[i].type = "confchg" /\ m \in q[i].joined

\* n takes m for a member once it has taken the events up to the i-th.
Back(q, listed, m, i) ==
    \/ \E j \in DOMAIN q : j <= i /\ JoinedAt(q, m, j)
    \/ LeftAt(q, m) = {} /\ listed

Tells(q, listed, m) ==
    \A i \in DOMAIN q : After(q, m, i) =>
        /\ q[i].type = "confchg" => (m \in q[i].members <=> Back(q, listed, m, i))
        /\ q[i].type = "start" /\ q[i].from = m => q[i].started_count # 0

\* The same of the whole queue.
BackAtEnd(q, listed, m) == Back(q, listed, m, Len(q))

\* No message in out is a start message of m with started_count zero.
NoFirstStart(out, m) ==
    \A i \in DOMAIN out : /\ out[i].type # "confchg"
                          /\ out[i].type = "start" /\ out[i].from = m => out[i].started_count # 0

\* A confchg that lists m as left is the last word on m.
LEMMA TellsLeft ==
    ASSUME NEW q \in Seq(Events), NEW cc \in Confchg, NEW m, m \in cc.left, NEW listed
    PROVE  /\ Tells(Append(q, cc), listed, m) /\ ~BackAtEnd(Append(q, cc), listed, m)
           /\ LeftAt(Append(q, cc), m) # {}
  <1> DEFINE p == Append(q, cc)
             k == Len(q) + 1
  <1>1. k \in DOMAIN p /\ p[k] = cc /\ DOMAIN p = 1 .. k /\ Len(p) = k /\ k \in Nat
    BY SMT
  <1>2. cc.type = "confchg" /\ m \notin cc.joined
    BY DEF Confchg
  <1> HIDE DEF p, k
  <1>3. k \in LeftAt(p, m)
    BY <1>1, <1>2 DEF LeftAt
  <1>4. ASSUME NEW i \in DOMAIN p PROVE ~After(p, m, i)
    BY <1>1, <1>3, SMT DEF After
  <1> QED BY <1>3, <1>4 DEF Tells, BackAtEnd, Back, JoinedAt, p

\* The events of q are those of p up to Len(q).
LEMMA AppendIs ==
    ASSUME NEW q \in Seq(Events), NEW cc \in Events
    PROVE  /\ Append(q, cc) \in Seq(Events) /\ Len(Append(q, cc)) = Len(q) + 1
           /\ Len(q) \in Nat /\ DOMAIN q = 1 .. Len(q)
           /\ DOMAIN Append(q, cc) = 1 .. Len(q) + 1
           /\ \A i \in 1 .. Len(q) : Append(q, cc)[i] = q[i]
           /\ Append(q, cc)[Len(q) + 1] = cc
  BY SMT

\* A confchg without news that m left goes with what the queue tells, if it lists
\* m as a member exactly if m was one or joins.
LEMMA TellsConfchg ==
    ASSUME NEW q \in Seq(Events), NEW cc \in Confchg, NEW m, NEW listed \in BOOLEAN,
           m \notin cc.left, Tells(q, listed, m),
           m \in cc.members <=> m \in cc.joined \/ BackAtEnd(q, listed, m)
    PROVE  /\ Tells(Append(q, cc), listed, m)
           /\ BackAtEnd(Append(q, cc), listed, m) <=> m \in cc.members
           /\ LeftAt(Append(q, cc), m) = LeftAt(q, m)
  <1> DEFINE p == Append(q, cc)
             k == Len(q)
  <1>1. /\ Len(p) = k + 1 /\ k \in Nat /\ DOMAIN q = 1 .. k /\ DOMAIN p = 1 .. k + 1
        /\ \A i \in 1 .. k : p[i] = q[i]
        /\ p[k + 1] = cc
    BY AppendIs, SMT DEF Events
  <1>2. cc.type = "confchg"
    BY DEF Confchg
  <1> HIDE DEF p, k
  <1>3. LeftAt(p, m) = LeftAt(q, m)
    BY <1>1, <1>2, SMT DEF LeftAt
  <1>4. \A i : After(p, m, i) <=> After(q, m, i)
    BY <1>3 DEF After
  <1>5. After(q, m, k + 1)
    BY <1>1, SMT DEF After, LeftAt
  <1>6. ASSUME NEW i \in 1 .. k PROVE JoinedAt(p, m, i) <=> JoinedAt(q, m, i)
    BY <1>1, <1>4 DEF JoinedAt
  <1>7. JoinedAt(p, m, k + 1) <=> m \in cc.joined
    BY <1>1, <1>2, <1>4, <1>5 DEF JoinedAt
  <1>8. ASSUME NEW i \in 1 .. k PROVE Back(p, listed, m, i) <=> Back(q, listed, m, i)
    BY <1>1, <1>3, <1>6, SMT DEF Back
  <1>9. BackAtEnd(q, listed, m) <=> \/ \E j \in 1 .. k : JoinedAt(q, m, j)
                                    \/ LeftAt(q, m) = {} /\ listed
    BY <1>1, SMT DEF BackAtEnd, Back, k
  <1>10. Back(p, listed, m, k + 1) <=> m \in cc.joined \/ BackAtEnd(q, listed, m)
    BY <1>1, <1>3, <1>6, <1>7, <1>9, SMT DEF Back
  <1>11. ASSUME NEW i \in DOMAIN p, After(p, m, i)
         PROVE  /\ p[i].type = "confchg" => (m \in p[i].members <=> Back(p, listed, m, i))
                /\ p[i].type = "start" /\ p[i].from = m => p[i].started_count # 0
    <2>1. CASE i \in 1 .. k
      BY <1>1, <1>4, <1>8, <1>11, <2>1 DEF Tells
    <2>2. CASE i = k + 1
      BY <1>1, <1>2, <1>10, <2>2
    <2> QED BY <1>1, <2>1, <2>2, SMT
  <1>12. Tells(p, listed, m)
    BY <1>11 DEF Tells
  <1> QED BY <1>1, <1>3, <1>10, <1>12 DEF BackAtEnd, p

\* Messages at the end tell nothing new, if none is m's first start message.
LEMMA TellsMessages ==
    ASSUME NEW q \in Seq(Events), NEW out \in Seq(Events), NEW m, NEW listed \in BOOLEAN,
           Tells(q, listed, m), NoFirstStart(out, m)
    PROVE  /\ Tells(q \o out, listed, m)
           /\ BackAtEnd(q \o out, listed, m) <=> BackAtEnd(q, listed, m)
           /\ LeftAt(q \o out, m) = LeftAt(q, m)
  <1> DEFINE p == q \o out
             k == Len(q)
             d == Len(out)
  <1>1. /\ Len(p) = k + d /\ k \in Nat /\ d \in Nat /\ DOMAIN q = 1 .. k /\ DOMAIN p = 1 .. k + d
        /\ \A i \in 1 .. k : p[i] = q[i]
        /\ \A i \in 1 .. k + d : i \notin 1 .. k => i - k \in DOMAIN out /\ p[i] = out[i - k]
    BY SMT
  <1> HIDE DEF p, k, d
  <1>2. \A i \in 1 .. k + d : i \notin 1 .. k =>
            /\ p[i].type # "confchg"
            /\ p[i].type = "start" /\ p[i].from = m => p[i].started_count # 0
    BY <1>1 DEF NoFirstStart
  <1>3. LeftAt(p, m) = LeftAt(q, m)
    BY <1>1, <1>2, SMT DEF LeftAt
  <1>4. \A i : After(p, m, i) <=> After(q, m, i)
    BY <1>3 DEF After
  <1>5. \A i \in DOMAIN p : JoinedAt(p, m, i) <=> i \in DOMAIN q /\ JoinedAt(q, m, i)
    BY <1>1, <1>2, <1>4 DEF JoinedAt
  <1>6. ASSUME NEW i \in 1 .. k PROVE Back(p, listed, m, i) <=> Back(q, listed, m, i)
    BY <1>1, <1>3, <1>5, SMT DEF Back
  <1>7. Back(p, listed, m, k + d) <=> Back(q, listed, m, k)
    BY <1>1, <1>3, <1>5, SMT DEF Back
  <1>8. Tells(p, listed, m)
    BY <1>1, <1>2, <1>4, <1>6 DEF Tells
  <1> QED BY <1>1, <1>3, <1>7, <1>8 DEF BackAtEnd, p, k

\* p is the queue q with gaps in the place of some messages.
Gapped(q, p) ==
    /\ Len(p) = Len(q)
    /\ \A i \in DOMAIN q : p[i] = q[i] \/ (p[i].type = "gap" /\ q[i].type # "confchg")

\* Lost messages change nothing, either.
LEMMA TellsGaps ==
    ASSUME NEW q \in Seq(Events), NEW p \in Seq(Events), NEW m, NEW listed \in BOOLEAN,
           Gapped(q, p)
    PROVE  /\ Tells(q, listed, m) => Tells(p, listed, m)
           /\ BackAtEnd(p, listed, m) <=> BackAtEnd(q, listed, m)
           /\ LeftAt(p, m) = LeftAt(q, m)
  <1>1. /\ DOMAIN p = DOMAIN q
        /\ \A i \in DOMAIN q : p[i] = q[i] \/ (p[i].type = "gap" /\ q[i].type # "confchg")
    BY SMT DEF Gapped
  <1>2. LeftAt(p, m) = LeftAt(q, m)
    BY <1>1 DEF LeftAt
  <1>3. \A i : After(p, m, i) <=> After(q, m, i)
    BY <1>2 DEF After
  <1>4. \A i \in DOMAIN q : JoinedAt(p, m, i) <=> JoinedAt(q, m, i)
    BY <1>1, <1>3 DEF JoinedAt
  <1>5. \A i : Back(p, listed, m, i) <=> Back(q, listed, m, i)
    BY <1>1, <1>2, <1>4 DEF Back
  <1> QED BY <1>1, <1>2, <1>3, <1>5, SMT DEF Tells, BackAtEnd

\* The events of a queue without its head.
LEMMA TailIs ==
    ASSUME NEW q \in Seq(Events), q # <<>>
    PROVE  /\ Tail(q) \in Seq(Events) /\ Len(Tail(q)) = Len(q) - 1
           /\ Len(q) \in Nat \ {0} /\ DOMAIN q = 1 .. Len(q)
           /\ DOMAIN Tail(q) = 1 .. Len(q) - 1
           /\ \A i \in 1 .. Len(q) - 1 : Tail(q)[i] = q[i + 1]
           /\ Head(q) = q[1] /\ q[1] \in Events
  BY SMT

\* Positions move up by one when the head is taken.
LEMMA TailShift ==
    ASSUME NEW q \in Seq(Events), q # <<>>, NEW m
    PROVE  /\ \A i : i \in LeftAt(Tail(q), m) <=> i \in 1 .. Len(q) - 1 /\ i + 1 \in LeftAt(q, m)
           /\ \A i \in 1 .. Len(q) - 1 : /\ After(Tail(q), m, i) <=> After(q, m, i + 1)
                                         /\ JoinedAt(Tail(q), m, i) <=> JoinedAt(q, m, i + 1)
           /\ LeftAt(Tail(q), m) = {} <=> LeftAt(q, m) \subseteq {1}
           /\ \A i \in 0 .. Len(q) - 1 :
                 (\E j \in DOMAIN q : j <= i + 1 /\ JoinedAt(q, m, j))
                     <=> \/ JoinedAt(q, m, 1)
                         \/ \E j \in DOMAIN Tail(q) : j <= i /\ JoinedAt(Tail(q), m, j)
  <1> DEFINE p == Tail(q)
             k == Len(q)
  <1>1. /\ k \in Nat \ {0} /\ DOMAIN q = 1 .. k /\ DOMAIN p = 1 .. k - 1
        /\ \A i \in 1 .. k - 1 : p[i] = q[i + 1]
    BY TailIs
  <1> HIDE DEF p, k
  <1>2. \A i : i \in LeftAt(p, m) <=> i \in 1 .. k - 1 /\ i + 1 \in LeftAt(q, m)
    BY <1>1, SMT DEF LeftAt
  <1>3. \A l \in LeftAt(q, m) : l \in 1 .. k /\ (l = 1 \/ l - 1 \in LeftAt(p, m))
    BY <1>1, <1>2, SMT DEF LeftAt
  <1>4. ASSUME NEW i \in 1 .. k - 1
        PROVE  After(p, m, i) <=> After(q, m, i + 1)
    <2>1. ASSUME After(p, m, i), NEW l \in LeftAt(q, m) PROVE l < i + 1
      <3>1. CASE l = 1
        BY <1>1, <3>1, SMT
      <3>2. CASE l - 1 \in LeftAt(p, m)
        <4>1. l - 1 < i /\ l \in Nat /\ i \in Nat
          BY <1>1, <1>3, <2>1, <3>2, SMT DEF After
        <4> QED BY <4>1, SMT
      <3> QED BY <1>3, <2>1, <3>1, <3>2
    <2>2. ASSUME After(q, m, i + 1), NEW l \in LeftAt(p, m) PROVE l < i
      <3>1. l + 1 < i + 1 /\ l \in Nat /\ i \in Nat
        BY <1>1, <1>2, <2>2, SMT DEF After
      <3> QED BY <3>1, SMT
    <2> QED BY <2>1, <2>2 DEF After
  <1>5. \A i \in 1 .. k - 1 : JoinedAt(p, m, i) <=> JoinedAt(q, m, i + 1)
    BY <1>1, <1>4 DEF JoinedAt
  <1>6. LeftAt(p, m) = {} <=> LeftAt(q, m) \subseteq {1}
    <2>1. ASSUME LeftAt(p, m) = {} PROVE LeftAt(q, m) \subseteq {1}
      BY <1>3, <2>1
    <2>2. ASSUME LeftAt(q, m) \subseteq {1}, NEW l \in LeftAt(p, m) PROVE FALSE
      <3>1. l + 1 \in {1} /\ l \in 1 .. k - 1
        BY <1>2, <2>2
      <3> QED BY <1>1, <3>1, SMT
    <2> QED BY <2>1, <2>2
  <1>7. ASSUME NEW i \in 0 .. k - 1
        PROVE  (\E j \in DOMAIN q : j <= i + 1 /\ JoinedAt(q, m, j))
                   <=> \/ JoinedAt(q, m, 1)
                       \/ \E j \in DOMAIN p : j <= i /\ JoinedAt(p, m, j)
    <2>1. ASSUME NEW j \in DOMAIN q, j <= i + 1, JoinedAt(q, m, j), j # 1
          PROVE  \E h \in DOMAIN p : h <= i /\ JoinedAt(p, m, h)
      <3>1. j - 1 \in 1 .. k - 1 /\ j - 1 <= i /\ (j - 1) + 1 = j
        BY <1>1, <2>1, SMT
      <3>2. JoinedAt(p, m, j - 1)
        BY <1>5, <2>1, <3>1
      <3> QED BY <1>1, <3>1, <3>2
    <2>2. ASSUME NEW j \in DOMAIN p, j <= i, JoinedAt(p, m, j)
          PROVE  \E h \in DOMAIN q : h <= i + 1 /\ JoinedAt(q, m, h)
      <3>1. j + 1 \in DOMAIN q /\ j + 1 <= i + 1 /\ JoinedAt(q, m, j + 1)
        BY <1>1, <1>5, <2>2, SMT
      <3> QED BY <3>1
    <2>3. 1 \in DOMAIN q /\ 1 <= i + 1
      BY <1>1, SMT
    <2> QED BY <2>1, <2>2, <2>3
  <1> QED BY <1>2, <1>4, <1>5, <1>6, <1>7 DEF p, k

\* Taking the head, if what n knows of m afterwards goes with the rest of the queue.
LEMMA TellsTail ==
    ASSUME NEW q \in Seq(Events), q # <<>>, NEW m, NEW listed \in BOOLEAN, NEW new \in BOOLEAN,
           Tells(q, listed, m),
           LeftAt(q, m) \subseteq {1} =>
               (new <=> JoinedAt(q, m, 1) \/ (LeftAt(q, m) = {} /\ listed))
    PROVE  /\ Tells(Tail(q), new, m)
           /\ BackAtEnd(Tail(q), new, m) <=> BackAtEnd(q, listed, m)
  <1> DEFINE p == Tail(q)
             k == Len(q)
  <1>1. /\ k \in Nat \ {0} /\ DOMAIN q = 1 .. k /\ DOMAIN p = 1 .. k - 1 /\ Len(p) = k - 1
        /\ \A i \in 1 .. k - 1 : p[i] = q[i + 1]
    BY TailIs
  <1>2. /\ \A i \in 1 .. k - 1 : After(p, m, i) <=> After(q, m, i + 1)
        /\ LeftAt(p, m) = {} <=> LeftAt(q, m) \subseteq {1}
        /\ \A i \in 0 .. k - 1 :
              (\E j \in DOMAIN q : j <= i + 1 /\ JoinedAt(q, m, j))
                  <=> \/ JoinedAt(q, m, 1)
                      \/ \E j \in DOMAIN p : j <= i /\ JoinedAt(p, m, j)
    BY TailShift
  <1> HIDE DEF p
  <1>3. LeftAt(q, m) # {} /\ ~(LeftAt(q, m) \subseteq {1}) => ~JoinedAt(q, m, 1)
    BY <1>1, SMT DEF JoinedAt, After, LeftAt
  <1>4. ASSUME NEW i \in 0 .. k - 1
        PROVE  Back(p, new, m, i) <=> Back(q, listed, m, i + 1)
    <2>1. CASE ~(LeftAt(q, m) \subseteq {1})
      BY <1>2, <1>3, <2>1 DEF Back
    <2>2. CASE LeftAt(q, m) \subseteq {1}
      BY <1>2, <2>2 DEF Back
    <2> QED BY <2>1, <2>2
  <1>5. ASSUME NEW i \in DOMAIN p, After(p, m, i)
        PROVE  /\ p[i].type = "confchg" => (m \in p[i].members <=> Back(p, new, m, i))
               /\ p[i].type = "start" /\ p[i].from = m => p[i].started_count # 0
    <2>1. /\ i \in 1 .. k - 1 /\ i \in 0 .. k - 1 /\ i + 1 \in DOMAIN q
          /\ p[i] = q[i + 1] /\ After(q, m, i + 1)
      BY <1>1, <1>2, <1>5, SMT
    <2> QED BY <1>4, <2>1 DEF Tells
  <1>6. Tells(p, new, m)
    BY <1>5 DEF Tells
  <1>7. BackAtEnd(p, new, m) <=> BackAtEnd(q, listed, m)
    <2>1. k - 1 \in 0 .. k - 1 /\ (k - 1) + 1 = k
      BY <1>1, SMT
    <2> QED BY <1>1, <1>4, <2>1 DEF BackAtEnd
  <1> QED BY <1>6, <1>7 DEF p

\* Taking a confchg: m is listed afterwards if the confchg has it as a member.
LEMMA TakeConfchg ==
    ASSUME NEW q \in Seq(Events), q # <<>>, Head(q) \in Confchg, NEW m, NEW listed \in BOOLEAN,
           Tells(q, listed, m)
    PROVE  /\ Tells(Tail(q), m \in Head(q).members, m)
           /\ BackAtEnd(Tail(q), m \in Head(q).members, m) <=> BackAtEnd(q, listed, m)
           /\ LeftAt(Tail(q), m) = {} =>
                  \/ m \in Head(q).left
                  \/ /\ LeftAt(q, m) = {}
                     /\ m \in Head(q).members => m \in Head(q).joined \/ listed
  <1> DEFINE new == m \in Head(q).members
  <1>1. /\ 1 \in DOMAIN q /\ q[1] = Head(q) /\ q[1].type = "confchg"
        /\ q[1].joined \subseteq q[1].members /\ q[1].members \cap q[1].left = {}
        /\ \A j \in DOMAIN q : j <= 1 => j = 1
    <2>1. 1 \in DOMAIN q /\ q[1] = Head(q) /\ \A j \in DOMAIN q : j <= 1 => j = 1
      BY TailIs, SMT
    <2>2. /\ Head(q).type = "confchg" /\ Head(q).joined \subseteq Head(q).members
          /\ Head(q).members \cap Head(q).left = {}
      BY DEF Confchg
    <2> QED BY <2>1, <2>2
  <1>2. 1 \in LeftAt(q, m) <=> m \in q[1].left
    BY <1>1 DEF LeftAt
  <1>3. LeftAt(q, m) = {} => (new <=> m \in q[1].joined \/ listed)
    <2> SUFFICES ASSUME LeftAt(q, m) = {} PROVE new <=> m \in q[1].joined \/ listed
      OBVIOUS
    <2>1. After(q, m, 1)
      BY DEF After
    <2>2. new <=> Back(q, listed, m, 1)
      BY <1>1, <2>1 DEF Tells
    <2>3. JoinedAt(q, m, 1) <=> m \in q[1].joined
      BY <1>1, <2>1 DEF JoinedAt
    <2> QED BY <1>1, <2>2, <2>3 DEF Back
  <1>4. LeftAt(q, m) \subseteq {1} =>
            (new <=> JoinedAt(q, m, 1) \/ (LeftAt(q, m) = {} /\ listed))
    <2>1. CASE LeftAt(q, m) = {}
      <3>1. JoinedAt(q, m, 1) <=> m \in q[1].joined
        BY <1>1, <2>1 DEF JoinedAt, After
      <3> QED BY <1>3, <2>1, <3>1
    <2>2. CASE LeftAt(q, m) = {1}
      <3>1. ~JoinedAt(q, m, 1) /\ ~new
        BY <1>1, <1>2, <2>2 DEF JoinedAt
      <3> QED BY <2>2, <3>1
    <2> QED BY <2>1, <2>2
  <1>5. LeftAt(Tail(q), m) = {} <=> LeftAt(q, m) \subseteq {1}
    BY TailShift
  <1> HIDE DEF new
  <1>6. Tells(Tail(q), new, m) /\ (BackAtEnd(Tail(q), new, m) <=> BackAtEnd(q, listed, m))
    <2>1. new \in BOOLEAN
      BY SMT DEF new
    <2> QED BY <1>4, <2>1, TellsTail, SMT
  <1>7. LeftAt(q, m) \subseteq {1} =>
            m \in q[1].left \/ (LeftAt(q, m) = {} /\ (new => m \in q[1].joined \/ listed))
    BY <1>2, <1>3
  <1> QED BY <1>1, <1>5, <1>6, <1>7 DEF new

\* Taking a message or a gap: what n knows of m stays.
LEMMA TakeMessage ==
    ASSUME NEW q \in Seq(Events), q # <<>>, Head(q).type # "confchg", NEW m,
           NEW listed \in BOOLEAN, Tells(q, listed, m)
    PROVE  /\ Tells(Tail(q), listed, m)
           /\ BackAtEnd(Tail(q), listed, m) <=> BackAtEnd(q, listed, m)
           /\ LeftAt(Tail(q), m) = {} =>
                  /\ LeftAt(q, m) = {}
                  /\ Head(q).type = "start" /\ Head(q).from = m => Head(q).started_count # 0
  <1>1. 1 \in DOMAIN q /\ q[1] = Head(q)
    BY TailIs, SMT
  <1>2. 1 \notin LeftAt(q, m) /\ ~JoinedAt(q, m, 1)
    BY <1>1 DEF LeftAt, JoinedAt
  <1>3. Tells(Tail(q), listed, m) /\ (BackAtEnd(Tail(q), listed, m) <=> BackAtEnd(q, listed, m))
    BY <1>2, TellsTail, SMT
  <1>4. LeftAt(Tail(q), m) = {} => LeftAt(q, m) = {}
    BY <1>2, TailShift
  <1>5. LeftAt(q, m) = {} =>
            (Head(q).type = "start" /\ Head(q).from = m => Head(q).started_count # 0)
    BY <1>1 DEF Tells, After
  <1> QED BY <1>3, <1>4, <1>5

-----------------------------------------------------------------------------
(***************************************************************************)
(* What n knows of m, from its lockspace record ls and its queue q.  While *)
(* n is in the group (in), the end of the queue says whether m is in n's   *)
(* part of it (with).  Once n has nothing more to learn of m leaving, m is *)
(* apart in n's record.                                                    *)
(***************************************************************************)
View(q, ls, m, in, with) ==
    /\ Tells(q, Listed(ls, m), m)
    /\ in => (with <=> BackAtEnd(q, Listed(ls, m), m))
    /\ LeftAt(q, m) = {} => Apart(ls, m)

\* While n has yet to learn that m left, it does not matter if m is listed.
LEMMA AnyListed ==
    ASSUME NEW q, NEW m, NEW a \in BOOLEAN, NEW b \in BOOLEAN,
           LeftAt(q, m) # {} \/ (a <=> b)
    PROVE  (Tells(q, a, m) <=> Tells(q, b, m)) /\ (BackAtEnd(q, a, m) <=> BackAtEnd(q, b, m))
  <1>1. \A i : Back(q, a, m, i) <=> Back(q, b, m, i)
    BY DEF Back
  <1> QED BY <1>1 DEF Tells, BackAtEnd

\* new keeps m apart if ls does, and lists it if ls does.
KeepsApart(ls, new, m) ==
    Apart(ls, m) => Apart(new, m) /\ (Listed(new, m) <=> Listed(ls, m))

\* A step of n's lockspace that keeps m apart.
LEMMA ViewRecord ==
    ASSUME NEW q, NEW ls, NEW new, NEW m, NEW in \in BOOLEAN, NEW with \in BOOLEAN,
           View(q, ls, m, in, with), KeepsApart(ls, new, m)
    PROVE  View(q, new, m, in, with)
  <1> DEFINE a == Listed(ls, m)
             b == Listed(new, m)
  <1>1. a \in BOOLEAN /\ b \in BOOLEAN
    BY DEF Listed
  <1>2. LeftAt(q, m) # {} \/ (a <=> b)
    BY DEF View, KeepsApart
  <1> HIDE DEF a, b
  <1>3. (Tells(q, a, m) <=> Tells(q, b, m)) /\ (BackAtEnd(q, a, m) <=> BackAtEnd(q, b, m))
    BY <1>1, <1>2, AnyListed
  <1> QED BY <1>3 DEF View, KeepsApart, a, b

\* A confchg that says m left reaches n's queue.
LEMMA ViewLeft ==
    ASSUME NEW q \in Seq(Events), NEW cc \in Confchg, NEW ls, NEW m, m \in cc.left,
           NEW in \in BOOLEAN
    PROVE  View(Append(q, cc), ls, m, in, FALSE)
  BY TellsLeft DEF View

\* Another confchg reaches it.
LEMMA ViewConfchg ==
    ASSUME NEW q \in Seq(Events), NEW cc \in Confchg, NEW ls, NEW m, m \notin cc.left,
           NEW with \in BOOLEAN, View(q, ls, m, TRUE, with),
           m \in cc.members <=> m \in cc.joined \/ with
    PROVE  View(Append(q, cc), ls, m, TRUE, m \in cc.members)
  <1> DEFINE a == Listed(ls, m)
  <1>1. a \in BOOLEAN
    BY DEF Listed
  <1>2. Tells(q, a, m) /\ (with <=> BackAtEnd(q, a, m)) /\ (LeftAt(q, m) = {} => Apart(ls, m))
    BY DEF View
  <1> HIDE DEF a
  <1>3. /\ Tells(Append(q, cc), a, m)
        /\ BackAtEnd(Append(q, cc), a, m) <=> m \in cc.members
        /\ LeftAt(Append(q, cc), m) = LeftAt(q, m)
    BY <1>1, <1>2, TellsConfchg
  <1> QED BY <1>2, <1>3 DEF View, a

\* Messages reach it.
LEMMA ViewMessages ==
    ASSUME NEW q \in Seq(Events), NEW out \in Seq(Events), NEW ls, NEW m,
           NEW in \in BOOLEAN, NEW with \in BOOLEAN, View(q, ls, m, in, with),
           NoFirstStart(out, m)
    PROVE  View(q \o out, ls, m, in, with)
  <1> DEFINE a == Listed(ls, m)
  <1>1. a \in BOOLEAN
    BY DEF Listed
  <1>2. /\ Tells(q, a, m) /\ (in => (with <=> BackAtEnd(q, a, m)))
        /\ LeftAt(q, m) = {} => Apart(ls, m)
    BY DEF View
  <1> HIDE DEF a
  <1>3. /\ Tells(q \o out, a, m) /\ (BackAtEnd(q \o out, a, m) <=> BackAtEnd(q, a, m))
        /\ LeftAt(q \o out, m) = LeftAt(q, m)
    BY <1>1, <1>2, TellsMessages
  <1> QED BY <1>2, <1>3 DEF View, a

\* Messages in it are lost.
LEMMA ViewGaps ==
    ASSUME NEW q \in Seq(Events), NEW p \in Seq(Events), NEW ls, NEW m,
           NEW in \in BOOLEAN, NEW with \in BOOLEAN, View(q, ls, m, in, with),
           Gapped(q, p)
    PROVE  View(p, ls, m, in, with)
  <1> DEFINE a == Listed(ls, m)
  <1>1. a \in BOOLEAN
    BY DEF Listed
  <1>2. /\ Tells(q, a, m) /\ (in => (with <=> BackAtEnd(q, a, m)))
        /\ LeftAt(q, m) = {} => Apart(ls, m)
    BY DEF View
  <1> HIDE DEF a
  <1>3. /\ Tells(p, a, m) /\ (BackAtEnd(p, a, m) <=> BackAtEnd(q, a, m))
        /\ LeftAt(p, m) = LeftAt(q, m)
    BY <1>1, <1>2, TellsGaps, SMT
  <1> QED BY <1>2, <1>3 DEF View, a

\* n takes a confchg from its queue.
LEMMA ViewTakeConfchg ==
    ASSUME NEW n \in Nodes, NEW q \in Seq(Events), q # <<>>, Head(q) \in Confchg,
           NEW ls \in Lockspace, NEW m, NEW in \in BOOLEAN, NEW with \in BOOLEAN,
           View(q, ls, m, in, with), NEW new, new = confchg_cb(n, ls, Head(q))
    PROVE  View(Tail(q), new, m, in, with)
  <1> DEFINE cc == Head(q)
             a == Listed(ls, m)
             b == m \in Head(q).members
  <1>1. a \in BOOLEAN /\ b \in BOOLEAN
    BY SMT DEF Listed
  <1>2. /\ Tells(q, a, m) /\ (in => (with <=> BackAtEnd(q, a, m)))
        /\ LeftAt(q, m) = {} => Apart(ls, m)
    BY DEF View
  <1>3. Listed(new, m) <=> b
    BY ConfchgListed
  <1>4. /\ Tells(Tail(q), b, m) /\ (BackAtEnd(Tail(q), b, m) <=> BackAtEnd(q, a, m))
        /\ LeftAt(Tail(q), m) = {} =>
               \/ m \in cc.left
               \/ LeftAt(q, m) = {} /\ (m \in cc.members => m \in cc.joined \/ a)
    <2> HIDE DEF a
    <2> QED BY <1>1, <1>2, TakeConfchg
  <1>5. LeftAt(Tail(q), m) = {} => Apart(new, m)
    BY <1>2, <1>4, ConfchgApart
  <1>6. /\ Tells(Tail(q), Listed(new, m), m) <=> Tells(Tail(q), b, m)
        /\ BackAtEnd(Tail(q), Listed(new, m), m) <=> BackAtEnd(Tail(q), b, m)
    <2> DEFINE c == Listed(new, m)
    <2>1. c \in BOOLEAN
      BY DEF Listed
    <2> HIDE DEF b, c
    <2>2. (Tells(Tail(q), c, m) <=> Tells(Tail(q), b, m))
             /\ (BackAtEnd(Tail(q), c, m) <=> BackAtEnd(Tail(q), b, m))
      BY <1>1, <1>3, <2>1, AnyListed DEF c
    <2> QED BY <2>2 DEF c
  <1> QED BY <1>2, <1>4, <1>5, <1>6 DEF View

\* n takes a gap or a message; new is its record afterwards.
LEMMA ViewTakeMessage ==
    ASSUME NEW q \in Seq(Events), q # <<>>, Head(q).type # "confchg",
           NEW ls, NEW m, NEW in \in BOOLEAN, NEW with \in BOOLEAN,
           View(q, ls, m, in, with), NEW new,
           (Head(q).type = "start" /\ Head(q).from = m => Head(q).started_count # 0) =>
               KeepsApart(ls, new, m)
    PROVE  View(Tail(q), new, m, in, with)
  <1> DEFINE a == Listed(ls, m)
             b == Listed(new, m)
  <1>1. a \in BOOLEAN /\ b \in BOOLEAN
    BY DEF Listed
  <1>2. /\ Tells(q, a, m) /\ (in => (with <=> BackAtEnd(q, a, m)))
        /\ LeftAt(q, m) = {} => Apart(ls, m)
    BY DEF View
  <1>3. Apart(ls, m) /\ (Head(q).type = "start" /\ Head(q).from = m => Head(q).started_count # 0)
            => Apart(new, m) /\ (b <=> a)
    BY DEF KeepsApart
  <1> HIDE DEF a, b
  <1>4. /\ Tells(Tail(q), a, m) /\ (BackAtEnd(Tail(q), a, m) <=> BackAtEnd(q, a, m))
        /\ LeftAt(Tail(q), m) = {} =>
               /\ LeftAt(q, m) = {}
               /\ Head(q).type = "start" /\ Head(q).from = m => Head(q).started_count # 0
    BY <1>1, <1>2, TakeMessage
  <1>5. LeftAt(Tail(q), m) = {} => Apart(new, m) /\ (b <=> a)
    BY <1>2, <1>3, <1>4
  <1>6. /\ Tells(Tail(q), a, m) <=> Tells(Tail(q), b, m)
        /\ BackAtEnd(Tail(q), a, m) <=> BackAtEnd(Tail(q), b, m)
    BY <1>1, <1>5, AnyListed
  <1> QED BY <1>2, <1>4, <1>5, <1>6 DEF View, b

-----------------------------------------------------------------------------
(* Every step preserves the invariant *)

\* The invariant holds initially.
LEMMA InitInv == Init => Inv
  <1> SUFFICES ASSUME Init PROVE Inv
    OBVIOUS
  <1>1. NoPoll \in Poll /\ <<>> \in Seq(Events)
    BY SMT DEF NoPoll, Poll
  <1>2. TypeOK
    BY <1>1, NoLockspaceType DEF Init, TypeOK
  <1>3. \A n \in Nodes : StartRules(lsp[n])
    BY NoLockspaceRules DEF Init
  <1> QED BY <1>2, <1>3 DEF Inv

\* One lockspace changes: the other ones obey the rules as before.
LEMMA OneLockspace ==
    ASSUME Inv, NEW n \in Nodes, NEW ls \in Lockspace, StartRules(ls),
           lsp' = [lsp EXCEPT ![n] = ls]
    PROVE  lsp' \in [Nodes -> Lockspace] /\ \A m \in Nodes : StartRules(lsp'[m])
  <1>1. lsp \in [Nodes -> Lockspace] /\ \A m \in Nodes : StartRules(lsp[m])
    BY DEF Inv, TypeOK
  <1>2. lsp' \in [Nodes -> Lockspace]
    BY <1>1
  <1>3. \A m \in Nodes : lsp'[m] = IF m = n THEN ls ELSE lsp[m]
    BY <1>1
  <1>4. ASSUME NEW m \in Nodes PROVE StartRules(lsp'[m])
    BY <1>1, <1>3
  <1> QED BY <1>2, <1>4

\* A run of apply_changes, whatever fenced and the quorum service answer.
LEMMA ApplyInv ==
    ASSUME Inv, NEW n \in Nodes, NEW ls \in Lockspace, StartRules(ls),
           NEW rest \in Seq(Events), ApplyChanges(n, ls, rest)
    PROVE  Inv'
  <1>1. PICK env \in Envs(n) :
            /\ lsp' = [lsp EXCEPT ![n] = apply_changes(n, ls, poll[n], env).ls]
            /\ poll' = [poll EXCEPT ![n] = apply_changes(n, ls, poll[n], env).poll]
            /\ inbox' = Multicast([inbox EXCEPT ![n] = rest], n,
                                  apply_changes(n, ls, poll[n], env).out)
    BY DEF ApplyChanges
  <1> DEFINE r == apply_changes(n, ls, poll[n], env)
  <1>2. poll[n] \in Poll /\ env \in Env
    BY <1>1, EnvType DEF Inv, TypeOK
  <1>3. r.ls \in Lockspace /\ r.poll \in Poll /\ r.out \in Seq(Message) /\ StartRules(r.ls)
    BY <1>2, ApplyType, ApplyRules
  <1> HIDE DEF r
  <1>4. lsp' \in [Nodes -> Lockspace] /\ \A m \in Nodes : StartRules(lsp'[m])
    BY <1>1, <1>3, OneLockspace DEF r
  <1>5. poll' \in [Nodes -> Poll]
    BY <1>1, <1>3 DEF r, Inv, TypeOK
  <1>6. inbox' \in [Nodes -> Seq(Events)]
    <2>1. [inbox EXCEPT ![n] = rest] \in [Nodes -> Seq(Events)]
      BY DEF Inv, TypeOK
    <2> QED BY <1>1, <1>3, <2>1, MulticastType DEF r
  <1>7. UNCHANGED <<cpg, down, away, cluster, now, fencedVars, history>>
    BY DEF ApplyChanges
  <1> QED BY <1>4, <1>5, <1>6, <1>7 DEF Inv, TypeOK, fencedVars, history

\* A node that stops, by a crash or because fenced resets it.
LEMMA StopInv ==
    ASSUME Inv, NEW n \in Nodes, Stop(n)
    PROVE  /\ lsp' \in [Nodes -> Lockspace] /\ \A m \in Nodes : StartRules(lsp'[m])
           /\ poll' \in [Nodes -> Poll]
           /\ inbox' \in [Nodes -> Seq(Events)]
           /\ cpg' \subseteq Nodes /\ down' \subseteq Nodes /\ view' \in Nat
           /\ divorced' \subseteq Nodes \X Nodes
  <1>1. lsp' \in [Nodes -> Lockspace] /\ \A m \in Nodes : StartRules(lsp'[m])
    BY NoLockspaceType, NoLockspaceRules, OneLockspace DEF Stop
  <1>2. poll' \in [Nodes -> Poll]
    BY DEF Stop, Inv, TypeOK, NoPoll, Poll
  <1>3. inbox' \in [Nodes -> Seq(Events)]
    <2> DEFINE box == [inbox EXCEPT ![n] = <<>>]
               cc == Event(Group(n) \ {n}, {}, {n}, {n})
    <2>1. box \in [Nodes -> Seq(Events)]
      BY SMT DEF Inv, TypeOK
    <2>2. n \in cpg => cc \in Confchg
      <3>1. Group(n) \ {n} \in SUBSET Nodes
        BY DEF Group, SameSide
      <3> QED BY <3>1, EventType DEF Inv
    <2>3. n \in cpg => Post(box, cc, {}) \in [Nodes -> Seq(Events)]
      <3> HIDE DEF box, cc
      <3> QED BY <2>1, <2>2, PostType
    <2> QED BY <2>1, <2>3 DEF Stop
  <1>4. /\ cpg' \subseteq Nodes /\ down' \subseteq Nodes /\ view' \in Nat
        /\ divorced' \subseteq Nodes \X Nodes
    BY SMT DEF Stop, Reset, Inv, TypeOK
  <1> QED BY <1>1, <1>2, <1>3, <1>4

\* The two confchgs and the lost messages of a network split.
LEMMA PartitionInv ==
    ASSUME Inv, NEW S \in SUBSET Nodes, Partition(S)
    PROVE  Inv'
  <1>1. PICK lostStay, lostAway \in {FALSE, "loss" \in Allowed} :
            inbox' = Post(Post(Lose(Lose(inbox, cpg \ S, lostStay), cpg \cap S, lostAway),
                               Event(cpg \ S, {}, cpg \cap S, cpg \cap S), {}),
                          [Event(cpg \cap S, {}, cpg \ S, cpg \ S) EXCEPT !.view = view + 2], {})
    BY DEF Partition
  <1> DEFINE box == Lose(Lose(inbox, cpg \ S, lostStay), cpg \cap S, lostAway)
             stay == Event(cpg \ S, {}, cpg \cap S, cpg \cap S)
             gone == [Event(cpg \cap S, {}, cpg \ S, cpg \ S) EXCEPT !.view = view + 2]
  <1>2. box \in [Nodes -> Seq(Events)]
    BY LoseType DEF Inv, TypeOK
  <1>3. stay \in Confchg
    BY EventType DEF Inv, TypeOK
  <1>4. gone \in Confchg
    <2>1. gone = [type |-> "confchg", members |-> cpg \cap S, joined |-> {},
                  left |-> cpg \ S, failed |-> cpg \ S, view |-> view + 2]
      BY SMT DEF Event
    <2>2. cpg \subseteq Nodes /\ view + 2 \in Nat
      BY SMT DEF Inv, TypeOK
    <2> HIDE DEF gone
    <2> QED BY <2>1, <2>2 DEF Confchg
  <1>5. inbox' \in [Nodes -> Seq(Events)]
    <2> HIDE DEF box, stay, gone
    <2>1. Post(box, stay, {}) \in [Nodes -> Seq(Events)]
      BY <1>2, <1>3, PostType
    <2>2. Post(Post(box, stay, {}), gone, {}) \in [Nodes -> Seq(Events)]
      BY <1>4, <2>1, PostType
    <2> QED BY <1>1, <2>2 DEF box, stay, gone
  <1>6. /\ away' \subseteq Nodes /\ view' \in Nat /\ victims' \subseteq Nodes
        /\ divorced' \subseteq Nodes \X Nodes
    <2>1. view' \in Nat
      BY SMT DEF Partition, Inv, TypeOK
    <2>2. away' \subseteq Nodes /\ victims' \subseteq Nodes
      BY DEF Partition, FencedFail, Inv, TypeOK
    <2>3. divorced' \subseteq Nodes \X Nodes
      BY DEF Partition, Inv, TypeOK
    <2> QED BY <2>1, <2>2, <2>3
  <1>7. UNCHANGED <<lsp, poll, cpg, down, cluster, now, fence_time, past>>
    BY DEF Partition
  <1> QED BY <1>5, <1>6, <1>7 DEF Inv, TypeOK

\* The confchgs of a healed network split.
LEMMA MergeInv ==
    ASSUME Inv, Merge
    PROVE  Inv'
  <1>1. inbox' \in [Nodes -> Seq(Events)] /\ view' \in Nat
    <2>1. CASE cpg \cap away # {} /\ cpg \ away # {}
      <3>1. ASSUME NEW m \in Nodes
            PROVE  Append(inbox[m], Event(cpg, cpg \ SameSide(m), {}, {})) \in Seq(Events)
        <4>1. Event(cpg, cpg \ SameSide(m), {}, {}) \in Confchg
          BY EventType DEF Inv, TypeOK
        <4>2. inbox[m] \in Seq(Events)
          BY DEF Inv, TypeOK
        <4> QED BY <4>1, <4>2, SMT DEF Events
      <3>2. ASSUME NEW m \in Nodes PROVE inbox[m] \in Seq(Events)
        BY DEF Inv, TypeOK
      <3>3. /\ view' = view + 1
            /\ inbox' = [m \in Nodes |->
                            IF m \in cpg
                            THEN Append(inbox[m], Event(cpg, cpg \ SameSide(m), {}, {}))
                            ELSE inbox[m]]
        BY <2>1 DEF Merge
      <3> QED BY <3>1, <3>2, <3>3, SMT DEF Inv, TypeOK
    <2>2. CASE ~(cpg \cap away # {} /\ cpg \ away # {})
      BY <2>2 DEF Merge, Inv, TypeOK
    <2> QED BY <2>1, <2>2
  <1>2. away' = {} /\ UNCHANGED <<lsp, poll, cpg, down, cluster, now, fencedVars, past, divorced>>
    BY DEF Merge
  <1> QED BY <1>1, <1>2 DEF Inv, TypeOK, fencedVars

\* What the daemon of one node does.
LEMMA DaemonInv ==
    ASSUME Inv, NEW n \in Nodes, DaemonStep(n)
    PROVE  Inv'
  <1>0. lsp[n] \in Lockspace /\ StartRules(lsp[n]) /\ now \in Nat /\ inbox[n] \in Seq(Events)
    BY DEF Inv, TypeOK
  <1>1. CASE DeliverConfchg(n)
    <2>1. Head(inbox[n]) \in Confchg /\ Tail(inbox[n]) \in Seq(Events)
      BY <1>1, HeadType DEF DeliverConfchg, Inv
    <2>2. /\ confchg_cb(n, lsp[n], Head(inbox[n])) \in Lockspace
          /\ StartRules(confchg_cb(n, lsp[n], Head(inbox[n])))
      BY <1>0, <2>1, ConfchgRules
    <2>3. ApplyChanges(n, confchg_cb(n, lsp[n], Head(inbox[n])), Tail(inbox[n]))
      BY <1>1 DEF DeliverConfchg
    <2> QED BY <2>1, <2>2, <2>3, ApplyInv
  <1>2. CASE DeliverLeave(n)
    <2>1. lsp' \in [Nodes -> Lockspace] /\ \A m \in Nodes : StartRules(lsp'[m])
      BY <1>2, NoLockspaceType, NoLockspaceRules, OneLockspace DEF DeliverLeave
    <2>2. inbox' \in [Nodes -> Seq(Events)] /\ divorced' \subseteq Nodes \X Nodes
      BY <1>2, SMT DEF DeliverLeave, Reset, Inv, TypeOK
    <2>3. UNCHANGED <<poll, cpg, down, away, cluster, now, fencedVars, past, view>>
      BY <1>2 DEF DeliverLeave
    <2> QED BY <2>1, <2>2, <2>3 DEF Inv, TypeOK, fencedVars
  <1>3. CASE DeliverMessage(n)
    <2>1. Head(inbox[n]) \in Message /\ Tail(inbox[n]) \in Seq(Events)
      BY <1>3, HeadType DEF DeliverMessage, Inv
    <2>2. /\ deliver_cb(n, lsp[n], Head(inbox[n]), now) \in Lockspace
          /\ StartRules(deliver_cb(n, lsp[n], Head(inbox[n]), now))
      BY <1>0, <2>1, DeliverRules
    <2>3. ApplyChanges(n, deliver_cb(n, lsp[n], Head(inbox[n]), now), Tail(inbox[n]))
      BY <1>3 DEF DeliverMessage
    <2> QED BY <2>1, <2>2, <2>3, ApplyInv
  <1>4. CASE SkipGap(n)
    <2>1. inbox' = [inbox EXCEPT ![n] = Tail(inbox[n])] /\ Tail(inbox[n]) \in Seq(Events)
      BY <1>0, <1>4, SMT DEF SkipGap
    <2>2. inbox' \in [Nodes -> Seq(Events)]
      BY <2>1 DEF Inv, TypeOK
    <2>3. UNCHANGED <<lsp, poll, cpg, down, away, cluster, now, fencedVars, history>>
      BY <1>4 DEF SkipGap
    <2> QED BY <2>2, <2>3 DEF Inv, TypeOK, fencedVars, history
  <1>5. CASE ProcessLockspaceChanges(n)
    BY <1>0, <1>5, ApplyInv DEF ProcessLockspaceChanges
  <1>6. CASE QuorumCallback(n)
    <2>1. cluster' \in [Nodes -> SUBSET Nodes]
      BY <1>6 DEF QuorumCallback, SameSide, Inv, TypeOK
    <2>2. UNCHANGED <<lsp, poll, inbox, cpg, down, away, now, fencedVars, history>>
      BY <1>6 DEF QuorumCallback
    <2> QED BY <2>1, <2>2 DEF Inv, TypeOK, fencedVars, history
  <1>7. ASSUME NEW m \in Nodes, FsNotified(n, m) PROVE Inv'
    <2>1. lsp' = [lsp EXCEPT ![n] = set_fs_notified(lsp[n], m)]
      BY <1>7 DEF FsNotified
    <2>2. lsp' \in [Nodes -> Lockspace] /\ \A k \in Nodes : StartRules(lsp'[k])
      BY <1>0, <2>1, FsType, FsRules, OneLockspace
    <2>3. UNCHANGED <<poll, inbox, cpg, down, away, cluster, now, fencedVars, history>>
      BY <1>7 DEF FsNotified
    <2> QED BY <2>2, <2>3 DEF Inv, TypeOK, fencedVars, history
  <1> QED BY <1>1, <1>2, <1>3, <1>4, <1>5, <1>6, <1>7 DEF DaemonStep

\* Every step preserves the invariant.
LEMMA NextInv == Inv /\ [Next]_vars => Inv'
  <1> SUFFICES ASSUME Inv, [Next]_vars PROVE Inv'
    OBVIOUS
  <1>1. ASSUME NEW n \in Nodes, DaemonStep(n) PROVE Inv'
    BY <1>1, DaemonInv
  <1>2. ASSUME NEW n \in Nodes, Join(n) PROVE Inv'
    <2>1. lsp' \in [Nodes -> Lockspace] /\ \A m \in Nodes : StartRules(lsp'[m])
      BY <1>2, EnvAssumption, JoinType, NoLockspaceRules, OneLockspace DEF Join
    <2>2. inbox' \in [Nodes -> Seq(Events)]
      <3>1. Event((cpg \ away) \cup {n}, {n}, {}, {}) \in Confchg
        BY EventType DEF Inv, TypeOK
      <3> QED BY <1>2, <3>1, PostType DEF Join, Inv, TypeOK
    <2>3. cpg' \subseteq Nodes /\ down' \subseteq Nodes /\ past' \subseteq Nodes /\ view' \in Nat
      BY <1>2, SMT DEF Join, Inv, TypeOK
    <2>4. UNCHANGED <<poll, away, cluster, now, fencedVars, divorced>>
      BY <1>2 DEF Join
    <2> QED BY <2>1, <2>2, <2>3, <2>4 DEF Inv, TypeOK, fencedVars
  <1>3. ASSUME NEW n \in Nodes, Leave(n) PROVE Inv'
    <2> DEFINE ls == [lsp[n] EXCEPT !.leaving = TRUE]
    <2>1. ls \in Lockspace /\ StartRules(ls)
      <3>1. lsp[n] \in Lockspace /\ StartRules(lsp[n])
        BY DEF Inv, TypeOK
      <3>2. ls \in Lockspace /\ SameCore(lsp[n], ls)
        BY <3>1 DEF Lockspace, SameCore
      <3> QED BY <3>1, <3>2, CoreRules
    <2>2. lsp' = [lsp EXCEPT ![n] = ls]
      BY <1>3 DEF Leave
    <2>3. lsp' \in [Nodes -> Lockspace] /\ \A m \in Nodes : StartRules(lsp'[m])
      <3> HIDE DEF ls
      <3> QED BY <2>1, <2>2, OneLockspace
    <2>4. inbox' \in [Nodes -> Seq(Events)]
      <3>1. Group(n) \ {n} \in SUBSET Nodes
        BY DEF Group, SameSide
      <3>2. Event(Group(n) \ {n}, {}, {n}, {}) \in Confchg
        BY <3>1, EventType DEF Inv
      <3> QED BY <1>3, <3>2, PostType DEF Leave, Inv, TypeOK
    <2>5. cpg' \subseteq Nodes /\ view' \in Nat
      BY <1>3, SMT DEF Leave, Inv, TypeOK
    <2>6. UNCHANGED <<poll, down, away, cluster, now, fencedVars, past, divorced>>
      BY <1>3 DEF Leave
    <2> QED BY <2>3, <2>4, <2>5, <2>6 DEF Inv, TypeOK, fencedVars
  <1>4. ASSUME NEW n \in Nodes, Crash(n) PROVE Inv'
    <2>1. Stop(n) /\ victims' \subseteq Nodes
      BY <1>4 DEF Crash, FencedFail, Inv, TypeOK
    <2>2. UNCHANGED <<away, cluster, now, fence_time, past>>
      BY <1>4 DEF Crash
    <2> QED BY <2>1, <2>2, StopInv DEF Inv, TypeOK
  <1>5. ASSUME NEW n \in Nodes, Fence(n) PROVE Inv'
    <2>1. Stop(n) /\ victims' \subseteq Nodes /\ away' \subseteq Nodes
      BY <1>5 DEF Fence, Inv, TypeOK
    <2>2. fence_time' \in [Nodes -> Nat]
      BY <1>5 DEF Fence, Inv, TypeOK
    <2>3. UNCHANGED <<cluster, now, past>>
      BY <1>5 DEF Fence
    <2> QED BY <2>1, <2>2, <2>3, StopInv DEF Inv, TypeOK
  <1>6. ASSUME NEW S \in SUBSET Nodes, Partition(S) PROVE Inv'
    BY <1>6, PartitionInv
  <1>7. CASE Merge
    BY <1>7, MergeInv
  <1>8. CASE Tick
    BY <1>8, SMT DEF Tick, Inv, TypeOK, fencedVars, history
  <1>9. CASE UNCHANGED vars
    BY <1>9 DEF vars, Inv, TypeOK
  <1> QED BY <1>1, <1>2, <1>3, <1>4, <1>5, <1>6, <1>7, <1>8, <1>9 DEF Next

-----------------------------------------------------------------------------
(***************************************************************************)
(* The invariant behind NoReadmission.  The nodes of the CPG group are the *)
(* nodes with a lockspace that have not asked to leave, and a node m that  *)
(* n was parted from stays Parted from it until one of them is reset.      *)
(***************************************************************************)
Grouped ==
    /\ cpg \cap down = {}
    /\ \A n \in Nodes : n \in cpg <=> lsp[n].present /\ ~lsp[n].leaving

Parted(n, m) ==
    /\ n # m /\ lsp[n].present /\ lsp[m].present
    /\ lsp[m].started_count # 0
    /\ View(inbox[n], lsp[n], m, n \in cpg, m \in Group(n))

PartInv == Inv /\ Grouped /\ \A p \in divorced : Parted(p[1], p[2])

\* What a run of apply_changes on node k leaves.
LEMMA ApplyIs ==
    ASSUME Inv, NEW k \in Nodes, NEW ls \in Lockspace, NEW rest \in Seq(Events),
           ApplyChanges(k, ls, rest)
    PROVE  \E new \in Lockspace, out \in Seq(Events) :
              /\ lsp' = [lsp EXCEPT ![k] = new]
              /\ inbox' = Multicast([inbox EXCEPT ![k] = rest], k, out)
              /\ SentBy(k, ls, out)
              /\ new.present = ls.present /\ new.leaving = ls.leaving
              /\ ls.started_count # 0 => new.started_count # 0
              /\ \A m : KeepsApart(ls, new, m)
  <1>1. PICK env \in Envs(k) :
            /\ lsp' = [lsp EXCEPT ![k] = apply_changes(k, ls, poll[k], env).ls]
            /\ inbox' = Multicast([inbox EXCEPT ![k] = rest], k,
                                  apply_changes(k, ls, poll[k], env).out)
    BY DEF ApplyChanges
  <1> DEFINE r == apply_changes(k, ls, poll[k], env)
  <1>2. poll[k] \in Poll /\ env \in Env
    BY <1>1, EnvType DEF Inv, TypeOK
  <1>3. r.ls \in Lockspace /\ r.out \in Seq(Message)
    BY <1>2, ApplyType
  <1>4. r.out \in Seq(Events)
    BY <1>3, SMT DEF Events
  <1>5. /\ SentBy(k, ls, r.out)
        /\ r.ls.present = ls.present /\ r.ls.leaving = ls.leaving
        /\ ls.started_count # 0 => r.ls.started_count # 0
    BY <1>2, ApplyEffect, SMT
  <1>6. ASSUME NEW m PROVE KeepsApart(ls, r.ls, m)
    BY <1>2, ApplyApart, SMT DEF KeepsApart
  <1> HIDE DEF r
  <1>7. lsp' = [lsp EXCEPT ![k] = r.ls] /\ inbox' = Multicast([inbox EXCEPT ![k] = rest], k, r.out)
    BY <1>1 DEF r
  <1> QED BY <1>3, <1>4, <1>5, <1>6, <1>7

\* A run of apply_changes on k, with the record ls it starts from and the rest of the
\* queue, leaves two parted nodes parted.
LEMMA ApplyParted ==
    ASSUME Inv, Grouped, NEW k \in Nodes, NEW ls \in Lockspace, NEW rest \in Seq(Events),
           ApplyChanges(k, ls, rest), ls.present = lsp[k].present,
           ls.started_count = lsp[k].started_count,
           NEW n \in Nodes, NEW m \in Nodes, Parted(n, m),
           k = n => View(rest, ls, m, n \in cpg, m \in Group(n))
    PROVE  Parted(n, m)'
  <1>1. PICK new \in Lockspace, out \in Seq(Events) :
            /\ lsp' = [lsp EXCEPT ![k] = new]
            /\ inbox' = Multicast([inbox EXCEPT ![k] = rest], k, out)
            /\ SentBy(k, ls, out)
            /\ new.present = ls.present /\ new.leaving = ls.leaving
            /\ ls.started_count # 0 => new.started_count # 0
            /\ \A h : KeepsApart(ls, new, h)
    BY ApplyIs
  <1>2. UNCHANGED <<cpg, down, away>>
    BY DEF ApplyChanges
  <1>3. lsp \in [Nodes -> Lockspace] /\ inbox \in [Nodes -> Seq(Events)]
    BY DEF Inv, TypeOK
  <1> DEFINE q == IF n = k THEN rest ELSE inbox[n]
             old == IF n = k THEN ls ELSE lsp[n]
             in == n \in cpg
             with == m \in Group(n)
  <1>4. q \in Seq(Events) /\ in \in BOOLEAN /\ with \in BOOLEAN
    BY <1>3, SMT
  <1>5. View(q, old, m, in, with)
    BY DEF Parted
  <1>6. NoFirstStart(out, m)
    <2>1. \A i \in DOMAIN out : /\ out[i].type \in {"start", "stored"} /\ out[i].from = k
                                /\ out[i].started_count = ls.started_count
      BY <1>1 DEF SentBy
    <2>2. k = m => ls.started_count # 0
      BY DEF Parted
    <2> QED BY <2>1, <2>2 DEF NoFirstStart
  <1>7. inbox'[n] \in {q, q \o out}
    BY <1>1, <1>3 DEF Multicast
  <1>8. lsp'[n] = (IF n = k THEN new ELSE lsp[n]) /\ lsp'[m] = (IF m = k THEN new ELSE lsp[m])
    BY <1>1, <1>3
  <1> HIDE DEF q, old, in, with
  <1>9. View(inbox'[n], old, m, in, with)
    BY <1>4, <1>5, <1>6, <1>7, ViewMessages
  <1>10. View(inbox'[n], lsp'[n], m, in, with)
    <2>1. CASE n = k
      <3>1. old = ls /\ lsp'[n] = new
        BY <1>8, <2>1 DEF old
      <3>2. KeepsApart(ls, new, m)
        BY <1>1
      <3> DEFINE p == inbox'[n]
      <3>3. View(p, ls, m, in, with)
        BY <1>9, <3>1
      <3> HIDE DEF p
      <3>4. View(p, new, m, in, with)
        BY <1>4, <3>2, <3>3, ViewRecord
      <3> QED BY <3>1, <3>4 DEF p
    <2>2. CASE n # k
      BY <1>8, <1>9, <2>2 DEF old
    <2> QED BY <2>1, <2>2
  <1>11. lsp'[n].present /\ lsp'[m].present /\ lsp'[m].started_count # 0 /\ n # m
    BY <1>1, <1>8 DEF Parted
  <1>12. Group(n)' = Group(n)
    BY <1>2 DEF Group, SameSide
  <1> QED BY <1>2, <1>10, <1>11, <1>12 DEF Parted, in, with

\* What the daemon of one node does leaves two parted nodes parted, or resets one.
LEMMA DaemonParted ==
    ASSUME Inv, Grouped, NEW k \in Nodes, DaemonStep(k),
           NEW n \in Nodes, NEW m \in Nodes, Parted(n, m), <<n, m>> \in divorced'
    PROVE  Parted(n, m)'
  <1>0. /\ lsp \in [Nodes -> Lockspace] /\ inbox \in [Nodes -> Seq(Events)] /\ now \in Nat
        /\ lsp[n] \in Lockspace /\ lsp[k] \in Lockspace
        /\ inbox[k] \in Seq(Events) /\ inbox[n] \in Seq(Events)
    BY DEF Inv, TypeOK
  <1> DEFINE in == n \in cpg
             with == m \in Group(n)
  <1>00. in \in BOOLEAN /\ with \in BOOLEAN /\ View(inbox[n], lsp[n], m, in, with)
    BY SMT DEF Parted
  <1>1. CASE DeliverConfchg(k)
    <2> DEFINE ls == confchg_cb(k, lsp[k], Head(inbox[k]))
    <2>1. Head(inbox[k]) \in Confchg /\ Tail(inbox[k]) \in Seq(Events) /\ inbox[k] # <<>>
      BY <1>1, HeadType DEF DeliverConfchg, Inv
    <2>2. ApplyChanges(k, ls, Tail(inbox[k]))
      BY <1>1 DEF DeliverConfchg
    <2>3. ls \in Lockspace
      BY <1>0, <2>1, ConfchgRules DEF Inv
    <2>4. ls.present = lsp[k].present /\ ls.started_count = lsp[k].started_count
      BY <1>0, <2>1, ConfchgKeep, SMT
    <2>5. k = n => View(Tail(inbox[k]), ls, m, in, with)
      <3> HIDE DEF in, with
      <3> QED BY <1>0, <1>00, <2>1, ViewTakeConfchg
    <2> HIDE DEF ls
    <2> QED BY <2>1, <2>2, <2>3, <2>4, <2>5, ApplyParted
  <1>2. CASE DeliverLeave(k)
    <2>1. k # n /\ k # m
      BY <1>2 DEF DeliverLeave, Reset
    <2>2. lsp'[n] = lsp[n] /\ lsp'[m] = lsp[m] /\ inbox'[n] = inbox[n]
      BY <1>0, <1>2, <2>1 DEF DeliverLeave
    <2>3. Group(n)' = Group(n) /\ cpg' = cpg
      BY <1>2 DEF DeliverLeave, Group, SameSide
    <2> QED BY <2>2, <2>3 DEF Parted
  <1>3. CASE DeliverMessage(k)
    <2> DEFINE msg == Head(inbox[k])
               ls == deliver_cb(k, lsp[k], msg, now)
    <2>1. msg \in Message /\ Tail(inbox[k]) \in Seq(Events) /\ inbox[k] # <<>>
      BY <1>3, HeadType DEF DeliverMessage, Inv
    <2>2. ApplyChanges(k, ls, Tail(inbox[k])) /\ msg.type # "confchg"
      BY <1>3 DEF DeliverMessage
    <2>3. ls \in Lockspace
      BY <1>0, <2>1, DeliverRules DEF Inv
    <2>4. ls.present = lsp[k].present /\ ls.started_count = lsp[k].started_count
      BY <1>0, <2>1, DeliverKeep, SMT
    <2>5. (msg.type = "start" /\ msg.from = m => msg.started_count # 0) =>
              KeepsApart(lsp[k], ls, m)
      BY <1>0, <2>1, DeliverApart, SMT DEF KeepsApart
    <2> HIDE DEF ls
    <2>6. k = n => View(Tail(inbox[k]), ls, m, in, with)
      <3> DEFINE q == inbox[k]
                 old == lsp[k]
      <3>1. q \in Seq(Events) /\ q # <<>> /\ Head(q).type # "confchg"
        BY <1>0, <2>1, <2>2
      <3>2. k = n => View(q, old, m, in, with)
        BY <1>00
      <3>3. (Head(q).type = "start" /\ Head(q).from = m => Head(q).started_count # 0) =>
                KeepsApart(old, ls, m)
        BY <2>5
      <3> HIDE DEF in, with, q, old, msg
      <3>4. k = n => View(Tail(q), ls, m, in, with)
        BY <1>00, <3>1, <3>2, <3>3, ViewTakeMessage
      <3> QED BY <3>4 DEF q
    <2> QED BY <2>1, <2>2, <2>3, <2>4, <2>6, ApplyParted
  <1>4. CASE SkipGap(k)
    <2>1. /\ inbox[k] # <<>> /\ Head(inbox[k]).type # "confchg"
          /\ inbox' = [inbox EXCEPT ![k] = Tail(inbox[k])] /\ lsp' = lsp
          /\ Group(n)' = Group(n) /\ cpg' = cpg
      BY <1>4 DEF SkipGap, Group, SameSide
    <2>2. inbox'[n] = IF n = k THEN Tail(inbox[n]) ELSE inbox[n]
      BY <1>0, <2>1
    <2>3. View(inbox'[n], lsp[n], m, in, with)
      <3> HIDE DEF in, with
      <3>1. CASE n = k
        <4>1. KeepsApart(lsp[n], lsp[n], m)
          BY DEF KeepsApart
        <4>2. View(Tail(inbox[n]), lsp[n], m, in, with)
          BY <1>0, <1>00, <2>1, <3>1, <4>1, ViewTakeMessage
        <4> QED BY <2>2, <3>1, <4>2
      <3>2. CASE n # k
        BY <1>00, <2>2, <3>2
      <3> QED BY <3>1, <3>2
    <2> QED BY <2>1, <2>3 DEF Parted
  <1>5. CASE ProcessLockspaceChanges(k)
    BY <1>0, <1>00, <1>5, ApplyParted DEF ProcessLockspaceChanges
  <1>6. CASE QuorumCallback(k)
    BY <1>6 DEF QuorumCallback, Parted, Group, SameSide
  <1>7. ASSUME NEW h \in Nodes, FsNotified(k, h) PROVE Parted(n, m)'
    <2> DEFINE new == set_fs_notified(lsp[k], h)
    <2>1. lsp' = [lsp EXCEPT ![k] = new] /\ inbox' = inbox /\ Group(n)' = Group(n) /\ cpg' = cpg
      BY <1>7 DEF FsNotified, Group, SameSide
    <2>2. /\ new \in Lockspace /\ SameChanges(lsp[k], new) /\ new.present = lsp[k].present
          /\ new.started_count = lsp[k].started_count
      <3>1. new \in Lockspace
        BY <1>0, <1>7, FsType
      <3> QED BY <1>0, <3>1 DEF set_fs_notified, Lockspace, SameChanges
    <2> HIDE DEF new
    <2>3. /\ lsp'[n] = (IF n = k THEN new ELSE lsp[n])
          /\ lsp'[m] = (IF m = k THEN new ELSE lsp[m])
      BY <1>0, <2>1
    <2>4. View(inbox[n], lsp'[n], m, in, with)
      <3>1. CASE n = k
        <4>1. KeepsApart(lsp[n], new, m)
          BY <1>0, <2>2, <3>1, SameApart DEF KeepsApart
        <4> HIDE DEF in, with
        <4>2. View(inbox[n], new, m, in, with)
          BY <1>00, <4>1, ViewRecord
        <4> QED BY <2>3, <3>1, <4>2
      <3>2. CASE n # k
        BY <1>00, <2>3, <3>2
      <3> QED BY <3>1, <3>2
    <2> QED BY <2>1, <2>2, <2>3, <2>4 DEF Parted
  <1> QED BY <1>1, <1>2, <1>3, <1>4, <1>5, <1>6, <1>7 DEF DaemonStep

\* n's queue goes from q to p, with cc or without it, and what cc says of m is true.
Noticed(q, p, cc, m, in, with, inNext, withNext) ==
    /\ inNext => in
    /\ \/ p = q /\ (inNext => (withNext <=> with))
       \/ p = Append(q, cc) /\ m \in cc.left /\ ~withNext
       \/ /\ p = Append(q, cc) /\ m \notin cc.left /\ in
          /\ m \in cc.members <=> m \in cc.joined \/ with
          /\ inNext => (withNext <=> m \in cc.members)

\* A confchg reaches n's queue or not, and n or m may have left the group.
LEMMA ViewEvent ==
    ASSUME NEW q \in Seq(Events), NEW cc \in Confchg, NEW ls, NEW m, NEW p,
           NEW in \in BOOLEAN, NEW with \in BOOLEAN,
           NEW inNext \in BOOLEAN, NEW withNext \in BOOLEAN,
           View(q, ls, m, in, with), Noticed(q, p, cc, m, in, with, inNext, withNext)
    PROVE  View(p, ls, m, inNext, withNext)
  <1>1. CASE p = q /\ (inNext => (withNext <=> with))
    BY <1>1 DEF View, Noticed
  <1>2. CASE p = Append(q, cc) /\ m \in cc.left /\ ~withNext
    <2>1. View(Append(q, cc), ls, m, inNext, FALSE)
      BY <1>2, ViewLeft
    <2> QED BY <1>2, <2>1 DEF View
  <1>3. CASE /\ p = Append(q, cc) /\ m \notin cc.left /\ in
             /\ m \in cc.members <=> m \in cc.joined \/ with
             /\ inNext => (withNext <=> m \in cc.members)
    <2>1. View(q, ls, m, TRUE, with)
      BY <1>3 DEF View
    <2>2. View(Append(q, cc), ls, m, TRUE, m \in cc.members)
      BY <1>3, <2>1, ViewConfchg
    <2> QED BY <1>3, <2>2 DEF View
  <1> QED BY <1>1, <1>2, <1>3 DEF Noticed

\* What Event makes.
LEMMA EventIs ==
    ASSUME NEW members, NEW joined, NEW left, NEW failed
    PROVE  LET cc == Event(members, joined, left, failed)
           IN  cc.members = members /\ cc.joined = joined /\ cc.left = left
  BY DEF Event

\* A node that joins is not one of two parted nodes; they learn of it or not.
LEMMA JoinParted ==
    ASSUME Inv, Grouped, Inv', Grouped', NEW k \in Nodes, Join(k),
           NEW n \in Nodes, NEW m \in Nodes, Parted(n, m)
    PROVE  Parted(n, m)'
  <1> DEFINE cc == Event((cpg \ away) \cup {k}, {k}, {}, {})
             in == n \in cpg
             with == m \in Group(n)
             inNext == n \in cpg'
             withNext == m \in Group(n)'
  <1>1. cc \in Confchg
    BY EventType DEF Inv, TypeOK
  <1>2. cc.members = (cpg \ away) \cup {k} /\ cc.joined = {k} /\ cc.left = {}
    BY EventIs, SMT
  <1>3. k # n /\ k # m
    BY DEF Join, Parted
  <1>4. /\ lsp' = [lsp EXCEPT ![k] = dlm_join_lockspace(FsRegister)]
        /\ cpg' = cpg \cup {k} /\ away' = away /\ inbox' = Post(inbox, cc, {k})
    BY DEF Join
  <1>5. lsp'[n] = lsp[n] /\ lsp'[m] = lsp[m]
    BY <1>3, <1>4 DEF Inv, TypeOK
  <1>6. inbox'[n] = IF n \in cc.members \cup {k} THEN Append(inbox[n], cc) ELSE inbox[n]
    BY <1>4 DEF Post
  <1>7. /\ with <=> m \in cpg /\ ((m \in away) = (n \in away))
        /\ withNext <=> m \in cpg' /\ ((m \in away') = (n \in away'))
    BY DEF Group, SameSide, Inv, TypeOK, Grouped
  <1>8. inbox[n] \in Seq(Events) /\ View(inbox[n], lsp[n], m, in, with)
    BY DEF Parted, Inv, TypeOK
  <1>9. in \in BOOLEAN /\ with \in BOOLEAN /\ inNext \in BOOLEAN /\ withNext \in BOOLEAN
    BY SMT
  <1> HIDE DEF cc, withNext, with
  <1>10. Noticed(inbox[n], inbox'[n], cc, m, in, with, inNext, withNext)
    <2>1. (inNext => in) /\ (withNext <=> with)
      BY <1>3, <1>4, <1>7
    <2>2. \/ inbox'[n] = inbox[n]
          \/ inbox'[n] = Append(inbox[n], cc) /\ in /\ (m \in cc.members <=> with)
      BY <1>2, <1>3, <1>6, <1>7, SMT
    <2>3. m \notin cc.left /\ m \notin cc.joined
      BY <1>2, <1>3
    <2> HIDE DEF in, inNext
    <2> QED BY <2>1, <2>2, <2>3 DEF Noticed
  <1> HIDE DEF in, inNext
  <1>11. View(inbox'[n], lsp[n], m, inNext, withNext)
    BY <1>1, <1>8, <1>9, <1>10, ViewEvent, SMT
  <1> QED BY <1>5, <1>11 DEF Parted, inNext, withNext

\* A node that asks to leave.
LEMMA LeaveParted ==
    ASSUME Inv, Grouped, Inv', Grouped', NEW k \in Nodes, Leave(k),
           NEW n \in Nodes, NEW m \in Nodes, Parted(n, m)
    PROVE  Parted(n, m)'
  <1> DEFINE cc == Event(Group(k) \ {k}, {}, {k}, {})
             in == n \in cpg
             with == m \in Group(n)
             inNext == n \in cpg'
             withNext == m \in Group(n)'
  <1>1. cc \in Confchg
    <2>1. Group(k) \ {k} \in SUBSET Nodes
      BY DEF Group, SameSide
    <2> QED BY <2>1, EventType DEF Inv
  <1>2. cc.members = Group(k) \ {k} /\ cc.joined = {} /\ cc.left = {k}
    BY EventIs, SMT
  <1>3. k \in cpg /\ n # m
    BY DEF Leave, Grouped, Parted
  <1>4. /\ lsp' = [lsp EXCEPT ![k].leaving = TRUE]
        /\ cpg' = cpg \ {k} /\ away' = away /\ inbox' = Post(inbox, cc, {k})
    BY DEF Leave
  <1>5. /\ lsp'[n].present = lsp[n].present /\ lsp'[m].present = lsp[m].present
        /\ lsp'[m].started_count = lsp[m].started_count
        /\ lsp'[n].changes = lsp[n].changes /\ lsp'[n].started_change = lsp[n].started_change
        /\ lsp'[n].kernel_stopped = lsp[n].kernel_stopped
    <2> DEFINE new == [lsp[k] EXCEPT !.leaving = TRUE]
    <2>1. lsp \in [Nodes -> Lockspace] /\ lsp[k] \in Lockspace
      BY DEF Inv, TypeOK
    <2>2. /\ new.present = lsp[k].present /\ new.started_count = lsp[k].started_count
          /\ new.changes = lsp[k].changes /\ new.started_change = lsp[k].started_change
          /\ new.kernel_stopped = lsp[k].kernel_stopped
      BY <2>1 DEF Lockspace
    <2>3. \A h \in Nodes : lsp'[h] = IF h = k THEN new ELSE lsp[h]
      BY <1>4, <2>1
    <2> HIDE DEF new
    <2> QED BY <2>2, <2>3
  <1>6. inbox'[n] = IF n \in cc.members \cup {k} THEN Append(inbox[n], cc) ELSE inbox[n]
    BY <1>4 DEF Post
  <1>7. /\ with <=> m \in cpg /\ ((m \in away) = (n \in away))
        /\ withNext <=> m \in cpg' /\ ((m \in away') = (n \in away'))
        /\ n \in Group(k) <=> n \in cpg /\ ((n \in away) = (k \in away))
        /\ m \in Group(k) <=> m \in cpg /\ ((m \in away) = (k \in away))
    BY DEF Group, SameSide, Inv, TypeOK, Grouped
  <1>8. inbox[n] \in Seq(Events) /\ View(inbox[n], lsp[n], m, in, with)
    BY DEF Parted, Inv, TypeOK
  <1>9. in \in BOOLEAN /\ with \in BOOLEAN /\ inNext \in BOOLEAN /\ withNext \in BOOLEAN
    BY SMT
  <1> HIDE DEF cc, withNext, with
  <1>10. Noticed(inbox[n], inbox'[n], cc, m, in, with, inNext, withNext)
    BY <1>2, <1>3, <1>4, <1>6, <1>7 DEF Noticed
  <1> HIDE DEF in, inNext
  <1>11. View(inbox'[n], lsp[n], m, inNext, withNext)
    BY <1>1, <1>8, <1>9, <1>10, ViewEvent, SMT
  <1>12. KeepsApart(lsp[n], lsp'[n], m)
    BY <1>5 DEF KeepsApart, Apart, Listed, is_added, Running
  <1> DEFINE p == inbox'[n]
             old == lsp[n]
             new == lsp'[n]
  <1>13. View(p, new, m, inNext, withNext)
    <2>1. View(p, old, m, inNext, withNext) /\ KeepsApart(old, new, m)
      BY <1>11, <1>12
    <2> HIDE DEF p, old, new
    <2> QED BY <1>9, <2>1, ViewRecord
  <1> QED BY <1>5, <1>13 DEF Parted, inNext, withNext

\* A node other than the two stops.
LEMMA StopParted ==
    ASSUME Inv, Grouped, Inv', Grouped', NEW k \in Nodes, Stop(k),
           away' \in {away, away \ {k}},
           NEW n \in Nodes, NEW m \in Nodes, Parted(n, m), <<n, m>> \in divorced'
    PROVE  Parted(n, m)'
  <1> DEFINE cc == Event(Group(k) \ {k}, {}, {k}, {k})
             in == n \in cpg
             with == m \in Group(n)
             inNext == n \in cpg'
             withNext == m \in Group(n)'
             box == [inbox EXCEPT ![k] = <<>>]
  <1>1. cc \in Confchg
    <2>1. Group(k) \ {k} \in SUBSET Nodes
      BY DEF Group, SameSide
    <2> QED BY <2>1, EventType DEF Inv
  <1>2. cc.members = Group(k) \ {k} /\ cc.joined = {} /\ cc.left = {k}
    BY EventIs, SMT
  <1>3. k # n /\ k # m
    BY DEF Stop, Reset
  <1>4. /\ lsp' = [lsp EXCEPT ![k] = NoLockspace]
        /\ cpg' = cpg \ {k}
        /\ inbox' = IF k \in cpg THEN Post(box, cc, {}) ELSE box
    BY DEF Stop
  <1>5. lsp'[n] = lsp[n] /\ lsp'[m] = lsp[m] /\ box[n] = inbox[n]
    BY <1>3, <1>4 DEF Inv, TypeOK
  <1>6. inbox'[n] = IF k \in cpg /\ n \in cc.members THEN Append(inbox[n], cc) ELSE inbox[n]
    BY <1>4, <1>5, SMT DEF Post
  <1>7. /\ with <=> m \in cpg /\ ((m \in away) = (n \in away))
        /\ withNext <=> m \in cpg' /\ ((m \in away') = (n \in away'))
        /\ n \in Group(k) <=> n \in cpg /\ ((n \in away) = (k \in away))
        /\ m \in Group(k) <=> m \in cpg /\ ((m \in away) = (k \in away))
    BY DEF Group, SameSide, Inv, TypeOK, Grouped
  <1>8. inbox[n] \in Seq(Events) /\ View(inbox[n], lsp[n], m, in, with)
    BY DEF Parted, Inv, TypeOK
  <1>9. in \in BOOLEAN /\ with \in BOOLEAN /\ inNext \in BOOLEAN /\ withNext \in BOOLEAN
    BY SMT
  <1> HIDE DEF cc, withNext, with
  <1>10. Noticed(inbox[n], inbox'[n], cc, m, in, with, inNext, withNext)
    <2>1. (inNext => in) /\ (withNext <=> with)
      BY <1>3, <1>4, <1>7, SMT
    <2>2. \/ inbox'[n] = inbox[n]
          \/ inbox'[n] = Append(inbox[n], cc) /\ in /\ (m \in cc.members <=> with)
      BY <1>2, <1>3, <1>6, <1>7
    <2>3. m \notin cc.left /\ m \notin cc.joined
      BY <1>2, <1>3
    <2> HIDE DEF in, inNext
    <2> QED BY <2>1, <2>2, <2>3 DEF Noticed
  <1> HIDE DEF in, inNext, box
  <1>11. View(inbox'[n], lsp[n], m, inNext, withNext)
    BY <1>1, <1>8, <1>9, <1>10, ViewEvent, SMT
  <1> QED BY <1>5, <1>11 DEF Parted, inNext, withNext

\* Lose puts gaps in the place of messages.
LEMMA LoseIs ==
    ASSUME NEW box \in [Nodes -> Seq(Events)], NEW side, NEW lost, NEW n \in Nodes
    PROVE  Gapped(box[n], Lose(box, side, lost)[n])
  <1> DEFINE q == Lose(box, side, lost)[n]
  <1>1. box[n] \in Seq(Events) /\ DOMAIN box[n] = 1 .. Len(box[n]) /\ Len(box[n]) \in Nat
    BY SMT
  <1>2. DOMAIN q = 1 .. Len(box[n])
    BY DEF Lose
  <1>3. q \in Seq(Events)
    BY LoseType
  <1>4. ASSUME NEW i \in 1 .. Len(box[n])
        PROVE  q[i] = box[n][i] \/ (q[i] = Gap /\ box[n][i].type \in {"start", "stored"})
    BY DEF Lose
  <1> HIDE DEF q
  <1>5. Len(q) = Len(box[n])
    BY <1>1, <1>2, <1>3, SMT
  <1>6. Gapped(box[n], q)
    BY <1>1, <1>4, <1>5, SMT DEF Gap, Gapped
  <1> QED BY <1>6 DEF q

\* A network split: two nodes that are parted already.
LEMMA PartitionParted ==
    ASSUME Inv, Grouped, Inv', Grouped', NEW S \in SUBSET Nodes, Partition(S),
           NEW n \in Nodes, NEW m \in Nodes,
           \/ Parted(n, m)
           \/ n \in cpg /\ m \in cpg /\ (n \in S) # (m \in S) /\ lsp[m].started_count # 0
    PROVE  Parted(n, m)'
  <1>1. PICK lostStay, lostAway \in {FALSE, "loss" \in Allowed} :
            inbox' = Post(Post(Lose(Lose(inbox, cpg \ S, lostStay), cpg \cap S, lostAway),
                               Event(cpg \ S, {}, cpg \cap S, cpg \cap S), {}),
                          [Event(cpg \cap S, {}, cpg \ S, cpg \ S) EXCEPT !.view = view + 2], {})
    BY DEF Partition
  <1> DEFINE mid == Lose(inbox, cpg \ S, lostStay)
             box == Lose(mid, cpg \cap S, lostAway)
             stay == Event(cpg \ S, {}, cpg \cap S, cpg \cap S)
             gone == [Event(cpg \cap S, {}, cpg \ S, cpg \ S) EXCEPT !.view = view + 2]
             cc == IF n \in S THEN gone ELSE stay
             q == inbox[n]
             in == n \in cpg
             with == m \in Group(n)
             withNext == m \in Group(n)'
  <1>2. stay \in Confchg /\ stay.members = cpg \ S /\ stay.joined = {} /\ stay.left = cpg \cap S
    <2>1. stay \in Confchg
      BY EventType DEF Inv, TypeOK
    <2> QED BY <2>1 DEF Event
  <1>3. gone \in Confchg /\ gone.members = cpg \cap S /\ gone.joined = {} /\ gone.left = cpg \ S
    <2>1. gone = [type |-> "confchg", members |-> cpg \cap S, joined |-> {},
                  left |-> cpg \ S, failed |-> cpg \ S, view |-> view + 2]
      BY SMT DEF Event
    <2>2. cpg \subseteq Nodes /\ view + 2 \in Nat
      BY SMT DEF Inv, TypeOK
    <2> HIDE DEF gone
    <2> QED BY <2>1, <2>2 DEF Confchg
  <1>4. away = {} /\ away' = S /\ cpg' = cpg /\ lsp' = lsp
    BY DEF Partition
  <1>5. /\ with <=> m \in cpg /\ ((m \in away) = (n \in away))
        /\ withNext <=> m \in cpg' /\ ((m \in away') = (n \in away'))
    BY DEF Group, SameSide, Inv, TypeOK, Grouped
  <1>6. inbox \in [Nodes -> Seq(Events)] /\ q \in Seq(Events)
    BY DEF Inv, TypeOK
  <1>7. mid \in [Nodes -> Seq(Events)] /\ box \in [Nodes -> Seq(Events)]
    BY <1>6, LoseType
  <1> HIDE DEF mid, box, stay, gone, with, withNext
  <1>8. box[n] \in Seq(Events) /\ mid[n] \in Seq(Events)
    BY <1>7
  <1>9. inbox'[n] = IF n \in cpg THEN Append(box[n], cc) ELSE box[n]
    <2>1. inbox' = Post(Post(box, stay, {}), gone, {})
      BY <1>1 DEF mid, box, stay, gone
    <2>2. Post(box, stay, {})[n] = IF n \in cpg \ S THEN Append(box[n], stay) ELSE box[n]
      BY <1>2 DEF Post
    <2>3. inbox'[n] = IF n \in cpg \cap S THEN Append(Post(box, stay, {})[n], gone)
                                        ELSE Post(box, stay, {})[n]
      BY <1>3, <2>1 DEF Post
    <2> QED BY <2>2, <2>3
  <1>10. /\ cc \in Confchg /\ cc.joined = {}
         /\ n \in cpg => (m \in cc.left <=> m \in cpg /\ (n \in S) # (m \in S))
         /\ n \in cpg => (m \in cc.members <=> m \in cpg /\ (n \in S) = (m \in S))
    BY <1>2, <1>3, SMT
  <1> HIDE DEF cc, q
  <1>11. in \in BOOLEAN /\ with \in BOOLEAN /\ withNext \in BOOLEAN
    BY SMT DEF with, withNext
  <1>12. CASE Parted(n, m)
    <2>1. View(q, lsp[n], m, in, with)
      BY <1>12 DEF Parted, q, with
    <2> HIDE DEF in
    <2>2. View(mid[n], lsp[n], m, in, with)
      <3>1. Gapped(q, mid[n])
        BY <1>6, LoseIs DEF mid, q
      <3> QED BY <1>6, <1>8, <1>11, <2>1, <3>1, ViewGaps
    <2>3. View(box[n], lsp[n], m, in, with)
      <3>1. Gapped(mid[n], box[n])
        BY <1>7, LoseIs DEF box
      <3> QED BY <1>8, <1>11, <2>2, <3>1, ViewGaps
    <2>4. Noticed(box[n], inbox'[n], cc, m, in, with, in, withNext)
      BY <1>4, <1>5, <1>9, <1>10, SMT DEF in, Noticed
    <2>5. View(inbox'[n], lsp[n], m, in, withNext)
      BY <1>8, <1>10, <1>11, <2>3, <2>4, ViewEvent, SMT
    <2> QED BY <1>4, <1>12, <2>5 DEF Parted, in, withNext
  <1>13. CASE n \in cpg /\ m \in cpg /\ (n \in S) # (m \in S) /\ lsp[m].started_count # 0
    <2>1. inbox'[n] = Append(box[n], cc) /\ m \in cc.left /\ ~withNext
      BY <1>4, <1>5, <1>9, <1>10, <1>13
    <2>2. View(Append(box[n], cc), lsp[n], m, in, FALSE)
      <3> HIDE DEF in
      <3> QED BY <1>8, <1>10, <1>11, <2>1, ViewLeft
    <2>3. View(inbox'[n], lsp'[n], m, n \in cpg', m \in Group(n)')
      BY <1>4, <2>1, <2>2 DEF withNext, View
    <2>4. n # m /\ lsp[n].present /\ lsp[m].present
      BY <1>13 DEF Grouped
    <2> QED BY <1>4, <1>13, <2>3, <2>4 DEF Parted
  <1> QED BY <1>12, <1>13

\* A healed split: m is a member for n again, as a node that joined.
LEMMA MergeParted ==
    ASSUME Inv, Grouped, Inv', Grouped', Merge,
           NEW n \in Nodes, NEW m \in Nodes, Parted(n, m)
    PROVE  Parted(n, m)'
  <1> DEFINE cc == Event(cpg, cpg \ SameSide(n), {}, {})
             in == n \in cpg
             with == m \in Group(n)
             withNext == m \in Group(n)'
  <1>1. cc \in Confchg /\ cc.members = cpg /\ cc.joined = cpg \ SameSide(n) /\ cc.left = {}
    <2>1. cc \in Confchg
      BY EventType DEF Inv, TypeOK
    <2> QED BY <2>1 DEF Event
  <1>2. away' = {} /\ cpg' = cpg /\ lsp' = lsp
    BY DEF Merge
  <1>3. /\ with <=> m \in cpg /\ ((m \in away) = (n \in away))
        /\ withNext <=> m \in cpg' /\ ((m \in away') = (n \in away'))
        /\ with <=> m \in cpg /\ m \in SameSide(n)
    BY DEF Group, SameSide, Inv, TypeOK, Grouped
  <1>4. IF n \in cpg /\ cpg \cap away # {} /\ cpg \ away # {}
        THEN inbox'[n] = Append(inbox[n], cc)
        ELSE inbox'[n] = inbox[n]
    BY DEF Merge, Inv, TypeOK
  <1>5. inbox[n] \in Seq(Events) /\ View(inbox[n], lsp[n], m, in, with)
    BY DEF Parted, Inv, TypeOK
  <1>6. in \in BOOLEAN /\ with \in BOOLEAN /\ withNext \in BOOLEAN
    BY SMT
  <1> HIDE DEF cc, with, withNext
  <1>7. Noticed(inbox[n], inbox'[n], cc, m, in, with, in, withNext)
    BY <1>1, <1>2, <1>3, <1>4, SMT DEF Noticed
  <1> HIDE DEF in
  <1>8. View(inbox'[n], lsp[n], m, in, withNext)
    BY <1>1, <1>5, <1>6, <1>7, ViewEvent, SMT
  <1> QED BY <1>2, <1>8 DEF Parted, in, withNext

\* The nodes of the group keep their lockspaces.
LEMMA GroupedNext == Inv /\ Grouped /\ Inv' /\ [Next]_vars => Grouped'
  <1> SUFFICES ASSUME Inv, Grouped, Inv', [Next]_vars PROVE Grouped'
    OBVIOUS
  <1>0. lsp \in [Nodes -> Lockspace] /\ cpg \subseteq Nodes
    BY DEF Inv, TypeOK
  <1>1. ASSUME NEW k \in Nodes, NEW new, lsp' = [lsp EXCEPT ![k] = new],
               new.present = lsp[k].present, new.leaving = lsp[k].leaving,
               UNCHANGED <<cpg, down>>
        PROVE  Grouped'
    BY <1>0, <1>1 DEF Grouped
  <1>2. ASSUME NEW k \in Nodes, NEW ls \in Lockspace, NEW rest \in Seq(Events),
               ApplyChanges(k, ls, rest), ls.present = lsp[k].present,
               ls.leaving = lsp[k].leaving
        PROVE  Grouped'
    <2>1. PICK new \in Lockspace, out \in Seq(Events) :
              /\ lsp' = [lsp EXCEPT ![k] = new]
              /\ inbox' = Multicast([inbox EXCEPT ![k] = rest], k, out)
              /\ SentBy(k, ls, out)
              /\ new.present = ls.present /\ new.leaving = ls.leaving
              /\ ls.started_count # 0 => new.started_count # 0
              /\ \A m : KeepsApart(ls, new, m)
      BY <1>2, ApplyIs
    <2>2. UNCHANGED <<cpg, down>>
      BY <1>2 DEF ApplyChanges
    <2> QED BY <1>1, <1>2, <2>1, <2>2
  <1>3. ASSUME NEW k \in Nodes, DaemonStep(k) PROVE Grouped'
    <2>0. lsp[k] \in Lockspace /\ inbox[k] \in Seq(Events) /\ now \in Nat
      BY DEF Inv, TypeOK
    <2>1. CASE DeliverConfchg(k)
      <3> DEFINE ls == confchg_cb(k, lsp[k], Head(inbox[k]))
      <3>1. Head(inbox[k]) \in Confchg /\ Tail(inbox[k]) \in Seq(Events)
        BY <2>1, HeadType DEF DeliverConfchg, Inv
      <3>2. ls \in Lockspace
        BY <2>0, <3>1, ConfchgRules DEF Inv
      <3>3. ls.present = lsp[k].present /\ ls.leaving = lsp[k].leaving
        BY <2>0, <3>1, ConfchgKeep, SMT
      <3>4. ApplyChanges(k, ls, Tail(inbox[k]))
        BY <2>1 DEF DeliverConfchg
      <3> HIDE DEF ls
      <3> QED BY <1>2, <3>1, <3>2, <3>3, <3>4
    <2>2. CASE DeliverLeave(k)
      <3>1. lsp[k].leaving /\ lsp' = [lsp EXCEPT ![k] = NoLockspace] /\ UNCHANGED <<cpg, down>>
        BY <2>2 DEF DeliverLeave, OurLeave
      <3>2. ~NoLockspace.present
        BY DEF NoLockspace
      <3> QED BY <1>0, <3>1, <3>2 DEF Grouped
    <2>3. CASE DeliverMessage(k)
      <3> DEFINE ls == deliver_cb(k, lsp[k], Head(inbox[k]), now)
      <3>1. Head(inbox[k]) \in Message /\ Tail(inbox[k]) \in Seq(Events)
        BY <2>3, HeadType DEF DeliverMessage, Inv
      <3>2. ls \in Lockspace
        BY <2>0, <3>1, DeliverRules DEF Inv
      <3>3. ls.present = lsp[k].present /\ ls.leaving = lsp[k].leaving
        BY <2>0, <3>1, DeliverKeep, SMT
      <3>4. ApplyChanges(k, ls, Tail(inbox[k]))
        BY <2>3 DEF DeliverMessage
      <3> HIDE DEF ls
      <3> QED BY <1>2, <3>1, <3>2, <3>3, <3>4
    <2>4. CASE SkipGap(k)
      BY <2>4 DEF SkipGap, Grouped
    <2>5. CASE ProcessLockspaceChanges(k)
      BY <1>2, <2>0, <2>5 DEF ProcessLockspaceChanges
    <2>6. CASE QuorumCallback(k)
      BY <2>6 DEF QuorumCallback, Grouped
    <2>7. ASSUME NEW h \in Nodes, FsNotified(k, h) PROVE Grouped'
      <3> DEFINE new == set_fs_notified(lsp[k], h)
      <3>1. new.present = lsp[k].present /\ new.leaving = lsp[k].leaving
        BY <2>0 DEF set_fs_notified, Lockspace
      <3>2. lsp' = [lsp EXCEPT ![k] = new] /\ UNCHANGED <<cpg, down>>
        BY <2>7 DEF FsNotified
      <3> HIDE DEF new
      <3> QED BY <1>1, <3>1, <3>2
    <2> QED BY <1>3, <2>1, <2>2, <2>3, <2>4, <2>5, <2>6, <2>7 DEF DaemonStep
  <1>4. ASSUME NEW k \in Nodes, Join(k) PROVE Grouped'
    <2>1. dlm_join_lockspace(FsRegister).present /\ ~dlm_join_lockspace(FsRegister).leaving
      BY DEF dlm_join_lockspace, NoLockspace
    <2>2. /\ lsp' = [lsp EXCEPT ![k] = dlm_join_lockspace(FsRegister)]
          /\ cpg' = cpg \cup {k} /\ down' = down \ {k}
      BY <1>4 DEF Join
    <2> QED BY <1>0, <2>1, <2>2 DEF Grouped
  <1>5. ASSUME NEW k \in Nodes, Leave(k) PROVE Grouped'
    <2> DEFINE new == [lsp[k] EXCEPT !.leaving = TRUE]
    <2>1. new.leaving
      BY <1>0, SMT DEF Lockspace
    <2>2. lsp' = [lsp EXCEPT ![k] = new] /\ cpg' = cpg \ {k} /\ down' = down
      BY <1>5 DEF Leave
    <2> HIDE DEF new
    <2> QED BY <1>0, <2>1, <2>2 DEF Grouped
  <1>6. ASSUME NEW k \in Nodes, Stop(k) PROVE Grouped'
    <2>1. ~NoLockspace.present
      BY DEF NoLockspace
    <2>2. lsp' = [lsp EXCEPT ![k] = NoLockspace] /\ cpg' = cpg \ {k} /\ down' = down \cup {k}
      BY <1>6 DEF Stop
    <2> QED BY <1>0, <2>1, <2>2 DEF Grouped
  <1>7. ASSUME UNCHANGED <<lsp, cpg, down>> PROVE Grouped'
    BY <1>7 DEF Grouped
  <1> QED BY <1>3, <1>4, <1>5, <1>6, <1>7
             DEF Next, Crash, Fence, Partition, Merge, Tick, vars

\* Every step leaves parted nodes parted, or resets one of them.
LEMMA PartNext == PartInv /\ [Next]_vars => PartInv'
  <1> SUFFICES ASSUME PartInv, [Next]_vars PROVE PartInv'
    OBVIOUS
  <1>0. Inv /\ Grouped /\ Inv' /\ Grouped'
    BY NextInv, GroupedNext DEF PartInv
  <1> SUFFICES ASSUME NEW p \in divorced' PROVE Parted(p[1], p[2])'
    BY <1>0 DEF PartInv
  <1> DEFINE n == p[1]
             m == p[2]
  <1>1. n \in Nodes /\ m \in Nodes /\ p = <<n, m>> /\ <<n, m>> \in divorced'
    <2>1. p \in Nodes \X Nodes
      BY <1>0 DEF Inv, TypeOK
    <2>2. n \in Nodes /\ m \in Nodes /\ p = <<n, m>>
      BY <2>1, SMT
    <2> QED BY <2>2
  <1>2. p \in divorced => Parted(n, m)
    BY DEF PartInv
  <1> HIDE DEF n, m
  <1>3. ASSUME p \in divorced, Parted(n, m), ~\E S \in SUBSET Nodes : Partition(S)
        PROVE  Parted(n, m)'
    <2>1. ASSUME NEW k \in Nodes, DaemonStep(k) PROVE Parted(n, m)'
      BY <1>0, <1>1, <1>3, <2>1, DaemonParted
    <2>2. ASSUME NEW k \in Nodes, Join(k) PROVE Parted(n, m)'
      BY <1>0, <1>1, <1>3, <2>2, JoinParted
    <2>3. ASSUME NEW k \in Nodes, Leave(k) PROVE Parted(n, m)'
      BY <1>0, <1>1, <1>3, <2>3, LeaveParted
    <2>4. ASSUME NEW k \in Nodes, Crash(k) PROVE Parted(n, m)'
      <3>1. Stop(k) /\ away' \in {away, away \ {k}}
        BY <2>4 DEF Crash
      <3> QED BY <1>0, <1>1, <1>3, <3>1, StopParted
    <2>5. ASSUME NEW k \in Nodes, Fence(k) PROVE Parted(n, m)'
      <3>1. Stop(k) /\ away' \in {away, away \ {k}}
        BY <2>5 DEF Fence
      <3> QED BY <1>0, <1>1, <1>3, <3>1, StopParted
    <2>6. CASE Merge
      BY <1>0, <1>1, <1>3, <2>6, MergeParted
    <2>7. CASE Tick \/ UNCHANGED vars
      BY <1>3, <2>7 DEF Tick, vars, Parted, Group, SameSide
    <2> QED BY <1>3, <2>1, <2>2, <2>3, <2>4, <2>5, <2>6, <2>7 DEF Next
  <1>4. ASSUME NEW S \in SUBSET Nodes, Partition(S) PROVE Parted(n, m)'
    <2>1. \/ p \in divorced
          \/ n \in cpg /\ m \in cpg /\ (n \in S) # (m \in S) /\ lsp[m].started_count # 0
      BY <1>1, <1>4 DEF Partition, n, m
    <2> QED BY <1>0, <1>1, <1>2, <1>4, <2>1, PartitionParted
  <1>5. ASSUME ~\E S \in SUBSET Nodes : Partition(S) PROVE p \in divorced
    BY <1>1, <1>5
       DEF Next, DaemonStep, DeliverConfchg, DeliverLeave, DeliverMessage, SkipGap,
          ProcessLockspaceChanges, QuorumCallback, FsNotified, ApplyChanges, Join, Leave, Crash,
          Fence, Stop, Reset, Merge, Tick, vars, history
  <1> QED BY <1>2, <1>3, <1>4, <1>5 DEF n, m

-----------------------------------------------------------------------------
(***************************************************************************)
(* The invariant behind SameChange.  A start message carries no number, so *)
(* a node can count one for another change than it was sent for.  But the  *)
(* queues have one order: if m counts a start message of n for the change  *)
(* w, then n sent it when w was in n's queue, or taken from it, and n's    *)
(* own copy of the message is behind w.  n does not start a change while a *)
(* copy of a start message of its own is in its queue.                     *)
(***************************************************************************)
Newest(ls) == IF ls.changes # <<>> THEN ls.changes[1].view ELSE ls.started_change.view

ConfchgAt(q, i) == i \in DOMAIN q /\ q[i].type = "confchg"
StartAt(q, n, j) == j \in DOMAIN q /\ q[j].type = "start" /\ q[j].from = n

\* The changes of a record are numbered in their order, up to top.
Numbered(ls, top) ==
    /\ \A i, j \in DOMAIN ls.changes : i < j => ls.changes[j].view < ls.changes[i].view
    /\ \A k \in DOMAIN ls.changes : ls.changes[k].view > 0
    /\ ls.started_change.members # {} => ls.started_change.view > 0
    /\ Newest(ls) <= top /\ ls.started_change.view <= top

\* ... and so are the confchgs in the queue, after those of the record.
Ordered(q, ls, top) ==
    /\ Numbered(ls, top)
    /\ \A i : ConfchgAt(q, i) => Newest(ls) < q[i].view /\ q[i].view <= top
    /\ \A i, j : i < j /\ ConfchgAt(q, i) /\ ConfchgAt(q, j) => q[i].view < q[j].view

\* n's copy of its own start message, the j-th of its queue: the change is still on the
\* list, and no start message of n has been counted for it or a newer one.
OwnStart(q, ls, n, j) ==
    /\ \E k \in DOMAIN ls.changes :
          ls.changes[k].view = q[j].view /\ match_change(n, ls.changes[k], q[j])
    /\ \A k \in DOMAIN ls.changes : n \in ls.changes[k].start => ls.changes[k].view < q[j].view
    /\ q[j].view = ls.changes[1].view => ls.changes[1].state = "messages"
    /\ \A l : j < l /\ StartAt(q, n, l) => q[j].view < q[l].view

Own(q, ls, n) ==
    /\ \A j : StartAt(q, n, j) => OwnStart(q, ls, n, j)
    /\ ls.changes # <<>> /\ ls.changes[1].state = "conditions" => n \notin ls.changes[1].start
    /\ \A k \in DOMAIN ls.changes : n \in ls.changes[k].members
    /\ \A i : ConfchgAt(q, i) => n \in q[i].members \/ (n \in q[i].left /\ ls.leaving)

Sound(q, ls, n, top) ==
    /\ q \in Seq(Events) /\ ls \in Lockspace /\ Ordered(q, ls, top) /\ Own(q, ls, n)
    /\ ~ls.present => q = <<>>

\* A node has the change w, or has one at least as new.
Has(q, ls, w) == w = Newest(ls) \/ \E i : ConfchgAt(q, i) /\ w = q[i].view
Reaches(q, ls, w) == Newest(ls) >= w \/ \E i : ConfchgAt(q, i) /\ q[i].view >= w

\* m counts, or may come to count, a start message of n for the change w.
Heard(q, ls, n, w) ==
    \/ \E k \in DOMAIN ls.changes : /\ w = ls.changes[k].view
                                    /\ n \in ls.changes[k].start \/ \E j : StartAt(q, n, j)
    \/ \E i, j : i < j /\ ConfchgAt(q, i) /\ StartAt(q, n, j) /\ w = q[i].view
    \/ n \in ls.started_change.start /\ w = ls.started_change.view

\* n has taken w, or has it in its queue and its own start message behind it, or was reset.
Knows(q, ls, n, w) ==
    \/ ~ls.present
    \/ Newest(ls) >= w
    \/ \E i, j : i < j /\ ConfchgAt(q, i) /\ q[i].view >= w /\ StartAt(q, n, j)
    \/ Newest(ls) = 0 /\ \A i : ConfchgAt(q, i) => q[i].view >= w

\* For all nodes, with their queues and records, the pairs of nodes that are in one part
\* of the group, and the number of the last confchg.
Told(box, rec, pairs, top) ==
    /\ box \in [Nodes -> Seq(Events)] /\ rec \in [Nodes -> Lockspace] /\ top \in Nat
    /\ \A n \in Nodes : Sound(box[n], rec[n], n, top)
    /\ \A n, m \in Nodes : \A w \in Nat :
          <<n, m>> \in pairs /\ Has(box[m], rec[m], w) => Reaches(box[n], rec[n], w)
    /\ \A n, m \in Nodes : \A w \in Nat :
          Heard(box[m], rec[m], n, w) => Knows(box[n], rec[n], n, w)

-----------------------------------------------------------------------------
(* Queues and records *)

\* The numbers of queued events.
LEMMA EventFields ==
    ASSUME NEW q \in Seq(Events)
    PROVE  /\ \A i : ConfchgAt(q, i) => q[i] \in Confchg /\ q[i].view \in Nat /\ i \in Nat /\ i \in 1 .. Len(q)
           /\ \A n, j : StartAt(q, n, j) => q[j] \in Message /\ q[j].view \in Nat /\ j \in Nat /\ j \in 1 .. Len(q)
           /\ Len(q) \in Nat /\ DOMAIN q = 1 .. Len(q)
  <1>1. /\ \A cc \in Confchg : cc.type = "confchg" /\ cc.view \in Nat
        /\ \A msg \in Message : msg.type \in {"start", "stored"} /\ msg.view \in Nat
        /\ Gap.type = "gap"
    BY DEF Confchg, Message, Gap
  <1>2. Len(q) \in Nat /\ DOMAIN q = 1 .. Len(q) /\ \A i \in 1 .. Len(q) : i \in Nat /\ q[i] \in Events
    BY SMT
  <1> QED BY <1>1, <1>2 DEF Events, ConfchgAt, StartAt

\* The numbers of the changes of a record.
LEMMA ChangeFields ==
    ASSUME NEW ls \in Lockspace
    PROVE  /\ ls.changes \in Seq(Change) /\ Len(ls.changes) \in Nat /\ DOMAIN ls.changes = 1 .. Len(ls.changes)
           /\ \A k \in DOMAIN ls.changes : k \in Nat /\ ls.changes[k] \in Change /\ ls.changes[k].view \in Nat
           /\ ls.changes # <<>> => 1 \in DOMAIN ls.changes
           /\ ls.changes = <<>> => DOMAIN ls.changes = {}
           /\ ls.started_change.view \in Nat /\ Newest(ls) \in Nat
  <1>1. ls.changes \in Seq(Change) /\ ls.started_change.view \in Nat
    BY DEF Lockspace, Change
  <1>2. /\ Len(ls.changes) \in Nat /\ DOMAIN ls.changes = 1 .. Len(ls.changes)
        /\ \A k \in DOMAIN ls.changes : k \in Nat /\ ls.changes[k] \in Change
        /\ ls.changes # <<>> => 1 \in DOMAIN ls.changes
        /\ ls.changes = <<>> => DOMAIN ls.changes = {}
    BY <1>1, SMT
  <1>3. \A c \in Change : c.view \in Nat
    BY DEF Change
  <1> QED BY <1>1, <1>2, <1>3 DEF Newest

\* No change on the list is newer than the newest.
LEMMA ListViews ==
    ASSUME NEW ls \in Lockspace, NEW top, Numbered(ls, top), NEW k \in DOMAIN ls.changes
    PROVE  ls.changes[k].view <= Newest(ls) /\ Newest(ls) = ls.changes[1].view /\ 1 \in DOMAIN ls.changes
  <1>1. ls.changes # <<>> /\ 1 \in DOMAIN ls.changes /\ k \in Nat /\ k \in 1 .. Len(ls.changes)
        /\ ls.changes[k].view \in Nat /\ ls.changes[1].view \in Nat
    BY ChangeFields
  <1>2. k = 1 \/ 1 < k
    BY <1>1, SMT
  <1>3. 1 < k => ls.changes[k].view < ls.changes[1].view
    BY <1>1 DEF Numbered
  <1> QED BY <1>1, <1>2, <1>3, SMT DEF Newest

\* Taking the head of a queue
LEMMA AtTail ==
    ASSUME NEW q \in Seq(Events), q # <<>>
    PROVE  /\ Tail(q) \in Seq(Events)
           /\ \A i : ConfchgAt(Tail(q), i) <=> i \in Nat \ {0} /\ ConfchgAt(q, i + 1)
           /\ \A i : ConfchgAt(Tail(q), i) => Tail(q)[i] = q[i + 1]
           /\ \A n, j : StartAt(Tail(q), n, j) <=> j \in Nat \ {0} /\ StartAt(q, n, j + 1)
           /\ \A n, j : StartAt(Tail(q), n, j) => Tail(q)[j] = q[j + 1]
           /\ Head(q) = q[1] /\ 1 \in DOMAIN q
  <1>1. /\ Tail(q) \in Seq(Events) /\ Len(q) \in Nat \ {0} /\ DOMAIN q = 1 .. Len(q)
        /\ DOMAIN Tail(q) = 1 .. Len(q) - 1
        /\ \A i \in 1 .. Len(q) - 1 : Tail(q)[i] = q[i + 1]
        /\ Head(q) = q[1]
    BY TailIs
  <1>2. \A i : i \in 1 .. Len(q) - 1 <=> i \in Nat \ {0} /\ i + 1 \in 1 .. Len(q)
    BY <1>1, SMT
  <1>3. 1 \in 1 .. Len(q)
    BY <1>1, SMT
  <1> HIDE DEF Head, Tail
  <1> QED BY <1>1, <1>2, <1>3 DEF ConfchgAt, StartAt

\* p is the queue q with the messages in out at its end.
Ends(q, out, p) ==
    /\ p \in Seq(Events)
    /\ \A i \in DOMAIN q : i \in DOMAIN p /\ p[i] = q[i]
    /\ \A i \in DOMAIN out : Len(q) + i \in DOMAIN p /\ p[Len(q) + i] = out[i]
    /\ \A i \in DOMAIN p : i \in DOMAIN q \/ \E j \in DOMAIN out : i = Len(q) + j /\ p[i] = out[j]

\* Sending out to a queue
LEMMA AtEnd ==
    ASSUME NEW q \in Seq(Events), NEW out \in Seq(Events)
    PROVE  Ends(q, out, q \o out)
  <1> DEFINE p == q \o out
  <1>1. /\ p \in Seq(Events)
        /\ \A i \in DOMAIN q : i \in DOMAIN p /\ p[i] = q[i]
        /\ \A i \in DOMAIN out : Len(q) + i \in DOMAIN p /\ p[Len(q) + i] = out[i]
        /\ \A i \in DOMAIN p : i \in DOMAIN q \/ (i - Len(q) \in DOMAIN out /\ i = Len(q) + (i - Len(q)))
    BY SMT
  <1> HIDE DEF p
  <1>2. ASSUME NEW i \in DOMAIN p, i \notin DOMAIN q
        PROVE  \E j \in DOMAIN out : i = Len(q) + j /\ p[i] = out[j]
    <2> DEFINE j == i - Len(q)
    <2>1. j \in DOMAIN out /\ i = Len(q) + j
      BY <1>1, <1>2
    <2> HIDE DEF j
    <2> QED BY <1>1, <2>1
  <1>3. Ends(q, out, p)
    BY <1>1, <1>2 DEF Ends
  <1> QED BY <1>3 DEF p

-----------------------------------------------------------------------------
(* One node *)

\* A step of a node from the queue q and the record ls to p and new: it still knows and
\* reaches what it did, and has and counts nothing more.
Steady(q, ls, n, p, new) ==
    /\ \A w \in Nat : Knows(q, ls, n, w) => Knows(p, new, n, w)
    /\ \A w \in Nat : Reaches(q, ls, w) => Reaches(p, new, w)
    /\ \A w \in Nat : Has(p, new, w) => Has(q, ls, w)
    /\ \A m : \A w \in Nat : Heard(p, new, m, w) => Heard(q, ls, m, w)

\* Only flags, and the state of the newest change, differ.
Flagged(a, b) ==
    /\ Len(b.changes) = Len(a.changes)
    /\ \A i \in 1 .. Len(a.changes) :
          /\ b.changes[i].members = a.changes[i].members
          /\ b.changes[i].view = a.changes[i].view
          /\ Counts(b.changes[i]) = Counts(a.changes[i])
          /\ b.changes[i].start = a.changes[i].start
    /\ a.changes # <<>> => b.changes[1].state \in {a.changes[1].state, "messages"}
    /\ b.started_change = a.started_change
    /\ b.present = a.present /\ (a.leaving => b.leaving)

\* A step that only changes flags, or moves the newest change on
LEMMA FlaggedSteady ==
    ASSUME NEW q, NEW ls, NEW n, NEW top, Sound(q, ls, n, top),
           NEW new \in Lockspace, Flagged(ls, new)
    PROVE  Sound(q, new, n, top) /\ Steady(q, ls, n, q, new)
  <1>0. q \in Seq(Events) /\ ls \in Lockspace /\ Ordered(q, ls, top) /\ Own(q, ls, n)
        /\ (~ls.present => q = <<>>)
    BY DEF Sound
  <1>1. /\ DOMAIN new.changes = DOMAIN ls.changes /\ DOMAIN ls.changes = 1 .. Len(ls.changes)
        /\ (new.changes # <<>> <=> ls.changes # <<>>)
        /\ (ls.changes # <<>> => 1 \in 1 .. Len(ls.changes))
    <2>1. /\ ls.changes \in Seq(Change) /\ new.changes \in Seq(Change)
          /\ Len(new.changes) = Len(ls.changes)
      BY <1>0 DEF Lockspace, Flagged
    <2> QED BY <2>1, SMT
  <1>2. /\ \A i \in DOMAIN ls.changes :
              /\ new.changes[i].members = ls.changes[i].members
              /\ new.changes[i].view = ls.changes[i].view
              /\ Counts(new.changes[i]) = Counts(ls.changes[i])
              /\ new.changes[i].start = ls.changes[i].start
        /\ ls.changes # <<>> => new.changes[1].state \in {ls.changes[1].state, "messages"}
        /\ new.started_change = ls.started_change
        /\ new.present = ls.present /\ (ls.leaving => new.leaving)
    BY <1>1 DEF Flagged
  <1>3. Newest(new) = Newest(ls)
    BY <1>1, <1>2 DEF Newest
  <1>4. Numbered(new, top)
    BY <1>0, <1>1, <1>2, <1>3 DEF Numbered, Ordered
  <1>5. Ordered(q, new, top)
    BY <1>0, <1>3, <1>4 DEF Ordered
  <1>6. ASSUME NEW j, StartAt(q, n, j) PROVE OwnStart(q, new, n, j)
    <2>1. OwnStart(q, ls, n, j)
      BY <1>0, <1>6 DEF Own
    <2>2. \A k \in DOMAIN ls.changes : match_change(n, new.changes[k], q[j]) <=> match_change(n, ls.changes[k], q[j])
      BY <1>2 DEF match_change
    <2>3. ls.changes # <<>>
      BY <1>0, <2>1, ChangeFields DEF OwnStart
    <2> QED BY <1>1, <1>2, <2>1, <2>2, <2>3 DEF OwnStart
  <1>7. Own(q, new, n)
    BY <1>0, <1>1, <1>2, <1>6 DEF Own
  <1>8. Steady(q, ls, n, q, new)
    BY <1>1, <1>2, <1>3 DEF Steady, Knows, Reaches, Has, Heard
  <1> QED BY <1>0, <1>2, <1>5, <1>7, <1>8 DEF Sound

\* apply_changes starts the newest change: none of n's own start messages is in its queue.
LEMMA StartSteady ==
    ASSUME NEW q, NEW ls, NEW n, NEW top, Sound(q, ls, n, top), top \in Nat,
           NEW new \in Lockspace, StartedFrom(ls, new), new.present = ls.present,
           new.leaving = ls.leaving
    PROVE  Sound(q, new, n, top) /\ Steady(q, ls, n, q, new)
  <1>0. q \in Seq(Events) /\ ls \in Lockspace /\ Ordered(q, ls, top) /\ Own(q, ls, n)
        /\ (~ls.present => q = <<>>) /\ Numbered(ls, top)
    BY DEF Sound, Ordered
  <1>1. /\ ls.changes # <<>> /\ 1 \in DOMAIN ls.changes /\ new.changes = <<>>
        /\ DOMAIN new.changes = {} /\ new.started_change = ls.changes[1]
        /\ ls.changes[1].members \subseteq ls.changes[1].start
    BY <1>0, ChangeFields DEF StartedFrom
  <1>2. Newest(new) = Newest(ls) /\ new.started_change.view = Newest(ls) /\ Newest(ls) = ls.changes[1].view
    BY <1>1 DEF Newest
  <1>3. ASSUME NEW j, StartAt(q, n, j) PROVE FALSE
    <2>1. OwnStart(q, ls, n, j) /\ n \in ls.changes[1].members
      BY <1>0, <1>1, <1>3 DEF Own
    <2>2. ls.changes[1].view < q[j].view
      BY <1>1, <2>1 DEF OwnStart
    <2>3. PICK k \in DOMAIN ls.changes : ls.changes[k].view = q[j].view
      BY <2>1 DEF OwnStart
    <2>4. ls.changes[k].view <= ls.changes[1].view
      BY <1>0, <1>2, <2>3, ListViews
    <2>5. ls.changes[1].view \in Nat /\ q[j].view \in Nat
      BY <1>0, <1>1, <2>3, ChangeFields
    <2> QED BY <2>2, <2>3, <2>4, <2>5, SMT
  <1>4. Numbered(new, top)
    BY <1>0, <1>1, <1>2 DEF Numbered
  <1>5. Ordered(q, new, top)
    BY <1>0, <1>2, <1>4 DEF Ordered
  <1>6. Own(q, new, n)
    BY <1>0, <1>1, <1>3 DEF Own
  <1>7. Steady(q, ls, n, q, new)
    <2>1. \A w : Knows(q, ls, n, w) => Knows(q, new, n, w)
      BY <1>2 DEF Knows
    <2>2. \A w : (Reaches(q, ls, w) <=> Reaches(q, new, w)) /\ (Has(q, ls, w) <=> Has(q, new, w))
      BY <1>2 DEF Reaches, Has
    <2>3. \A m, w : Heard(q, new, m, w) => Heard(q, ls, m, w)
      BY <1>1 DEF Heard
    <2> QED BY <2>1, <2>2, <2>3 DEF Steady
  <1> QED BY <1>0, <1>5, <1>6, <1>7 DEF Sound

\* confchg_cb: the head of the queue becomes the newest change.
LEMMA ConfchgSteady ==
    ASSUME NEW q, NEW ls, NEW n \in Nodes, NEW top \in Nat, Sound(q, ls, n, top),
           q # <<>>, Head(q).type = "confchg", ~(ls.leaving /\ n \in Head(q).left),
           NEW new, new = confchg_cb(n, ls, Head(q))
    PROVE  Sound(Tail(q), new, n, top) /\ Steady(q, ls, n, Tail(q), new)
  <1> DEFINE p == Tail(q)
             cc == Head(q)
  <1>0. q \in Seq(Events) /\ ls \in Lockspace /\ Ordered(q, ls, top) /\ Own(q, ls, n)
        /\ ls.present /\ Numbered(ls, top)
    BY DEF Sound, Ordered
  <1>1. /\ p \in Seq(Events)
        /\ \A i : ConfchgAt(p, i) <=> i \in Nat \ {0} /\ ConfchgAt(q, i + 1)
        /\ \A i : ConfchgAt(p, i) => p[i] = q[i + 1]
        /\ \A m, j : StartAt(p, m, j) <=> j \in Nat \ {0} /\ StartAt(q, m, j + 1)
        /\ \A m, j : StartAt(p, m, j) => p[j] = q[j + 1]
        /\ cc = q[1] /\ 1 \in DOMAIN q
    BY <1>0, AtTail
  <1>2. ConfchgAt(q, 1) /\ q[1] = cc
    BY <1>1 DEF ConfchgAt
  <1>3. cc \in Confchg /\ cc.view \in Nat
    BY <1>0, <1>2, EventFields
  <1> HIDE DEF p, cc
  <1>4. new = confchg_cb(n, ls, cc) /\ ~(ls.leaving /\ n \in cc.left)
    BY DEF cc
  <1>5. /\ new \in Lockspace
        /\ new.present = ls.present /\ new.leaving = ls.leaving
        /\ new.started_change = ls.started_change
        /\ Len(new.changes) = Len(ls.changes) + 1
        /\ new.changes[1] = NewChange(cc)
        /\ \A i \in 1 .. Len(ls.changes) : new.changes[i + 1] = ls.changes[i]
        /\ \A i \in 1 .. Len(ls.changes) + 1 : i = 1 \/ (i - 1 \in 1 .. Len(ls.changes) /\ (i - 1) + 1 = i)
    BY <1>0, <1>3, <1>4, ConfchgList
  <1>6. /\ new.changes[1].view = cc.view /\ new.changes[1].start = {}
        /\ new.changes[1].members = cc.members
    <2>1. /\ NewChange(cc).view = cc.view /\ NewChange(cc).start = {}
          /\ NewChange(cc).members = cc.members
      BY DEF NewChange
    <2> QED BY <1>5, <2>1
  <1>7. /\ Len(ls.changes) \in Nat /\ DOMAIN ls.changes = 1 .. Len(ls.changes)
        /\ DOMAIN new.changes = 1 .. Len(ls.changes) + 1
        /\ new.changes # <<>> /\ Newest(ls) \in Nat /\ ls.started_change.view \in Nat
        /\ \A k \in DOMAIN ls.changes : k \in Nat /\ ls.changes[k].view \in Nat
    <2>1. /\ Len(ls.changes) \in Nat /\ DOMAIN ls.changes = 1 .. Len(ls.changes)
          /\ Newest(ls) \in Nat /\ ls.started_change.view \in Nat
          /\ \A k \in DOMAIN ls.changes : k \in Nat /\ ls.changes[k].view \in Nat
      BY <1>0, ChangeFields
    <2>2. DOMAIN new.changes = 1 .. Len(new.changes) /\ (new.changes = <<>> => DOMAIN new.changes = {})
      BY <1>5, ChangeFields
    <2>3. 1 \in 1 .. Len(ls.changes) + 1
      BY <2>1, SMT
    <2> QED BY <1>5, <2>1, <2>2, <2>3
  <1>8. Newest(new) = cc.view
    BY <1>6, <1>7 DEF Newest
  <1>9. Newest(ls) < cc.view /\ cc.view <= top
    BY <1>0, <1>2 DEF Ordered
  <1>10. \A k \in DOMAIN ls.changes : ls.changes[k].view < cc.view
    <2>1. \A k \in DOMAIN ls.changes : ls.changes[k].view <= Newest(ls)
      BY <1>0, ListViews
    <2> QED BY <1>3, <1>7, <1>9, <2>1, SMT
  <1>11. Numbered(new, top)
    <2>1. ASSUME NEW i \in DOMAIN new.changes, NEW j \in DOMAIN new.changes, i < j
          PROVE  new.changes[j].view < new.changes[i].view
      <3>1. j # 1 /\ j - 1 \in DOMAIN ls.changes /\ new.changes[j] = ls.changes[j - 1]
        <4>1. j # 1
          BY <1>7, <2>1, SMT
        <4> QED BY <1>5, <1>7, <2>1, <4>1
      <3>2. CASE i = 1
        BY <1>6, <1>10, <3>1, <3>2
      <3>3. CASE i # 1
        <4>1. i - 1 \in DOMAIN ls.changes /\ new.changes[i] = ls.changes[i - 1]
          BY <1>5, <1>7, <3>3
        <4>2. i - 1 < j - 1
          BY <1>7, <2>1, SMT
        <4> QED BY <1>0, <3>1, <4>1, <4>2 DEF Numbered
      <3> QED BY <3>2, <3>3
    <2>2. ASSUME NEW k \in DOMAIN new.changes PROVE new.changes[k].view > 0
      <3>1. cc.view > 0
        BY <1>3, <1>7, <1>9, SMT
      <3>2. CASE k = 1
        BY <1>6, <3>1, <3>2
      <3>3. CASE k # 1
        <4>1. k - 1 \in DOMAIN ls.changes /\ new.changes[k] = ls.changes[k - 1]
          BY <1>5, <1>7, <3>3
        <4> QED BY <1>0, <4>1 DEF Numbered
      <3> QED BY <3>2, <3>3
    <2> QED BY <1>0, <1>5, <1>8, <1>9, <2>1, <2>2 DEF Numbered
  <1>12. Ordered(p, new, top)
    <2>1. ASSUME NEW i, ConfchgAt(p, i) PROVE Newest(new) < p[i].view /\ p[i].view <= top
      <3>1. ConfchgAt(q, i + 1) /\ p[i] = q[i + 1] /\ i \in Nat \ {0}
        BY <1>1, <2>1
      <3>2. 1 < i + 1
        BY <3>1, SMT
      <3> QED BY <1>0, <1>2, <1>8, <3>1, <3>2 DEF Ordered
    <2>2. ASSUME NEW i, NEW j, i < j, ConfchgAt(p, i), ConfchgAt(p, j) PROVE p[i].view < p[j].view
      <3>1. /\ ConfchgAt(q, i + 1) /\ p[i] = q[i + 1] /\ i \in Nat
            /\ ConfchgAt(q, j + 1) /\ p[j] = q[j + 1] /\ j \in Nat
        BY <1>1, <2>2
      <3>2. i + 1 < j + 1
        BY <2>2, <3>1, SMT
      <3> QED BY <1>0, <3>1, <3>2 DEF Ordered
    <2> QED BY <1>11, <2>1, <2>2 DEF Ordered
  <1>13. ASSUME NEW j, StartAt(p, n, j) PROVE OwnStart(p, new, n, j)
    <2>1. StartAt(q, n, j + 1) /\ p[j] = q[j + 1] /\ j \in Nat
      BY <1>1, <1>13
    <2>2. OwnStart(q, ls, n, j + 1)
      BY <1>0, <2>1 DEF Own
    <2>3. PICK k \in DOMAIN ls.changes : ls.changes[k].view = p[j].view /\ match_change(n, ls.changes[k], p[j])
      BY <2>1, <2>2 DEF OwnStart
    <2>4. p[j].view < cc.view /\ p[j].view # cc.view
      <3>1. p[j].view < cc.view /\ p[j].view \in Nat
        BY <1>7, <1>10, <2>3
      <3> QED BY <1>3, <3>1, SMT
    <2>5. k + 1 \in DOMAIN new.changes /\ new.changes[k + 1] = ls.changes[k]
      <3>1. k + 1 \in 1 .. Len(ls.changes) + 1
        BY <1>7, <2>3, SMT
      <3> QED BY <1>5, <1>7, <3>1
    <2>6. ASSUME NEW i \in DOMAIN new.changes, n \in new.changes[i].start PROVE new.changes[i].view < p[j].view
      <3>1. i - 1 \in DOMAIN ls.changes /\ new.changes[i] = ls.changes[i - 1]
        BY <1>5, <1>6, <1>7, <2>6
      <3> QED BY <2>1, <2>2, <2>6, <3>1 DEF OwnStart
    <2>7. ASSUME NEW l, j < l, StartAt(p, n, l) PROVE p[j].view < p[l].view
      <3>1. StartAt(q, n, l + 1) /\ p[l] = q[l + 1] /\ l \in Nat
        BY <1>1, <2>7
      <3>2. j + 1 < l + 1
        BY <2>1, <2>7, <3>1, SMT
      <3> QED BY <2>1, <2>2, <3>1, <3>2 DEF OwnStart
    <2> QED BY <1>6, <2>3, <2>4, <2>5, <2>6, <2>7 DEF OwnStart
  <1>14. Own(p, new, n)
    <2>1. n \in cc.members
      BY <1>0, <1>2, <1>4 DEF Own
    <2>2. ASSUME NEW k \in DOMAIN new.changes PROVE n \in new.changes[k].members
      <3>1. CASE k = 1
        BY <1>6, <2>1, <3>1
      <3>2. CASE k # 1
        <4>1. k - 1 \in DOMAIN ls.changes /\ new.changes[k] = ls.changes[k - 1]
          BY <1>5, <1>7, <3>2
        <4> QED BY <1>0, <4>1 DEF Own
      <3> QED BY <3>1, <3>2
    <2>3. ASSUME NEW i, ConfchgAt(p, i) PROVE n \in p[i].members \/ (n \in p[i].left /\ new.leaving)
      <3>1. ConfchgAt(q, i + 1) /\ p[i] = q[i + 1]
        BY <1>1, <2>3
      <3>2. n \in q[i + 1].members \/ (n \in q[i + 1].left /\ ls.leaving)
        BY <1>0, <3>1 DEF Own
      <3> QED BY <1>5, <3>1, <3>2
    <2>4. new.changes # <<>> /\ new.changes[1].state = "conditions" => n \notin new.changes[1].start
      BY <1>6
    <2> QED BY ONLY <1>13, <2>2, <2>3, <2>4, SMT DEF Own
  <1>15. Steady(q, ls, n, p, new)
    <2>1. ASSUME NEW w \in Nat, Reaches(q, ls, w) PROVE Reaches(p, new, w)
      <3>1. CASE Newest(ls) >= w
        <4>1. cc.view >= w
          BY <1>3, <1>7, <1>9, <3>1, SMT
        <4> QED BY <1>8, <4>1 DEF Reaches
      <3>2. ASSUME NEW i, ConfchgAt(q, i), q[i].view >= w PROVE Reaches(p, new, w)
        <4>1. i = 1 \/ (i - 1 \in Nat \ {0} /\ (i - 1) + 1 = i)
          <5>1. i \in Nat \ {0}
            BY <1>0, <3>2, EventFields, SMT
          <5> QED BY <5>1, SMT
        <4>2. CASE i = 1
          BY <1>2, <1>8, <3>2, <4>2 DEF Reaches
        <4>3. CASE i - 1 \in Nat \ {0} /\ (i - 1) + 1 = i
          <5>1. ConfchgAt(p, i - 1) /\ p[i - 1] = q[i]
            BY <1>1, <3>2, <4>3
          <5> QED BY <3>2, <5>1 DEF Reaches
        <4> QED BY <4>1, <4>2, <4>3
      <3> QED BY <2>1, <3>1, <3>2 DEF Reaches
    <2>2. ASSUME NEW w \in Nat, Has(p, new, w) PROVE Has(q, ls, w)
      BY <1>1, <1>2, <1>8, <2>2 DEF Has
    <2>3. ASSUME NEW w \in Nat, Knows(q, ls, n, w) PROVE Knows(p, new, n, w)
      <3>1. CASE Newest(ls) >= w
        <4>1. cc.view >= w
          BY <1>3, <1>7, <1>9, <3>1, SMT
        <4> QED BY <1>8, <4>1 DEF Knows
      <3>2. ASSUME NEW i, NEW j, i < j, ConfchgAt(q, i), q[i].view >= w, StartAt(q, n, j)
            PROVE  Knows(p, new, n, w)
        <4>1. i \in Nat \ {0} /\ j \in Nat \ {0}
          BY <1>0, <3>2, EventFields, SMT
        <4>2. (i = 1 \/ (i - 1 \in Nat \ {0} /\ (i - 1) + 1 = i)) /\ j - 1 \in Nat \ {0} /\ (j - 1) + 1 = j
              /\ i - 1 < j - 1
          BY <3>2, <4>1, SMT
        <4>3. CASE i = 1
          BY <1>2, <1>8, <3>2, <4>3 DEF Knows
        <4>4. CASE i - 1 \in Nat \ {0} /\ (i - 1) + 1 = i
          <5>1. ConfchgAt(p, i - 1) /\ p[i - 1] = q[i] /\ StartAt(p, n, j - 1)
            BY <1>1, <3>2, <4>2, <4>4
          <5> QED BY <3>2, <4>2, <5>1 DEF Knows
        <4> QED BY <4>2, <4>3, <4>4
      <3>3. CASE \A i : ConfchgAt(q, i) => q[i].view >= w
        BY <1>2, <1>8, <3>3 DEF Knows
      <3> QED BY <1>0, <2>3, <3>1, <3>2, <3>3 DEF Knows
    <2>4. ASSUME NEW m, NEW w \in Nat, Heard(p, new, m, w) PROVE Heard(q, ls, m, w)
      <3>1. ASSUME NEW k \in DOMAIN new.changes, w = new.changes[k].view,
                   m \in new.changes[k].start \/ \E j : StartAt(p, m, j)
            PROVE  Heard(q, ls, m, w)
        <4>1. CASE k = 1
          <5>1. PICK j : StartAt(p, m, j)
            BY <1>6, <3>1, <4>1
          <5>2. StartAt(q, m, j + 1) /\ j \in Nat \ {0}
            BY <1>1, <5>1
          <5>3. 1 < j + 1
            BY <5>2, SMT
          <5> QED BY <1>2, <1>6, <3>1, <4>1, <5>2, <5>3 DEF Heard
        <4>2. CASE k # 1
          <5>1. k - 1 \in DOMAIN ls.changes /\ new.changes[k] = ls.changes[k - 1]
            BY <1>5, <1>7, <4>2
          <5>2. m \in ls.changes[k - 1].start \/ \E j : StartAt(q, m, j)
            BY <1>1, <3>1, <5>1
          <5> QED BY <3>1, <5>1, <5>2 DEF Heard
        <4> QED BY <4>1, <4>2
      <3>2. ASSUME NEW i, NEW j, i < j, ConfchgAt(p, i), StartAt(p, m, j), w = p[i].view
            PROVE  Heard(q, ls, m, w)
        <4>1. /\ ConfchgAt(q, i + 1) /\ p[i] = q[i + 1] /\ i \in Nat
              /\ StartAt(q, m, j + 1) /\ j \in Nat
          BY <1>1, <3>2
        <4>2. i + 1 < j + 1
          BY <3>2, <4>1, SMT
        <4> QED BY <3>2, <4>1, <4>2 DEF Heard
      <3>3. CASE m \in new.started_change.start /\ w = new.started_change.view
        BY <1>5, <3>3 DEF Heard
      <3> QED BY <2>4, <3>1, <3>2, <3>3 DEF Heard
    <2> QED BY <2>1, <2>2, <2>3, <2>4 DEF Steady
  <1>16. Sound(p, new, n, top)
    BY <1>0, <1>1, <1>5, <1>12, <1>14 DEF Sound
  <1> QED BY <1>15, <1>16 DEF p

\* deliver_cb: the head of the queue is a message, or was one.  If it is n's own start
\* message it is counted for its own change or an older one.
LEMMA MessageSteady ==
    ASSUME NEW q, NEW ls, NEW n \in Nodes, NEW top \in Nat, Sound(q, ls, n, top),
           q # <<>>, Head(q).type # "confchg",
           NEW new \in Lockspace, SameList(ls, new), SameStates(ls, new),
           Counted(n, ls, Head(q), new)
    PROVE  Sound(Tail(q), new, n, top) /\ Steady(q, ls, n, Tail(q), new)
  <1> USE DEF Counted
  <1> DEFINE p == Tail(q)
  <1>0. q \in Seq(Events) /\ ls \in Lockspace /\ Ordered(q, ls, top) /\ Own(q, ls, n)
        /\ ls.present /\ Numbered(ls, top)
    BY DEF Sound, Ordered
  <1>1. /\ p \in Seq(Events)
        /\ \A i : ConfchgAt(p, i) <=> i \in Nat \ {0} /\ ConfchgAt(q, i + 1)
        /\ \A i : ConfchgAt(p, i) => p[i] = q[i + 1]
        /\ \A m, j : StartAt(p, m, j) <=> j \in Nat \ {0} /\ StartAt(q, m, j + 1)
        /\ \A m, j : StartAt(p, m, j) => p[j] = q[j + 1]
        /\ Head(q) = q[1] /\ 1 \in DOMAIN q
    BY <1>0, AtTail
  <1> HIDE DEF p
  <1>2. /\ q[1].type # "confchg" /\ ~ConfchgAt(q, 1)
        /\ \A i \in 1 .. Len(ls.changes) : \A m \in new.changes[i].start :
                 \/ m \in ls.changes[i].start
                 \/ /\ StartAt(q, m, 1)
                    /\ \A k \in 1 .. Len(ls.changes) : match_change(n, ls.changes[k], q[1]) => k <= i
    <2>1. Head(q) = q[1] /\ 1 \in DOMAIN q
      BY <1>1
    <2> QED BY <2>1 DEF ConfchgAt, StartAt
  <1>3. /\ DOMAIN new.changes = DOMAIN ls.changes /\ DOMAIN ls.changes = 1 .. Len(ls.changes)
        /\ (new.changes # <<>> <=> ls.changes # <<>>)
        /\ (ls.changes # <<>> => 1 \in DOMAIN ls.changes)
        /\ Len(ls.changes) \in Nat
    <2>1. /\ ls.changes \in Seq(Change) /\ new.changes \in Seq(Change)
          /\ Len(new.changes) = Len(ls.changes)
      BY <1>0 DEF Lockspace, SameList
    <2> QED BY <2>1, SMT
  <1>4. /\ \A i \in DOMAIN ls.changes :
              /\ new.changes[i].members = ls.changes[i].members
              /\ new.changes[i].view = ls.changes[i].view
              /\ Counts(new.changes[i]) = Counts(ls.changes[i])
              /\ new.changes[i].state = ls.changes[i].state
        /\ new.started_change = ls.started_change
        /\ new.present = ls.present /\ new.leaving = ls.leaving
    BY <1>3 DEF SameList, SameStates
  <1>5. Newest(new) = Newest(ls)
    BY <1>3, <1>4 DEF Newest
  <1>6. Numbered(new, top)
    BY <1>0, <1>3, <1>4, <1>5 DEF Numbered
  <1>7. Ordered(p, new, top)
    <2>1. ASSUME NEW i, NEW j, i < j, ConfchgAt(p, i), ConfchgAt(p, j) PROVE p[i].view < p[j].view
      <3>1. /\ ConfchgAt(q, i + 1) /\ p[i] = q[i + 1] /\ i \in Nat
            /\ ConfchgAt(q, j + 1) /\ p[j] = q[j + 1] /\ j \in Nat
        BY <1>1, <2>1
      <3>2. i + 1 < j + 1
        BY <2>1, <3>1, SMT
      <3> QED BY <1>0, <3>1, <3>2 DEF Ordered
    <2> QED BY <1>0, <1>1, <1>5, <1>6, <2>1 DEF Ordered
  <1>8. ASSUME NEW i \in DOMAIN ls.changes, n \in new.changes[i].start, n \notin ls.changes[i].start
        PROVE  /\ StartAt(q, n, 1) /\ ls.changes[i].view <= q[1].view /\ q[1].view \in Nat
               /\ i = 1 => ls.changes[1].state = "messages"
    <2>1. StartAt(q, n, 1) /\ \A k \in DOMAIN ls.changes : match_change(n, ls.changes[k], q[1]) => k <= i
      BY <1>2, <1>3, <1>8
    <2>2. OwnStart(q, ls, n, 1) /\ q[1].view \in Nat
      BY <1>0, <2>1, EventFields DEF Own
    <2>3. PICK k \in DOMAIN ls.changes : ls.changes[k].view = q[1].view /\ match_change(n, ls.changes[k], q[1])
      BY <2>2 DEF OwnStart
    <2>4. k <= i /\ k \in Nat /\ i \in Nat /\ ls.changes[k].view \in Nat /\ ls.changes[i].view \in Nat
          /\ k \in 1 .. Len(ls.changes)
      BY <1>0, <1>3, <1>8, <2>1, <2>3, ChangeFields
    <2>5. (k < i \/ k = i) /\ (i = 1 => k = 1)
      BY <2>4, SMT
    <2>6. k < i => ls.changes[i].view < ls.changes[k].view
      BY <1>0, <1>8, <2>3 DEF Numbered
    <2>7. ls.changes[i].view <= ls.changes[k].view
      BY <2>4, <2>5, <2>6, SMT
    <2>8. i = 1 => ls.changes[1].state = "messages"
      BY <2>2, <2>3, <2>5 DEF OwnStart
    <2> QED BY <2>1, <2>2, <2>3, <2>7, <2>8
  <1>9. ASSUME NEW j, StartAt(p, n, j) PROVE OwnStart(p, new, n, j)
    <2>1. StartAt(q, n, j + 1) /\ p[j] = q[j + 1] /\ j \in Nat \ {0}
      BY <1>1, <1>9
    <2>2. OwnStart(q, ls, n, j + 1) /\ p[j].view \in Nat
      BY <1>0, <2>1, EventFields DEF Own
    <2>3. PICK k \in DOMAIN ls.changes : ls.changes[k].view = p[j].view /\ match_change(n, ls.changes[k], p[j])
      BY <2>1, <2>2 DEF OwnStart
    <2>4. match_change(n, new.changes[k], p[j]) /\ new.changes[k].view = p[j].view /\ k \in DOMAIN new.changes
      BY <1>3, <1>4, <2>3 DEF match_change
    <2>5. ASSUME NEW i \in DOMAIN new.changes, n \in new.changes[i].start PROVE new.changes[i].view < p[j].view
      <3>1. CASE n \in ls.changes[i].start
        BY <1>3, <1>4, <2>1, <2>2, <2>5, <3>1 DEF OwnStart
      <3>2. CASE n \notin ls.changes[i].start
        <4>1. StartAt(q, n, 1) /\ ls.changes[i].view <= q[1].view /\ q[1].view \in Nat
          BY <1>3, <1>8, <2>5, <3>2
        <4>2. 1 < j + 1
          BY <2>1, SMT
        <4>3. q[1].view < p[j].view
          BY <1>0, <2>1, <4>1, <4>2 DEF Own, OwnStart
        <4>4. ls.changes[i].view \in Nat /\ new.changes[i].view = ls.changes[i].view
          BY <1>0, <1>3, <1>4, <2>5, ChangeFields
        <4> QED BY <2>2, <4>1, <4>3, <4>4, SMT
      <3> QED BY <3>1, <3>2
    <2>6. ASSUME NEW l, j < l, StartAt(p, n, l) PROVE p[j].view < p[l].view
      <3>1. StartAt(q, n, l + 1) /\ p[l] = q[l + 1] /\ l \in Nat
        BY <1>1, <2>6
      <3>2. j + 1 < l + 1
        BY <2>1, <2>6, <3>1, SMT
      <3> QED BY <2>1, <2>2, <3>1, <3>2 DEF OwnStart
    <2>7. 1 \in DOMAIN ls.changes
      BY <1>0, <2>3, ChangeFields
    <2>8. p[j].view = new.changes[1].view => new.changes[1].state = "messages"
      BY <1>4, <2>1, <2>2, <2>7 DEF OwnStart
    <2> QED BY <2>4, <2>5, <2>6, <2>8 DEF OwnStart
  <1>10. Own(p, new, n)
    <2>1. new.changes # <<>> /\ new.changes[1].state = "conditions" => n \notin new.changes[1].start
      <3> SUFFICES ASSUME new.changes # <<>>, new.changes[1].state = "conditions", n \in new.changes[1].start
                   PROVE  FALSE
        OBVIOUS
      <3>1. 1 \in DOMAIN ls.changes /\ ls.changes[1].state = "conditions" /\ ls.changes # <<>>
        BY <1>3, <1>4
      <3>2. n \notin ls.changes[1].start
        BY <1>0, <3>1 DEF Own
      <3>3. ls.changes[1].state = "messages"
        BY <1>8, <3>1, <3>2
      <3> QED BY <3>1, <3>3
    <2>2. \A k \in DOMAIN new.changes : n \in new.changes[k].members
      BY <1>0, <1>3, <1>4 DEF Own
    <2>3. ASSUME NEW i, ConfchgAt(p, i) PROVE n \in p[i].members \/ (n \in p[i].left /\ new.leaving)
      <3>1. ConfchgAt(q, i + 1) /\ p[i] = q[i + 1]
        BY <1>1, <2>3
      <3>2. n \in q[i + 1].members \/ (n \in q[i + 1].left /\ ls.leaving)
        BY <1>0, <3>1 DEF Own
      <3> QED BY <1>4, <3>1, <3>2
    <2> QED BY ONLY <1>9, <2>1, <2>2, <2>3, SMT DEF Own
  <1>11. Steady(q, ls, n, p, new)
    <2>0. \A i : ConfchgAt(q, i) => /\ i - 1 \in Nat \ {0} /\ (i - 1) + 1 = i
                                    /\ ConfchgAt(p, i - 1) /\ p[i - 1] = q[i]
      <3> SUFFICES ASSUME NEW i, ConfchgAt(q, i)
                   PROVE  /\ i - 1 \in Nat \ {0} /\ (i - 1) + 1 = i
                          /\ ConfchgAt(p, i - 1) /\ p[i - 1] = q[i]
        OBVIOUS
      <3>1. i \in Nat \ {0} /\ i # 1
        BY <1>0, <1>2, EventFields, SMT
      <3>2. i - 1 \in Nat \ {0} /\ (i - 1) + 1 = i
        BY <3>1, SMT
      <3> QED BY <1>1, <3>2
    <2>1. \A w \in Nat : Reaches(q, ls, w) => Reaches(p, new, w)
      BY <1>5, <2>0 DEF Reaches
    <2>2. \A w \in Nat : Has(p, new, w) => Has(q, ls, w)
      BY <1>1, <1>5 DEF Has
    <2>3. ASSUME NEW w \in Nat, Knows(q, ls, n, w) PROVE Knows(p, new, n, w)
      <3>1. ASSUME NEW i, NEW j, i < j, ConfchgAt(q, i), q[i].view >= w, StartAt(q, n, j)
            PROVE  Knows(p, new, n, w)
        <4>1. i - 1 \in Nat \ {0} /\ (i - 1) + 1 = i /\ ConfchgAt(p, i - 1) /\ p[i - 1] = q[i]
          BY <2>0, <3>1
        <4>2. j \in Nat /\ i \in Nat
          BY <1>0, <3>1, EventFields
        <4>3. i - 1 < j - 1 /\ j - 1 \in Nat \ {0} /\ (j - 1) + 1 = j
          BY <3>1, <4>1, <4>2, SMT
        <4>4. StartAt(p, n, j - 1)
          BY <1>1, <3>1, <4>3
        <4> QED BY <3>1, <4>1, <4>3, <4>4 DEF Knows
      <3>2. CASE Newest(ls) = 0 /\ \A i : ConfchgAt(q, i) => q[i].view >= w
        <4>1. \A i : ConfchgAt(p, i) => p[i].view >= w
          BY <1>1, <3>2
        <4> QED BY <1>5, <3>2, <4>1 DEF Knows
      <3> QED BY <1>4, <1>5, <2>3, <3>1, <3>2 DEF Knows
    <2>4. ASSUME NEW m, NEW w \in Nat, Heard(p, new, m, w) PROVE Heard(q, ls, m, w)
      <3>1. ASSUME NEW k \in DOMAIN new.changes, w = new.changes[k].view,
                   m \in new.changes[k].start \/ \E j : StartAt(p, m, j)
            PROVE  Heard(q, ls, m, w)
        <4>1. k \in DOMAIN ls.changes /\ w = ls.changes[k].view
          BY <1>3, <1>4, <3>1
        <4>2. m \in ls.changes[k].start \/ \E j : StartAt(q, m, j)
          BY <1>1, <1>2, <1>3, <3>1
        <4> QED BY <4>1, <4>2 DEF Heard
      <3>2. ASSUME NEW i, NEW j, i < j, ConfchgAt(p, i), StartAt(p, m, j), w = p[i].view
            PROVE  Heard(q, ls, m, w)
        <4>1. /\ ConfchgAt(q, i + 1) /\ p[i] = q[i + 1] /\ i \in Nat
              /\ StartAt(q, m, j + 1) /\ j \in Nat
          BY <1>1, <3>2
        <4>2. i + 1 < j + 1
          BY <3>2, <4>1, SMT
        <4> QED BY <3>2, <4>1, <4>2 DEF Heard
      <3>3. CASE m \in new.started_change.start /\ w = new.started_change.view
        BY <1>4, <3>3 DEF Heard
      <3> QED BY <2>4, <3>1, <3>2, <3>3 DEF Heard
    <2> QED BY <2>1, <2>2, <2>3, <2>4 DEF Steady
  <1>12. Sound(p, new, n, top)
    BY <1>0, <1>1, <1>4, <1>7, <1>10 DEF Sound
  <1> QED BY <1>11, <1>12 DEF p

-----------------------------------------------------------------------------
(* The theorems *)

\* Inv holds in every reachable state, for every finite set of nodes, every
\* setting of enable_fencing, enable_quorum and enable_plock, and whatever the
\* environment is allowed to do.
THEOREM Invariance == Spec => []Inv
  BY InitInv, NextInv, PTL DEF Spec

\* Records, queues and counters keep their types; in particular started_count
\* stays below its modulus and plock_ckpt_node is a node or 0.
THEOREM TypeCorrect == Spec => []TypeOK
  <1>1. Inv => TypeOK
    BY DEF Inv
  <1> QED BY <1>1, Invariance, PTL

\* wait_conditions_done: no kernel runs, and no start message has been sent for
\* the newest change, while fencing, quorum or fs_controld is outstanding for a
\* failed node, even if nodes fail while the messages of an earlier change are
\* under way, a partition loses messages, or fenced gives wrong answers.
THEOREM WaitsForFailures == Spec => []NoFailureOutstanding
  <1>1. Inv => NoFailureOutstanding
    BY DEF Inv, StartRules, NoFailureOutstanding, Settled, Running, Sent
  <1> QED BY <1>1, Invariance, PTL

\* stop_kernel in confchg_cb and wait_messages_done: a running kernel has no
\* change left on the list, and has a start message of every member.
THEOREM NewestChange == Spec => []RunsOnNewestChange
  <1>1. Inv => RunsOnNewestChange
    BY DEF Inv, StartRules, Started, RunsOnNewestChange, Running
  <1> QED BY <1>1, Invariance, PTL

\* check_fs_done: while a kernel runs, fs_controld has acknowledged a failure of
\* every node that has failed, though fs_notified is never cleared.
THEOREM FsAcknowledged == Spec => []FailuresAcked
  <1>1. Inv => FailuresAcked
    BY DEF Inv, StartRules, Acked, Outstanding, FailuresAcked, Running
  <1> QED BY <1>1, Invariance, PTL

\* format_renew_ids finds every directory that has to be renewed: a running
\* kernel has exactly the members in configfs, and no directory from before a
\* member left and rejoined, unless a call of set_configfs_members failed.
THEOREM Configfs == Spec => []ConfigfsMatches
  <1>1. Inv => ConfigfsMatches
    BY DEF Inv, StartRules, Clean, ConfigfsMatches, Running
  <1> QED BY <1>1, Invariance, PTL

\* receive_start: a node that a network split parted from others while its
\* lockspace was in use is not started with them again before one of them is
\* reset, whatever messages the split loses, in whichever order its daemons take
\* their events, and however often the network splits and heals.
THEOREM NotReadmitted == Spec => []NoReadmission
  <1>1. Init => PartInv
    <2> SUFFICES ASSUME Init PROVE PartInv
      OBVIOUS
    <2>1. ~NoLockspace.present
      BY DEF NoLockspace
    <2>2. Grouped
      BY <2>1 DEF Init, Grouped
    <2> QED BY <2>2, InitInv DEF Init, PartInv
  <1>2. PartInv => NoReadmission
    <2> SUFFICES ASSUME PartInv, NEW p \in divorced, p[2] \in Mates(p[1])
                 PROVE  NewsPending(p[1], p[2])
      BY DEF NoReadmission
    <2>1. View(inbox[p[1]], lsp[p[1]], p[2], p[1] \in cpg, p[2] \in Group(p[1]))
      BY DEF PartInv, Parted
    <2>2. ~Apart(lsp[p[1]], p[2])
      BY DEF Mates, Apart
    <2> QED BY <2>1, <2>2 DEF View, LeftAt, NewsPending
  <1> QED BY <1>1, <1>2, PartNext, PTL DEF Spec

=============================================================================
