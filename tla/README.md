# A TLA+ model of dlm_controld and libdlm

`dlm_controld` is the user-space daemon that runs beside the kernel's distributed
lock manager on every node of a cluster.  It joins and leaves lockspaces on behalf of
the kernel, stops the kernel's lockspace when the membership changes, waits until it
is safe to go on, agrees with the other daemons on the new membership and starts the
kernel again.  It also implements posix locks (plocks) and finds deadlocks.  `libdlm`
is the library with which programs use the kernel's locks.  This directory holds TLA+
modules for both, configurations that model-check them and proofs of the invariants that
hold for every configuration.

## 1. Inventory

| part | state | operations | in the model |
|---|---|---|---|
| lockspace membership, `cpg.c` | `struct lockspace`: change list, started change, node history, kernel_stopped, started_count, plock flags | `dlm_join_lockspace`, `dlm_leave_lockspace`, `confchg_cb`, `deliver_cb`, `apply_changes`, `process_lockspace_changes`, `set_fs_notified` | `Changes`, `LockspaceGroup` |
| daemon protocol negotiation, `cpg.c` | `our_protocol`, daemon node list | `setup_cpg`, `set_protocol`, `receive_protocol`, `confchg_cb_daemon`, `close_cpg` | `Protocol` |
| cluster membership, `member_cman.c` | node lists, `cluster_quorate` | `quorum_callback`, `is_cluster_member`, queries to fenced | in `LockspaceGroup` |
| configfs and sysfs, `action.c` | directories of members, control files | `set_configfs_members`, `set_sysfs_*` | members in `Changes` |
| main loop, `main.c` | clients, poll flags, fs registrations | `loop`, `process_uevent`, `process_connection`, query thread | uevents, FS_NOTIFIED and the poll flags in `LockspaceGroup` |
| posix locks, `plock.c` | resources with locks, waiters, pending requests and an owner; saved messages; checkpoint | `process_plocks`, `receive_plock/own/sync/drop`, `store_plocks`, `retrieve_plocks`, `purge_plocks` | `PlockRange`, `Plocks`, `PlockFile`, `PlockDaemon`, `PlockGroup` |
| deadlock detection, `deadlock.c` | resources, transactions, waitfor graph, cycle state | `send_cycle_start`, `receive_cycle_*`, `receive_checkpoint_ready`, `receive_cancel_lock`, `deadlk_confchg`, `find_deadlock` | `WaitforGraph`, `DeadlockDaemon`, `DeadlockGroup` |
| kernel warnings, `netlink.c` | time of the last start | `process_timewarn` | as `SendCycleStart` in `DeadlockGroup` |
| locking calls, `libdlm.c` | `default_ls`, its receive thread, the frames of synchronous calls | `lock_resource`, `unlock_resource`, `dlm_lock(_wait)`, `dlm_unlock(_wait)`, `do_dlm_dispatch`, `dlm_pthread_init`, `dlm_pthread_cleanup` | `Libdlm` |
| `config.c`, `logging.c`, `crc.c`, `pacemaker.c` | - | parsing, option values, output, a hash, a second cluster stack | no |
| `libdlmcontrol`, `libaislock`, `dlm_tool`, tests | - | socket I/O, another API, command line | no |

How the parts interact.  Every lockspace is a CPG group of corosync.  CPG calls
`confchg_cb` when nodes join, leave or fail and `deliver_cb` for every message, with
the same order on all members.  The kernel asks for joins and leaves with uevents.
`fenced` resets failed nodes, the quorum service says which nodes are in the cluster,
`fs_controld` acknowledges failures of nodes that had a file system mounted; none of
them calls the daemon when it is done: the daemon asks once a second while a poll flag
is set.  The daemon is one thread; a second thread answers queries under a lock.

What is hard here: confchgs overtake the start messages of the change before; messages
carry no change number, and a receiver finds the change a start message is for by
comparing counts and members; nodes crash, come back and are fenced at any point; a
network split shows each side the failure of the other one, and a merge brings back
nodes with old state; failures add up over several changes; services answer late, or
not at all.  For posix locks: a file's locks are kept by one node (its owner) or by all
(owner 0), ownership moves with messages that cross requests, and a joiner gets the
state from a checkpoint and a replay of the messages it saved meanwhile.  For deadlocks:
every node reads its own locks at its own time, the pictures are put together while
transactions go on, and the node that looks at them may fail.  For libdlm: a call waits
in one thread for a signal that another thread gives, with data in the frame of the
first, and the second one may make calls, too.

## 2. Modules

### Lockspace membership

`Changes` has the functions of `cpg.c` that change a lockspace, as operators from
records to records, under their names in the code: `add_change`, `check_fencing_done`,
`wait_conditions_done`, `start_kernel`, `match_change`, `receive_start`,
`apply_changes`...  The list of `struct node` is kept as one set of nodes per flag
(`known` is the list itself).  `After...` operators are the side effects of the
`check_..._done` functions, which clear flags as they look at them.  Operators named
`X_Y` next to an operator `X` and marked `Mutant` are plausible mistakes in `X`; they
are used to show that the properties notice.

`LockspaceGroup` puts a daemon with one lockspace on every node.  `lsp[n]` and
`poll[n]` are the daemon's state; `inbox[n]` is what CPG has yet to deliver to n.

| action | code |
|---|---|
| `Join`, `Leave` | `process_uevent`, `dlm_join_lockspace`, `dlm_leave_lockspace` |
| `DeliverConfchg`, `DeliverLeave` | `confchg_cb` (with `apply_changes`); the branch for our own leave |
| `DeliverMessage` | `deliver_cb` with start and plocks_stored messages |
| `ProcessLockspaceChanges` | the poll flags in `loop` and `process_lockspace_changes` |
| `FsNotified` | `DLMC_CMD_FS_NOTIFIED` in `process_connection` |
| `QuorumCallback` | `quorum_callback` |
| `Crash`, `Partition`, `Merge`, `Fence`, `Tick`, `SkipGap` | the environment: corosync, fenced, time |

`MCLockspaceGroup` is the instance for TLC; its action constraint `FormationFirst` lets
the first nodes join undisturbed.  `LockspaceGroupProofs` has the lemmas on the
operators of `Changes` and the theorems on `LockspaceGroup`, but for the one on `SameChange`,
which is in `SameChangeProofs`.

### Posix locks

`PlockRange` has the range algorithms of `plock.c` on the set of locks of a resource:
`overlap_type`, `shrink_range`, `is_conflict`, `lock_internal`, `unlock_internal`.
`Plocks` adds the waiters and the results: `do_lock`, `do_unlock`, `do_get`,
`do_waiters` (a recursive function over the list), purging.  `PosixLocks` is what they
promise: for each byte, who holds it and how.  `PlockFile` is one file with ranges (actions
`Receive` and `Purge`) and is shown to implement `PosixLocks`.  `PlockRangeProofs` and
`PlockFileProofs` have the theorems.

`PlockDaemon` has the rest of `plock.c` for one file on one node, as operators on the
daemon's record: `process_plocks`, the four `_receive_` functions, `purge_plocks`,
`store_plocks`, `retrieve_plocks`, `process_saved_plocks`, and what `cpg.c` does with them
(`prepare_plocks`, `receive_plocks_stored`).  `PlockGroup` puts such a daemon on every
node; `MCPlockFile` and `MCPlockGroup` have the sets of requests for TLC.

| action of `PlockGroup` | code |
|---|---|
| `ProcessPlocks` | `process_plocks` for a request of the kernel |
| `DropResources` | `drop_resources` at the end of `process_plocks` |
| `DeliverPlock` | `receive_plock`, `receive_own`, `receive_sync`, `receive_drop`: saved or executed |
| `DeliverConfchg` | `confchg_cb`: the plock part, with `purge_plocks` |
| `DeliverStart` | the last start message: `apply_changes` with `prepare_plocks` |
| `DeliverStored` | `receive_plocks_stored` |
| `Start`, `Join`, `Fail` | the group: all start messages sent, a node comes, a node goes |

### Deadlock detection

`WaitforGraph` has the graph algorithms of `deadlock.c`: `create_waitfor_graph`,
`reduce_waitfor_graph_loop`, `cancel_trans`, and, next to them, what a deadlock is
(`Deadlocked`).  `DeadlockDaemon` has the rest for one lockspace on one node: how process
copies and master copies are merged (`set_copy`, `get_lkb`, `add_lock`), the cycle
(`receive_cycle_start`, `receive_checkpoint_ready`, `run_deadlock`, `find_deadlock`,
`receive_cycle_end`) and `deadlk_confchg`.  `DeadlockGroup` puts it on every node over a
table of locks that the kernels share, `MCDeadlock` has the tables for TLC.
`CycleProofs` has the theorems on the course of the cycles, `DeadlockProofs` those on the
graph, on the types and on what a cycle finds.
What there is to find in a cycle is history: when the first node begins the cycle `k`
(`Notes`), `due[k]` is the lock table; a lock leaves it when it changes, when its home fails
or when its master does.  `Finish` compares what `find_deadlock` found with the transactions
that are deadlocked on the locks of `due[k]`.

| action of `DeadlockGroup` | code |
|---|---|
| `SendCycleStart` | `send_cycle_start`, from `process_timewarn` or `dlm_tool` |
| `CycleStart`, `CycleStartUnreadable` | `receive_cycle_start` with the debugfs file read, or not |
| `CheckpointReady`, `CycleEnd`, `ReceiveCancel`, `Confchg` | the handlers of these names |
| `Ignored` | the early returns of the handlers |
| `Request`, `Grant`, `End` | dlm-kernel and the transactions |
| `Join`, `Depart` | the group |

### Protocol negotiation

`Protocol` has `set_protocol` and the daemon's CPG callbacks.  `receive_protocol` and
`confchg_cb_daemon` are one event of a dispatch each; `last` says whether the dispatch
ends with it, because `set_protocol` looks at the result, and proposes, only then.

### libdlm

`Libdlm` has the threads of one process.  `pc[t]` says where a thread is in its
synchronous call and `stack` what the receive thread is doing: running `sync_ast_routine`
step by step, running an AST of the application, or reading results in the loop of
`sync_write`.  `sync_write`, `cond_wait` and `wakes` are a call in three steps, for
`sync_write_v5/v6`, `lock_resource` and `unlock_resource` alike.

### What is abstracted

- A multicast is ordered at once and put into the queue of every node in the sender's
  part of the group; nodes deliver at their own pace.  A send after `cpg_leave` is lost.
- Message contents are the fields `match_change`, `receive_start` and
  `receive_plocks_stored` look at.  `view` numbers the confchgs; no code reads it, the
  properties use it to say "the same change".  Other fields marked history are the same.
- `fence_node_time` and `fence_in_progress` answer from the state of fenced; the local
  fenced may learn late of a failure, so `fence_in_progress` may say no while a victim is
  left.  A failed query leaves the caller's variable unset (`fenced_error`).
- A kernel sends "offline" only after its "online" was answered, so `Leave` needs
  `joining` to be over.  Whether a file system is registered is a constant: FS_REGISTER and
  FS_UNREGISTER at run time (`main.c:636`) are left out.  A failed node comes back only after fenced has dealt with it.
- A PROCDOWN failure and the `kick_node_from_cluster` that follows are one failure.
  The call of `update_cluster` in `set_configfs_members` is an ordinary `QuorumCallback`.
- A split may lose messages in flight (`loss`): they are sent with `CPG_TYPE_AGREED`,
  which does not wait until all nodes have a message before it is delivered.
- Allocation failures, everywhere, failing `cpg_*` calls and a missing fence domain at join
  are left out, and so is the contents of the plock checkpoint in `LockspaceGroup`.
- `PlockGroup` has one file and one byte of it: what ranges do is the subject of
  `PlockFile`, and the protocol handles each file by itself.  The start protocol is the
  subject of `LockspaceGroup`; `PlockGroup` has its last start message as one event.
- The locks of a resource are a set: locks of one owner do not overlap, so the order of
  the list has no effect.  The waiters and the pending requests are sequences.
- A process of `PlockFile` and of `PlockGroup` has one request at a time, as `fcntl` has;
  processes that share an owner are not modelled.
- Fields the code reads without having written them hold any value of `Junk`.
- What the passing runs assume and the code does not enforce: the file system is mounted
  when the plock state has arrived (`MayAsk`), and is idle while a node joins (`Quiet`).
- `claim` and `busy` are what the processes have been told and ask, `crossed` whether a
  drop has been on its way together with another message; no code reads them.
- `DeadlockGroup`: lock ids are unique in the cluster (in the code an id is looked up
  together with a node id).  The lists are sets; where the code takes the first of a list
  the model takes any.  One pass of the reduction removes those that wait for nobody; the
  code also removes those that this unblocks further down the list, the loop does both.
- A transaction ends when it waits for nothing, which `deadlock.c` assumes as well.  A
  failed node's resources get a new master at once.  A failed node does not come back: a
  checkpoint that its old incarnation left behind is not modelled.
- Errors of the checkpoint service, and a debugfs line that does not parse, are left out.
  So is memory: `reduce_waitfor_graph` frees a transaction to which locks still point
  (`deadlock.c:1379`), and `free_resources` takes these locks off its list (`deadlock.c:122`).
- `Protocol`: the daemon's group is not split; a version is one of a small set.  `first`,
  `founders` and `over` are history.
- `Libdlm`: the application is sensible.  It opens and closes the lockspace in one thread
  while no other is in a call, unlocks what it has locked, and its ASTs return.
  Conversions, value blocks, `dlm_dispatch` and other lockspaces are left out, and so is a
  synchronous call in an AST that runs inside the loop of another one (`libdlm.c:623`).  The
  receive thread ends by cancellation only, so that `pthread_cancel` does not fail.
- A wait on a condition variable ends with a signal or, if `Spurious`, without one.

## 3. Runs

### Lockspace membership

These runs use `MCLockspaceGroup`.  `CountMod = 2` makes `started_count` wrap on the
second start.  `MaxViews` bounds the number of confchgs and `MaxTime` the clock;
`Formed` nodes join one after the other before anything else happens (the action
constraint `FormationFirst`; 0: no such prefix).  Deadlock is not checked, here and
below: a cluster without membership changes or requests is at rest.

| run | instance | checks | distinct states |
|---|---|---|---|
| `crash_restart` | 2 nodes, no fencing or quorum, a file system; leave, crash, rejoin, split with losses, merge; 5 confchgs | `TypeOK`, `FailuresAcked`, `RunsOnNewestChange`, `ConfigfsMatches`, `SameChange`, `NoReadmission`, `CkptAgreement`, `PlockSource` | 236,097 |
| `partition` | 3 nodes, fencing and quorum; split, merge, rejoin; 3 formed, 7 confchgs | `NoSplitBrain`, `NoFailureOutstanding`, `SameChange` | 489,822 |
| `failures` | 3 nodes, quorum and a file system; leave, crash; 3 formed, 5 confchgs | `NoFailureOutstanding`, `CkptAgreement`, `Progress` | 49,901 |

Why the bounds are enough: a change that interrupts another one needs two confchgs
close together; a node that comes back needs three (join, fail, join); a split and a
merge after three joins need six.  Two nodes suffice for what one node does to another,
three for what two nodes believe about a third one.  Fencing needs two instants: before
and after.  What the runs leave out: `partition` has a formed lockspace and loses no
messages, so `NoSplitBrain` says nothing of a split while the lockspace is being formed, or
that loses a start message (see `cpg.c:407` below); `failures` has no joins, so that no two
pending changes have the same counts and members (`stuck` has them).  Failures with fencing
and crashes together are left to the theorem on `NoFailureOutstanding`.

**Fairness.**  `Progress` is checked under weak fairness of "some daemon takes a step":
the daemon's loop takes every event and polls once a second while a flag is set, and
fs_controld and the quorum service answer in the end.  With fencing the bound on the
clock could keep a fenced node's time from growing, so liveness is checked without it.

### Posix locks

| run | instance | checks | distinct states |
|---|---|---|---|
| `plock_file` | 2 holders and 3 bytes, 3 holders with fewer requests | `TypeOK`, `LocksSound`, `NoLostWakeup`, `ImplementsPosixLocks` | 63,625 |
| `plock_group` | 2 nodes with 2 processes, 4 requests, two drops, a failure; or 3 nodes, 3 requests, a failure, both with `plock_ownership` on and off; or 2 nodes and a joiner, 3 requests | `MutualExclusion`, `Agreement`, `NothingStuck`, `NothingUnexpected` | 503,648 |

Why the bounds are enough: three bytes have a front, a middle and a back, all that the
overlap types tell apart.  Ownership of a fresh file moves with the first request, is
asked back with the second, and two more cross the syncs that follow.  `NoLostWakeup`
exempts the pass in which a waiter is granted a lock by which it gives up exclusive
bytes itself: `do_waiters` does not look at the waiters before it again, and they sleep
until the next operation.  With three nodes two survive a failure, and have to agree on what
the failed one leaves.  The properties of `plock_group` are about behaviours in which no drop
is on its way together with another message (`crossed`): `plock_drop_race` shows what comes
of it otherwise.  A join has `plock_ownership=1`, no failure, no drop and flags that are zero
(`MCPlockGroup!Lighter`); the list of other behaviours below says why.  There is one join, and
`NothingUnexpected` does not look at the messages that a joiner saves.

### Deadlock detection, protocol negotiation, libdlm

| run | instance | checks | distinct states |
|---|---|---|---|
| `deadlock` | 2 nodes and one that may join, 3 transactions, 2 resources, 2 cycles; a lock operation or an unreadable file, a failure | `TypeOK`, `NoDeadlockMissed`, `NoFalseDeadlock`, `CleanBetweenCycles`, `EndsOnce`, `CycleEnds` | 191,773 |
| `protocol` | 3 daemons, 3 starts, a departure, 4 versions in two majors | `TypeOK`, `FoundersAgree`, `NoFounderExcluded`, `Negotiated` | 216,157 |
| `libdlm` | 2 threads and ASTs, 4 lock calls, a blocking AST, one opening | `TypeOK`, `CompleteOnReturn`, `NoDeadFrame`, `EveryCallReturns` | 226,390 |

`deadlock` begins in three kinds of states (`MCInit`): a quiet cycle over each of 1,313
tables of locks, exclusive and shared, granted, waiting and converting; one cycle with
operations and failures; two cycles with a join between them and a failure.  A deadlock
needs two transactions on two resources and, to be seen by nobody alone, two nodes; the
third transaction waits for it without being part of it.  The cancel messages of one
deadlock go out in any order.  `NoDeadlockMissed` follows the transactions that were
deadlocked when the first node began the cycle and whose locks stay as they were: they
must be found although the nodes read their locks one after the other.  Nodes join between
cycles only (`JoinInCycle`): `deadlock_join` shows what a join in a cycle does.

`protocol` is reduced by an action constraint (`Reduced`).  A delivery on which a daemon
sends nothing changes only its own state and its own queue, so it commutes with the steps
of the others and is done first; no property looks at who is ahead of whom in queues.
The daemons start in the order of their ids until one has left, and what they support is
different for each.  Three starts are enough for a daemon that joins while two negotiate,
and for one that comes back.

`libdlm`: two threads contend for a lock with each other and with an AST.  Four lock
requests are one for each of them and for the AST's own thread, and one to come back
with.  The waits of this run end with a signal.

**Fairness.**  `CycleEnds`, `Negotiated`: weak fairness of "some daemon delivers an
event", as above (and a daemon that has given up exits).  `EveryCallReturns`: the kernel
answers, the threads run, and the application unlocks what it has locked.

### Where code and comments disagree

Four runs are expected to fail; each checks one statement.

| run | comment or manual | what happens |
|---|---|---|
| `stuck` | "recv all start messages for confchg2, and start kernel" (`cpg.c:867`) | a node joins, leaves and joins again: both joins have the same counts and members, the older change absorbs all start messages and nothing is sent again |
| `plock_drop_race` | "plock state replicated on all nodes" (`plock.c:1481`) | a drop crosses an own message: one node executes a plock that another one ignores |
| `deadlock_join` | "nodes added during a cycle [...] won't be included in any of the cycle processing" (`deadlock.c:1095`) | the new node reads the checkpoints, ignores the end of the cycle and keeps their locks for the next one |
| `libdlm_spurious` | "Wait for it to complete" (`libdlm.c:178`); `dlm_lock_wait` "will wait until the lock operation has completed" (`dlm_lock.3:73`) | `pthread_cond_wait` is not in a loop with a condition: a wakeup without a signal, which POSIX allows, ends the call while the request is still with the kernel |

Other behaviours, for which no run is kept:

- after an error of `fence_node_time` an unset variable is compared (`cpg.c:448`);
- a node that becomes the only member has its plock state and goes on saving messages
  (`cpg.c:1089`);
- a node that joined, failed and rejoined between two starts has no directory to renew;
  `set_configfs_members` fails and the kernel starts without it (`action.c:370`);
- a split loses the start message of a node that starts its kernel on the other side;
  it fails there with zero `add_time` and is not waited for (`cpg.c:407`); a split during
  the formation of the lockspace has the same effect;
- a plock that crosses a drop and a new owner is saved as pending and stays there
  (`plock.c:896`);
- own, sync and drop messages do not set `last_plock_time`: a later joiner may read an
  old checkpoint (`plock.c:1792`);
- when an owner fails, and always with `plock_ownership=0`, `R_GOT_UNOWN` is not set and
  the next checkpoint names its writer as the owner (`plock.c:1885`);
- a joiner purges a failed node's locks before it reads the checkpoint that still has
  them (`plock.c:2072`);
- a waiter's flags are not initialized; if they look like `P_SYNCING` the waiter is left
  out of the checkpoint (`plock.c:634`);
- plock messages that reach a joiner before its last start message are executed without
  the state they refer to (`plock.c:910`);
- a request of a joiner that has not read the checkpoint yet makes a second resource for
  the file, and the joiner a second owner (`plock.c:1492`; "we have gained ownership",
  `plock.c:1108`);
- `fs_notified` is never cleared: the second failure of a node needs no acknowledgement
  (`cpg.c:546`; "ack each failed node", `cpg.c:529`);
- `receive_cancel_lock` compares the sender of the message, not its recipient, with
  `our_nodeid`: the lock is cancelled by the low node, which knows its id only if the
  lock is its own (`deadlock.c:1024`);
- one cancel does not always reduce the graph (`deadlock.c:1458`): there may be two
  deadlocks, the chosen transaction may only wait for one, and `waitfor_trans` keeps one
  blocker of several;
- waits that are due to the order of the queue of a resource are not in the graph; a
  transaction that releases a lock between two snapshots may be seen to hold it;
- the locks of a node that leaves before all checkpoints are there are not purged
  (`deadlock.c:1106`);
- a node that cannot read its debugfs file keeps the cycle from ending until it leaves
  (`deadlock.c:968`);
- a daemon that joins between two proposals may adopt the second while the others run
  the first; `deliver_cb` then refuses its messages (`cpg.c:1373`);
- `lock_resource` in an AST waits for its own thread; a thread that waits when the
  lockspace is closed is not woken (`libdlm.c:233`); two threads may both open the
  default lockspace (`libdlm.c:293`); after a failed write the mutex stays locked, in a
  frame that is gone.

## 4. Proofs

A leaf of a proof that names no prover is left to Zenon; those that need arithmetic or
sequences name SMT.

`LockspaceGroupProofs` and `SameChangeProofs` prove, for every finite set of node ids, every configuration
and every choice of what the environment may do (partitions, lost messages and wrong
answers of fenced included):

- `TypeCorrect`: `Spec => []TypeOK`
- `WaitsForFailures`: `Spec => []NoFailureOutstanding`
- `NewestChange`: `Spec => []RunsOnNewestChange`
- `Configfs`: `Spec => []ConfigfsMatches`
- `FsAcknowledged`: `Spec => []FailuresAcked`
- `NotReadmitted`: `Spec => []NoReadmission`
- `StartedTogether`: `Spec => []SameChange`

The argument for the first five.  `Inv` is `TypeOK` and `StartRules` for the lockspace of every node.
The three safety properties are not inductive.  `NoFailureOutstanding` needs that a
condition that is switched off has nothing to wait for, because its check returns before
it looks; and that an unsent start message means a pending change with nothing promised.
`ConfigfsMatches` needs, while the kernel is stopped, that every directory that went
stale is on the removed list of a pending change, where `format_renew_ids` will find it,
and that no change both removes and has a member, because that function skips the change
it starts.  `LockspaceGroupProofs` proves first that every operator of `Changes` preserves
types and `StartRules` for one record, then adds the queues and one step per action.  The assumptions are those declared with the constants: node ids are positive
and finitely many, switches are Boolean, the counter's modulus is at least 2.

`NoReadmission` is about two nodes n and m that a split has parted, and needs an invariant
(`PartInv`) on n's record and n's queue together (`Parted`).  `Tells`: from the confchg
that says m left on, the events of the queue tell n whether m is a member, and no start
message of m has the count zero.  While n has nothing more to learn of m leaving, m is
`Apart` in n's record: m is in no change that could start, or it was added by a pending
one, so that `receive_start` refuses the start messages of m with a count that is not
zero.  The count of a lockspace that was started is never zero again, because it skips
zero when it wraps; that is what keeps m `Apart` through any number of splits and merges.

`SameChange` would follow at once if a start message were counted only for the change it was
sent for, but it has no number and may be counted for another one with the same counts and
members.  The invariant (`SameInv`) therefore does not ask what a message was sent for; it
uses that the queues of the nodes have one order.  Confchgs are numbered, and each queue and
each list of changes has them in this order (`Ordered`).  `Told`: if m counts a start message
of n for the change w, or may come to count one from its queue (`Heard`), then n has taken w
or a newer change already, or has w in its queue with its own copy of the message behind it,
or was reset (`Knows`).  That survives every step because n's own copy is always counted
(`OwnStart`: its change is still on n's list, and no start message of n has been counted for
that change or a newer one), so n cannot start before it has taken the copy, and w with it.
Two kernels that run and count each other have no copies left to take; each has the other's
change, or a newer one, so both have the same.  For the step in which n sends a message one
more fact is needed: whatever change a node of n's part of the group has taken or queued, n
has one at least as new (`Reaches`), because CPG delivers a confchg to the whole part at once.

`PlockRangeProofs` proves, for all ranges of natural numbers and every set of locks
whose ranges are not empty and do not overlap for one owner:

- `LockEffect`, `UnlockEffect`: `lock_internal` and `unlock_internal` give the owner
  exactly the requested bytes in the requested mode (or none), change nothing else, and
  keep ranges proper and apart;
- `NoConflictKept`: a lock that passed `is_conflict`, and every unlock, leaves no two
  owners on a byte that one of them holds exclusively.

The argument.  At most one lock of the owner contains the range (`ContainingIsAlone`);
then one lock is replaced by up to three pieces that cover the same bytes (`Replace`,
`Pieces`).  Otherwise the range is cut out of all the owner's locks (`CutOutIsCut`) and a
new lock is added where nothing is left (`Add`).

`PlockFileProofs` proves, for any holders, any size of the file and any sequence of
requests and purges:

- `Types`: `Spec => []TypeOK`
- `LocksAreSound`: `Spec => []LocksSound`
- `NoWakeupIsLost`: `Spec => []NoLostWakeup`, with the exception of section 3
- `Refinement`: `Spec => ImplementsPosixLocks`: the list of ranges implements the abstract
  map from bytes to holders, step by step.

The argument.  What one pass of `do_waiters` computes is shown by induction on the position
in the list: `NatInd` states induction over the naturals for a set instead of a predicate,
from the existence of a minimum in a well-founded set, which the provers can use.  Along
the pass the locks stay sound, a waiter that stays has a conflicting lock at its turn, and
that lock is still there at the end unless the pass gave up exclusive bytes.  For the
refinement each grant of the pass is one change of the abstract map (`LockEffect`), and the
whole handler, with its waiters, one abstract step.

`DeadlockProofs` proves, for every set of locks and every number of transactions:

- `ReductionIsExact`: when `reduce_waitfor_graph` removes nothing any more, the
  transactions left are those in a knot, a set in which each waits for another;
- `FindsExactlyTheDeadlocked`: on the graph of `create_waitfor_graph` these are the
  transactions that are deadlocked in the kernel's locks.

The argument.  The loop keeps `LoopInvariant`: no pass removes a member of a knot.  A
fixpoint is a knot itself.  The edges of the graph are those of `WaitsFor` when every lock
has a status (`Settled`), which holds in a cycle without failures.  Each pass but the last
removes a transaction, so on a finite list the loop ends (`LoopResult`), and what
`find_deadlock` is left with are the deadlocked transactions (`LoopFindsTheDeadlocked`).

`CycleProofs` and `DeadlockProofs` prove, for any finite set of nodes and transactions,
any resources and tables of locks, and any number of cycles, failures and lock operations:

- `DeadlockTypes`: `Spec => []TypeOK`
- `NothingIsKept`: `Spec => []CleanBetweenCycles` if no node joins during a cycle
- `CyclesEndOnce`: `Spec => []EndsOnce` if no node joins during a cycle
- `EveryDeadlockFound`: `Spec => []NoDeadlockMissed` if no node joins during a cycle
- `NothingFoundInVain`: `Spec => []NoFalseDeadlock` if no node joins during a cycle

The hypothesis `~JoinInCycle` is needed: `deadlock_join` is a counterexample without it.

The argument.  `Types`, the invariant behind `DeadlockTypes`, leaves open what the loop leaves on
the list of transactions (`Listed`), so that it does not rest on the graph; `ListedType` then
shows with `LoopResult` that these are transactions.  What a daemon does with a `cycle_end` depends on what all the others did
before, so no invariant on pairs of nodes is inductive.  The invariant `Common` says that
there is one log of events such that every member of the group is at a place of it: its
queue is the log from there on (`Rest`), and what it knows of the cycle is a function of
the place, the state `st[p]` that `Step` computes from the events before (`Member`;
`Newcomer` for a node that has not had its first confchg).  `LogOK` says what is true of the
log: at each event the state is one in which it makes sense (`Fits`: a `cycle_end` finds a
cycle running, a node is ready once); a cycle runs until it is ended (`RunsOn`); the node
with the lowest id stays the one to end it while it is a member (`StaysLow`); whoever has an
end of a cycle before it has begun that cycle and will not end it itself (`Ended`); whoever
is ready has begun the cycle (`Begun`).  Every message that a handler sends is appended to
the log, and `StepRuns`, `StepSane`, `StepLow` and `AppendBlock` show that the log stays as it
should.  That the end of a cycle is sent once follows: two nodes that both end it would be
the lowest at two places of the log with no end between them.  A join needs everybody idle,
so the log can begin anew with it (`CommonJoin`).

What a cycle finds is a matter of the locks on the nodes, which the log does not have.  The
invariant `Exact` says which copies of them are where, with `Copies(S, D, mas, R, only)`: of
each lock of `D` the set `S` has exactly what the debugfs files of the nodes `R` show together
(`Image`: nothing, a partial copy, or the whole lock when its home and its master are in `R`),
and no other lock if `only`.  `Snapshot`: the checkpoint of a node shows what that node had of
the locks that are due in its cycle.  `Gathered`: until the end of the cycle is in its queue, a
node has what it and the nodes in `ready` had of them.  `Kern` and `Hist` are about the
kernel's table and the history.  What is read from
a checkpoint is what its node had of these locks, although `add_lock` does not take all the
fields (`CopiesTaken`).  It is added with `CopiesAdd`, the core of the argument: a process
copy and the master copy of a lock merge into the lock, in either order, and no node's copies
are added twice.  That they are not is what the log is for: a
`checkpoint_ready` that is received before the end of the cycle is of a node that is not in
`ready` and has begun the same cycle (`ReadyInOrder`), and who looks for deadlocks has every
member in `ready` (`EndingSeesAll`).  The locks of a node that fails are not due any more, and
those it mastered are not either, so a missing checkpoint and `purge_locks` take nothing away
(`CopiesStay`, `CopiesPurged`).  With home and master of every lock in `R` the waits of `D` are
edges of the graph, and more locks leave every knot a knot (`MoreKnots`); if there are no other
locks the edges are the waits (`CopiesFound`), and `LoopResult` says what the loop leaves.

The assumptions are those on the constants of `DeadlockGroup`, among them that the
transactions are finitely many and that the tables of dlm-kernel are tables (`LockTable`): a
transaction has one lock at most on a resource, with a status, at its home.

`ProtocolProofs` proves, for any finite set of daemons, any versions and any number of
starts, failures and proposals:

- `ProtocolTypes`: `Spec => []TypeOK`
- `FoundersRunTheSame`: `Spec => []FoundersAgree`
- `AskedCanRun`: `Spec => []NoFounderExcluded`

The argument.  `FoundersAgree` is not inductive: what a founder runs next is in its queue.
`FoundersFollow` says that the first message with versions in the queue of a founder that
has none is the first proposal; it holds because a message is put into all queues at
once, after what is there.  `NoneYet` says that before the first proposal no versions
are anywhere.  `AllFit` says that all versions, in queues and in daemons, are the least
of the max values recorded with them (`over`), and `PickMinIsLeast` that such versions
can be run by each of these if the majors are the same; `FailedRightly` that a daemon
gives up for incompatible versions only.

`LibdlmProofs` proves, for any finite set of threads and any number of lock calls,
blocking ASTs and openings of the lockspace, if every wakeup has a signal (`~Spurious`):

- `LibdlmTypes`: `Spec => []TypeOK`
- `ReturnsItsAnswer`: `Spec => []CompleteOnReturn`
- `FramesOutliveAsts`: `Spec => []NoDeadFrame`

The hypothesis is needed: `libdlm_spurious` is a counterexample without it.

The argument.  That a call has returned says nothing of what can still happen to its
frame; `Inv` follows the request instead.  `Once`: a request is with the kernel, or
answered and in the queue of results, or read, so one AST at most will signal its caller.
`Fresh`: what is read last is the kernel's last answer; a blocking AST sent before the
answer carries an older status, and is read before it.  `Handshake` relates the place of
the caller to the mutex and to the place of the AST that signals it.  `StackRules`: ASTs
nest, because an AST may make a call that reads results itself, but one that signals makes
no call, so it is on top of the stack; and there is one such reading loop at most.
`Lifetime`: when the lockspace is closed no thread is in a call, and the receive thread
goes before the device.  The lemmas on `Append` and `Tail` of the queue and on pushing and
popping frames come first, then one lemma per action or group of similar actions.  The
assumptions are those of `Libdlm` on its constants and that the application is sensible
in the sense of section 2, which is in the guards of the actions.

Only model-checked:

- the ownership and join protocol of posix locks (`PlockGroup`): its properties hold
  between the drops, joins and failures that section 3 lists as exceptions, and an
  inductive invariant has to describe every message in flight between them;
- `NoSplitBrain`, `CkptAgreement` and `PlockSource`, which rest on the order of failures and
  fencings in time and on what each start message carries;
- the liveness properties (`Progress`, `CycleEnds`, `Negotiated`, `EveryCallReturns`), which
  are out of the prover's reach.

## 5. Not modelled

- Several lockspaces in one daemon, which share the poll flags, the array of clients and
  the query thread (`main.c`); the flow control and rate limit of plock reads.
- The checkpoint service beyond reading and writing: retries, errors, sizes.
- `config.c`, `logging.c`, `crc.c`: values, output and a hash.  `pacemaker.c` is
  `member_cman.c` for another cluster stack.
- `libdlmcontrol`, `libaislock`, `dlm_tool` and the test programs: requests and replies
  over a socket, a translation of calls, output.

What would come next: two lockspaces in one daemon.
