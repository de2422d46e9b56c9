---------------------------- MODULE PlockDaemon ----------------------------
(***************************************************************************)
(* The functions of plock.c that work on one resource (one inode number)   *)
(* of a lockspace, on node n.  d is the state of the daemon:               *)
(*   ownership  cfgd_plock_ownership                                       *)
(*   res        the structs with this number, in list order; only          *)
(*              unpack_section_buf can add a second one                    *)
(*   saved      saved_messages                                             *)
(*   need, save need_plocks and save_plocks                                *)
(*   changing   the list of changes is not empty                           *)
(*   added      nodes_added                                                *)
(*   started    number of the last start, which started_change stands for  *)
(*   uptodate   last_checkpoint_time > last_plock_time                     *)
(* and what the function being executed has produced so far:               *)
(*   send       messages to the group                                      *)
(*   done       results for the kernel                                     *)
(* A resource has an owner (a node, 0 for none, -1 for not known yet),     *)
(* unown (R_GOT_UNOWN), locks, waiters and pending.                        *)
(***************************************************************************)
EXTENDS Plocks, SequencesExt

NewDaemon(ownership) ==
    [ownership |-> ownership, res |-> <<>>, saved |-> <<>>, need |-> TRUE, save |-> FALSE,
     changing |-> FALSE, added |-> FALSE, started |-> 0, uptodate |-> FALSE,
     send |-> <<>>, done |-> {}]

NewResource(owner) ==
    [owner |-> owner, unown |-> FALSE, locks |-> {}, waiters |-> <<>>, pending |-> <<>>]

Found(d) == d.res # <<>>
R(d) == d.res[1]   \* search_resource
Unused(r) == r.locks = {} /\ r.waiters = <<>>

\* with create = 1
find_resource(d) ==
    IF Found(d) THEN d
    ELSE [d EXCEPT !.res = <<NewResource(IF d.ownership THEN -1 ELSE 0)>>]

put_resource(d) ==
    [d EXCEPT !.res = IF ~d.ownership /\ Unused(@[1]) THEN Tail(@) ELSE @]

-----------------------------------------------------------------------------
(* Messages *)

PlockMsg(n, in)    == [type |-> "plock", from |-> n, in |-> in]
OwnMsg(n, owner)   == [type |-> "own", from |-> n, owner |-> owner]
DropMsg(n)         == [type |-> "drop", from |-> n]
SyncMsg(n, t, po)  == [type |-> t, from |-> n, lock |-> [po EXCEPT !.syncing = FALSE]]

Send(d, msg) == [d EXCEPT !.send = Append(@, msg)]

send_own(d, n, owner) == IF R(d).pending # <<>> THEN d ELSE Send(d, OwnMsg(n, owner))

\* Mutant: waiters are not synced.
send_syncs_NoWaiters(d, n) ==
    LET locks == SetToSeq(R(d).locks)
    IN  [d EXCEPT !.send = @ \o [i \in DOMAIN locks |-> SyncMsg(n, "sync_lock", locks[i])],
                  !.res[1].locks = {[po EXCEPT !.syncing = TRUE] : po \in @}]

send_syncs(d, n) ==
    LET locks   == SetToSeq(R(d).locks)
        waiters == R(d).waiters
    IN  [d EXCEPT !.send = @ \o [i \in DOMAIN locks |-> SyncMsg(n, "sync_lock", locks[i])]
                             \o [i \in DOMAIN waiters |-> SyncMsg(n, "sync_waiter", waiters[i])],
                  !.res[1].locks = {[po EXCEPT !.syncing = TRUE] : po \in @},
                  !.res[1].waiters = [i \in DOMAIN @ |-> [@[i] EXCEPT !.syncing = TRUE]]]

save_pending_plock(d, in) == [d EXCEPT !.res[1].pending = Append(@, in)]

send_pending_plocks(r, n) ==
    [r |-> [r EXCEPT !.pending = <<>>],
     send |-> [i \in DOMAIN r.pending |-> PlockMsg(n, r.pending[i])]]

SendPending(d, n) ==
    LET p == send_pending_plocks(R(d), n)
    IN  [d EXCEPT !.res[1] = p.r, !.send = @ \o p.send]

-----------------------------------------------------------------------------
(* Requests and plock messages *)

\* __receive_plock: locks and unlocks set last_plock_time
Execute(d, n, in, junk) ==
    LET a == receive_plock(R(d), in, junk)
        e == [d EXCEPT !.res[1] = a.r, !.done = @ \cup {x \in a.done : x.node = n}]
    IN  IF in.op = "get" THEN e ELSE put_resource([e EXCEPT !.uptodate = FALSE])

add_pending_plocks(d, n, junk) ==
    FoldLeft(LAMBDA e, in : Execute(e, n, in, junk),
             [d EXCEPT !.res[1].pending = <<>>], R(d).pending)

\* A request from the kernel
process_plocks(d, n, in, junk) ==
    LET e == find_resource(d)
    IN  CASE R(e).owner = 0 -> Send(e, PlockMsg(n, in))
          [] R(e).owner = n -> Execute(e, n, in, junk)
          [] OTHER          -> save_pending_plock(send_own(e, n, n), in)

\* No resource: a race with a drop
ReceiveNoResource(d, n, msg) ==
    IF msg.from = n
    THEN save_pending_plock(send_own(find_resource(d), n, n), msg.in)
    ELSE d

\* _receive_plock
ReceivePlock(d, n, msg, junk) ==
    IF msg.in.op = "get" /\ msg.from # n THEN d
    ELSE IF ~Found(d) /\ d.ownership THEN ReceiveNoResource(d, n, msg)
    ELSE LET e == find_resource(d)
         IN  CASE R(e).owner = 0 \/ (R(e).owner = n /\ msg.from = n) -> Execute(e, n, msg.in, junk)
               [] R(e).owner # 0 /\ msg.from # n -> e
               [] OTHER -> save_pending_plock(e, msg.in)

-----------------------------------------------------------------------------
(* Ownership *)

\* _receive_own when the message is our own one
ReceiveOurOwn(e, n, owner, junk) ==
    CASE owner = 0 /\ R(e).owner = 0  -> [e EXCEPT !.res[1].unown = TRUE]
      [] owner = n /\ R(e).owner = -1 ->
           add_pending_plocks([e EXCEPT !.res[1].owner = n], n, junk)
      [] owner = n /\ R(e).owner = 0  -> SendPending(e, n)
      [] OTHER -> e

\* Mutant: the locks are not sent to the others first.
Relinquish_NoSyncs(e, n) == [send_own(e, n, 0) EXCEPT !.res[1].owner = 0]

\* We relinquish our ownership.
Relinquish(e, n) == [send_own(send_syncs(e, n), n, 0) EXCEPT !.res[1].owner = 0]

\* Mutant: pending requests are forgotten when the owner relinquishes.
ReceiveOtherOwn_NoPending(e, n, from, owner) ==
    CASE owner = 0 /\ R(e).owner \notin {-1, 0, n} ->
           [e EXCEPT !.res[1].owner = 0, !.res[1].unown = TRUE]
      [] owner = from /\ R(e).owner = -1 -> [e EXCEPT !.res[1].owner = from]
      [] owner = from /\ R(e).owner = n  -> Relinquish(e, n)
      [] OTHER -> e

\* _receive_own when it is from another node
ReceiveOtherOwn(e, n, from, owner) ==
    CASE owner = 0 /\ R(e).owner \notin {-1, 0, n} ->
           SendPending([e EXCEPT !.res[1].owner = 0, !.res[1].unown = TRUE], n)
      [] owner = from /\ R(e).owner = -1 -> [e EXCEPT !.res[1].owner = from]
      [] owner = from /\ R(e).owner = n  -> Relinquish(e, n)
      [] OTHER -> e

\* _receive_own
ReceiveOwn(d, n, msg, junk) ==
    LET e == find_resource(d)
    IN  IF msg.from = n THEN ReceiveOurOwn(e, n, msg.owner, junk)
                        ELSE ReceiveOtherOwn(e, n, msg.from, msg.owner)

\* should_not_happen in _receive_own
ShouldNotHappen(d, n, msg) ==
    LET owner == R(find_resource(d)).owner
    IN  \/ msg.owner \notin {0, msg.from}
        \/ msg.from = n /\ msg.owner = 0 /\ owner # 0
        \/ msg.from = n /\ msg.owner = n /\ owner = n
        \/ msg.from # n /\ msg.owner = 0 /\ owner \in {-1, 0, n}

\* clear_syncing_flag
Cleared(po, lock) == IF po = [lock EXCEPT !.syncing = TRUE] THEN lock ELSE po

clear_syncing_flag(r, lock) ==
    LET synced == [lock EXCEPT !.syncing = TRUE]
        first  == {i \in DOMAIN r.waiters : r.waiters[i] = synced}
    IN  IF synced \in r.locks
        THEN [r EXCEPT !.locks = {Cleared(po, lock) : po \in @}]
        ELSE IF first # {}
        THEN [r EXCEPT !.waiters[Min(first)] = lock]
        ELSE r

\* _receive_sync
ReceiveSync(d, n, msg, junk) ==
    CASE ~Found(d)    -> d
      [] msg.from = n -> [d EXCEPT !.res[1] = clear_syncing_flag(@, msg.lock)]
      [] msg.from # n /\ msg.type = "sync_lock" ->
           [d EXCEPT !.res[1].locks = @ \cup {msg.lock}]
      [] OTHER -> [d EXCEPT !.res[1] = add_waiter(@, msg.lock, junk)]

\* _receive_drop
ReceiveDrop(d, n) ==
    IF Found(d) /\ R(d).owner = 0 /\ R(d).pending = <<>> /\ Unused(R(d))
    THEN [d EXCEPT !.res = Tail(@)]
    ELSE d

\* drop_resources, when the resource is old enough
drop_resources(d, n) ==
    CASE R(d).owner = n -> [send_own(d, n, 0) EXCEPT !.res[1].owner = 0]
      [] R(d).owner = 0 /\ R(d).unown -> Send(d, DropMsg(n))
      [] OTHER -> d

\* The second half of deliver_cb for plock messages
Dispatch(d, n, msg, junk) ==
    CASE msg.type = "plock" -> ReceivePlock(d, n, msg, junk)
      [] msg.type = "own"   -> ReceiveOwn(d, n, msg, junk)
      [] msg.type = "drop"  -> ReceiveDrop(d, n)
      [] OTHER              -> ReceiveSync(d, n, msg, junk)

\* receive_plock, receive_own, receive_drop, receive_sync
Receive(d, n, msg, junk) ==
    IF d.save THEN [d EXCEPT !.saved = Append(@, msg)] ELSE Dispatch(d, n, msg, junk)

-----------------------------------------------------------------------------
(* Membership changes and the checkpoint *)

\* purge_plocks for one resource
PurgeResource(r, n, node) ==
    LET kept == PurgeLocks(r, node)
        sent == IF r.owner = node THEN send_pending_plocks([kept.r EXCEPT !.owner = 0], n)
                                  ELSE [r |-> kept.r, send |-> <<>>]
    IN  [r |-> sent.r, send |-> sent.send, done |-> {x \in kept.done : x.node = n}]

HasLocksOf(r, node) == \/ \E po \in r.locks : po.node = node
                       \/ \E w \in Range(r.waiters) : w.node = node

purge_plocks(d, n, node) ==
    LET all == [i \in DOMAIN d.res |-> PurgeResource(d.res[i], n, node)]
        res == [i \in DOMAIN all |-> all[i].r]
    IN  [d EXCEPT !.res = IF d.ownership THEN res ELSE SelectSeq(res, LAMBDA r : ~Unused(r)),
                  !.send = @ \o FlattenSeq([i \in DOMAIN all |-> all[i].send]),
                  !.done = @ \cup UNION {a.done : a \in Range(all)},
                  !.uptodate = @ /\ ~\E r \in Range(d.res) : HasLocksOf(r, node)]

\* The owner store_plocks writes for r
StoredOwner(r, n) == IF r.owner = 0 /\ ~r.unown THEN n ELSE r.owner

pack_section_buf(r, n) ==
    IF r.owner = n THEN [locks |-> {}, waiters |-> <<>>]
    ELSE [locks   |-> {po \in r.locks : ~po.syncing},
          waiters |-> SelectSeq(r.waiters, LAMBDA w : ~w.syncing)]

\* Mutant: a resource of our own, which has no locks to store, is left out.
Sections_NotOwned(d, n) ==
    LET known == SelectSeq(d.res, LAMBDA r : r.owner \notin {-1, n})
    IN  [i \in DOMAIN known |-> [owner |-> StoredOwner(known[i], n),
                                 plocks |-> pack_section_buf(known[i], n)]]

\* The sections store_plocks writes
Sections(d, n) ==
    LET known == SelectSeq(d.res, LAMBDA r : r.owner # -1)
    IN  [i \in DOMAIN known |-> [owner |-> StoredOwner(known[i], n),
                                 plocks |-> pack_section_buf(known[i], n)]]

\* unpack_section_buf does not initialize the flags of locks and waiters.
Unpacked(section, junk) ==
    LET Flag(po) == [po EXCEPT !.syncing = junk]
    IN  [NewResource(section.owner) EXCEPT
            !.locks = {Flag(po) : po \in section.plocks.locks},
            !.waiters = [i \in DOMAIN section.plocks.waiters |-> Flag(section.plocks.waiters[i])]]

retrieve_plocks(d, sections, junk) ==
    [d EXCEPT !.res = @ \o [i \in DOMAIN sections |-> Unpacked(sections[i], junk)]]

process_saved_plocks(d, n, junk) ==
    FoldLeft(LAMBDA e, msg : Dispatch(e, n, msg, junk), [d EXCEPT !.saved = <<>>], d.saved)

\* msg.no stands for the change the message names
receive_plocks_stored(d, n, msg, sections, junk) ==
    IF ~d.need \/ d.changing \/ d.started # msg.no THEN d
    ELSE [process_saved_plocks(retrieve_plocks(d, sections, junk), n, junk)
             EXCEPT !.need = FALSE, !.save = FALSE]

Stored(d, sections) == [d |-> d, ckpt |-> sections]

\* The possible results: the checkpoint is left alone when it is up to date, and a
\* new one is if time() has moved on since the last plock.
store_plocks(d, n, sections) ==
    IF d.uptodate THEN {Stored(d, sections)}
    ELSE {Stored([d EXCEPT !.uptodate = later], Sections(d, n)) : later \in BOOLEAN}

\* ev is the last start message of a change: its members, the lowest of those that
\* have plock state (set_plock_ckpt_node), and the number of the start.
CkptNode(d, n, ev, sections) ==
    {[o EXCEPT !.d = Send(o.d, [type |-> "stored", from |-> n, no |-> ev.no])] :
        o \in IF d.added THEN store_plocks(d, n, sections) ELSE {Stored(d, sections)}}

prepare_plocks(d, n, ev, sections) ==
    IF ev.members = {n} THEN {Stored([d EXCEPT !.need = FALSE], sections)}
    ELSE IF ev.low = 0 THEN {Stored([d EXCEPT !.need = FALSE, !.save = FALSE], sections)}
    ELSE IF d.need THEN {Stored([d EXCEPT !.save = TRUE], sections)}
    ELSE IF ev.low = n THEN CkptNode(d, n, ev, sections)
    ELSE {Stored(d, sections)}

\* confchg_cb: new members, members that left or failed
Confchg(d, n, joined, removed) ==
    [FoldSet(LAMBDA node, e : purge_plocks(e, n, node), d, removed) EXCEPT
        !.changing = TRUE, !.added = @ \/ joined # {}]
=============================================================================
