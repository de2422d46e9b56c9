------------------------------- MODULE Plocks -------------------------------
(***************************************************************************)
(* Operations of plock.c on one resource, a record with at least the       *)
(* fields locks (a set, see PlockRange) and waiters (a sequence of         *)
(* requests that wait for a conflicting lock to go away).  An operation    *)
(* gives the new resource and the results it has for the kernel of the     *)
(* owner's node; write_result writes those of our own node.                *)
(***************************************************************************)
EXTENDS PlockRange, Sequences, Functions

\* struct dlm_plock_info
Request(Nodes, Owners, Offsets) ==
    {in \in [op : {"lock", "unlock", "get"}, node : Nodes, owner : Owners, ex : BOOLEAN,
             wait : BOOLEAN, start : Offsets, end : Offsets] : in.start <= in.end}

\* The result rv of the request in, or of a waiter.
Result(in, rv) == [node |-> in.node, owner |-> in.owner, rv |-> rv]

\* The flags of a new waiter are not initialized; junk is what they hold.
add_waiter(r, in, junk) ==
    [r EXCEPT !.waiters = Append(@, [NewLock(in, in.ex, in.start, in.end) EXCEPT !.syncing = junk])]

\* Mutant: stops at the first waiter that has to go on waiting.
do_waiters_Fifo(r) ==
    LET conflicts == {i \in DOMAIN r.waiters : is_conflict(r.locks, r.waiters[i])}
    IN  IF 1 \in DOMAIN r.waiters \ conflicts
        THEN [r |-> [r EXCEPT !.locks = lock_internal(@, Head(r.waiters)), !.waiters = Tail(@)],
              done |-> {Result(Head(r.waiters), "ok")}]
        ELSE [r |-> r, done |-> {}]

\* What do_waiters does with the waiter w; acc: the resource and the results so far
LookAt(acc, w) ==
    IF is_conflict(acc.r.locks, w)
    THEN [acc EXCEPT !.r.waiters = Append(@, w)]
    ELSE [acc EXCEPT !.r.locks = lock_internal(@, w), !.done = @ \cup {Result(w, "ok")}]

\* One pass over the waiters from the oldest to the newest.  A waiter that is
\* granted may give up part of what its owner held exclusively; the waiters
\* before it are not looked at again.
do_waiters(r) ==
    LET pass[i \in 0 .. Len(r.waiters)] ==
            IF i = 0 THEN [r |-> [r EXCEPT !.waiters = <<>>], done |-> {}]
            ELSE LookAt(pass[i - 1], r.waiters[i])
    IN  pass[Len(r.waiters)]

\* The end of do_lock and do_unlock: the result rv of in, then the waiters
Finish(r, in, rv) ==
    [do_waiters(r) EXCEPT !.done = IF rv = "inprogress" THEN @ ELSE @ \cup {Result(in, rv)}]

do_lock(r, in, junk) ==
    IF ~is_conflict(r.locks, in)
    THEN Finish([r EXCEPT !.locks = lock_internal(@, in)], in, "ok")
    ELSE IF in.wait
    THEN Finish(add_waiter(r, in, junk), in, "inprogress")
    ELSE Finish(r, in, "again")

do_unlock(r, in) == Finish([r EXCEPT !.locks = unlock_internal(@, in)], in, "ok")

do_get(r, in) ==
    [r |-> r, done |-> {Result(in, IF is_conflict(r.locks, in) THEN "conflict" ELSE "none")}]

\* __receive_plock
receive_plock(r, in, junk) ==
    CASE in.op = "lock"   -> do_lock(r, in, junk)
      [] in.op = "unlock" -> do_unlock(r, in)
      [] in.op = "get"    -> do_get(r, in)

\* purge_plocks takes the waiters of the node off the list.
OthersWaiters(waiters, node) ==
    LET rest[i \in 0 .. Len(waiters)] ==
            IF i = 0 THEN <<>>
            ELSE IF waiters[i].node = node THEN rest[i - 1]
            ELSE Append(rest[i - 1], waiters[i])
    IN  rest[Len(waiters)]

\* purge_plocks for one resource, without the change of its owner
PurgeLocks(r, node) ==
    do_waiters([r EXCEPT !.locks = {po \in @ : po.node # node},
                         !.waiters = OthersWaiters(@, node)])
=============================================================================
