----------------------------- MODULE PlockFile -----------------------------
(***************************************************************************)
(* The replica of one resource that every node keeps when nobody owns the  *)
(* resource: all nodes receive the same plock messages in the same order   *)
(* and apply them with the operations of Plocks.  A holder (an owner on a  *)
(* node) has one request at a time.                                        *)
(***************************************************************************)
EXTENDS Plocks

CONSTANTS Nodes, Owners, MaxOffset

ASSUME PlockFileAssumption == MaxOffset \in Nat

Offsets == 0 .. MaxOffset
Holders == Nodes \X Owners

VARIABLES res,        \* the resource
          downgraded  \* the last waiter pass gave up exclusive bytes (history)

vars == <<res, downgraded>>

Init == res = [locks |-> {}, waiters |-> <<>>] /\ downgraded = FALSE

Waits(h) == \E i \in DOMAIN res.waiters :
                res.waiters[i].node = h[1] /\ res.waiters[i].owner = h[2]

\* A waiter of r that is granted in after holds exclusively a byte it wants shared.
Downgrades(r, after) ==
    \E i \in DOMAIN r.waiters :
        LET w == r.waiters[i]
        IN  /\ ~\E j \in DOMAIN after.waiters : after.waiters[j] = w
            /\ ~w.ex /\ \E b \in w.start .. w.end : Holds(r.locks, w, b, TRUE)

\* receive_plock for a message that every node gets.  A get looks at no waiters.
Receive(in) ==
    /\ ~Waits(<<in.node, in.owner>>)
    /\ \E after \in {receive_plock(res, in, FALSE)} :
         /\ res' = after.r
         /\ downgraded' = IF in.op = "get" THEN downgraded ELSE Downgrades(res, after.r)

\* A node fails or leaves.
Purge(n) ==
    \E after \in {PurgeLocks(res, n)} :
        res' = after.r /\ downgraded' = Downgrades(res, after.r)

Next == \/ \E in \in Request(Nodes, Owners, Offsets) : Receive(in)
        \/ \E n \in Nodes : Purge(n)

Spec == Init /\ [][Next]_vars

-----------------------------------------------------------------------------
\* The resource consists of proper locks, and a holder that waits does so once.
TypeOK ==
    /\ res.locks \subseteq PosixLock(Nodes, Owners, Offsets) /\ Proper(res.locks)
    /\ res.waiters \in Seq(PosixLock(Nodes, Owners, Offsets))
    /\ \A i, j \in DOMAIN res.waiters : SameOwner(res.waiters[i], res.waiters[j]) => i = j

\* No two holders have a byte that one of them holds exclusively, and the locks
\* of one holder never overlap: splitting, shrinking and converting ranges leaves
\* no remains.
LocksSound == NoOverlap(res.locks) /\ NoConflict(res.locks)

\* Whoever waits has to: do_waiters runs after every operation and takes all that
\* can be granted.  The exception is the pass that itself gave up exclusive bytes
\* after it had looked at an earlier waiter.
NoLostWakeup ==
    downgraded \/ \A i \in DOMAIN res.waiters : is_conflict(res.locks, res.waiters[i])

NodeOfHolder(h) == h[1]

\* The bytes that are locked, and the requests that wait
Held(locks) ==
    UNION {{[holder |-> <<po.node, po.owner>>, byte |-> b, ex |-> po.ex] :
            b \in po.start .. po.end} : po \in locks}
Want(waiters) ==
    {[holder |-> <<w.node, w.owner>>, bytes |-> w.start .. w.end, ex |-> w.ex] :
     w \in Range(waiters)}

Posix == INSTANCE PosixLocks WITH
             Bytes <- Offsets, NodeOf <- NodeOfHolder,
             held <- Held(res.locks), want <- Want(res.waiters)

\* The replica implements posix locks byte by byte: every message changes the
\* modes of its holder on the bytes of its range and no others, and grants
\* waiters only what is compatible.
ImplementsPosixLocks == Posix!Spec
=============================================================================
