----------------------------- MODULE PlockRange -----------------------------
(***************************************************************************)
(* The range algorithms of plock.c: how a posix lock or unlock of a range  *)
(* of bytes changes the locks on a resource.  A lock belongs to an owner   *)
(* on a node.  r->locks is a set here: no two locks of one owner overlap   *)
(* (NoOverlap, kept by lock_internal and unlock_internal), so at most one  *)
(* of them contains the new range and the order of the list does not       *)
(* matter.  pid is left out: it is only reported.                          *)
(***************************************************************************)
EXTENDS Integers

\* struct posix_lock, and the part of struct lock_waiter the code reads.
\* syncing: P_SYNCING
PosixLock(Nodes, Owners, Offsets) ==
    [node : Nodes, owner : Owners, ex : BOOLEAN, start : Offsets, end : Offsets,
     syncing : BOOLEAN]

SameOwner(po, in) == po.node = in.node /\ po.owner = in.owner

ranges_overlap(start1, end1, start2, end2) == ~(end1 < start2 \/ start1 > end2)

\* The new range s1:e1 and the existing range s2:e2; -1 cannot happen
overlap_type(s1, e1, s2, e2) ==
    IF s1 = s2 /\ e1 = e2 THEN 0
    ELSE IF s1 = s2 /\ e1 < e2 THEN 1
    ELSE IF s1 > s2 /\ e1 = e2 THEN 1
    ELSE IF s1 > s2 /\ e1 < e2 THEN 2
    ELSE IF s1 <= s2 /\ e1 >= e2 THEN 3
    ELSE IF s1 > s2 /\ e1 > e2 THEN 4
    ELSE IF s1 < s2 /\ e1 < e2 THEN 4
    ELSE -1

\* What is left of po outside the partially overlapping start:end; the error
\* for a range without a rest cannot happen
shrink_range(po, start, end) ==
    IF po.start < start THEN [po EXCEPT !.end = start - 1]
    ELSE IF po.end > end THEN [po EXCEPT !.start = end + 1]
    ELSE po

\* Mutant: only the locks that start in the range of the request are looked at.
is_conflict_StartOnly(locks, in) ==
    \E po \in locks : /\ ~SameOwner(po, in)
                      /\ po.start >= in.start /\ po.start <= in.end
                      /\ in.ex \/ po.ex

is_conflict(locks, in) ==
    \E po \in locks : /\ ~SameOwner(po, in)
                      /\ ranges_overlap(po.start, po.end, in.start, in.end)
                      /\ in.ex \/ po.ex

\* The lock add_lock makes for the owner of in
NewLock(in, ex, start, end) ==
    [node |-> in.node, owner |-> in.owner, ex |-> ex, start |-> start, end |-> end,
     syncing |-> FALSE]

add_lock(locks, in, ex, start, end) == locks \cup {NewLock(in, ex, start, end)}

-----------------------------------------------------------------------------
(* lock_internal and unlock_internal *)

\* The locks of the owner that overlap the request, and those of one type.
Mine(locks, in) ==
    {po \in locks : SameOwner(po, in) /\ ranges_overlap(po.start, po.end, in.start, in.end)}

OfType(locks, in, type) ==
    {po \in Mine(locks, in) : overlap_type(in.start, in.end, po.start, po.end) = type}

\* The existing lock takes the range and the mode of the request.
Convert(po, in) == [node |-> po.node, owner |-> po.owner, ex |-> in.ex, start |-> in.start,
                    end |-> in.end, syncing |-> po.syncing]

\* A fragment of it keeps the original mode.
Fragment(in, start, end) == NewLock(in, ~in.ex, start, end)

lock_case1(locks, po, in) ==
    LET rest == shrink_range(po, in.start, in.end)
    IN  (locks \ {po}) \cup {Convert(po, in), Fragment(in, rest.start, rest.end)}

\* Mutant: the back fragment is forgotten.
lock_case2_NoBack(locks, po, in) ==
    (locks \ {po}) \cup {Convert(po, in), Fragment(in, po.start, in.start - 1)}

lock_case2(locks, po, in) ==
    (locks \ {po}) \cup {Convert(po, in), Fragment(in, po.start, in.start - 1),
                         Fragment(in, in.end + 1, po.end)}

\* Cases 3 and 4: the range of the request is cut out of all the owner's locks.
CutOut(locks, in) ==
    (locks \ Mine(locks, in)) \cup
        {shrink_range(po, in.start, in.end) : po \in OfType(locks, in, 4)}

\* The locks that contain the range of the request (cases 0, 1 and 2).
Containing(locks, in) ==
    OfType(locks, in, 0) \cup OfType(locks, in, 1) \cup OfType(locks, in, 2)

LockInside(locks, po, in) ==
    IF po.ex = in.ex THEN locks
    ELSE IF po \in OfType(locks, in, 0) THEN (locks \ {po}) \cup {Convert(po, in)}
    ELSE IF po \in OfType(locks, in, 1) THEN lock_case1(locks, po, in)
    ELSE lock_case2(locks, po, in)

lock_internal(locks, in) ==
    IF Containing(locks, in) # {}
    THEN LockInside(locks, CHOOSE po \in Containing(locks, in) : TRUE, in)
    ELSE add_lock(CutOut(locks, in), in, in.ex, in.start, in.end)

\* Mutant: a range at the edge of the lock is treated as one in the middle.
UnlockInside_NoCase1(locks, po, in) ==
    IF po \in OfType(locks, in, 0) THEN locks \ {po}
    ELSE add_lock((locks \ {po}) \cup {[po EXCEPT !.end = in.start - 1]},
                  in, po.ex, in.end + 1, po.end)

UnlockInside(locks, po, in) ==
    IF po \in OfType(locks, in, 0) THEN locks \ {po}
    ELSE IF po \in OfType(locks, in, 1)
    THEN (locks \ {po}) \cup {shrink_range(po, in.start, in.end)}
    ELSE add_lock((locks \ {po}) \cup {[po EXCEPT !.end = in.start - 1]},
                  in, po.ex, in.end + 1, po.end)

unlock_internal(locks, in) ==
    IF Containing(locks, in) # {}
    THEN UnlockInside(locks, CHOOSE po \in Containing(locks, in) : TRUE, in)
    ELSE CutOut(locks, in)

-----------------------------------------------------------------------------
(* What the locks mean *)

Covers(po, b) == po.start <= b /\ b <= po.end

\* The owner of in holds byte b in mode ex.
Holds(locks, in, b, ex) == \E po \in locks : SameOwner(po, in) /\ Covers(po, b) /\ po.ex = ex

\* Ranges are not empty.
Proper(locks) == \A po \in locks : po.start <= po.end

\* No two locks of one owner overlap.
NoOverlap(locks) ==
    \A po, q \in locks : po # q /\ SameOwner(po, q)
        => ~ranges_overlap(po.start, po.end, q.start, q.end)

\* No two owners hold a byte unless both hold it shared.
NoConflict(locks) == \A po \in locks : ~is_conflict(locks, po)
=============================================================================
