-------------------------- MODULE PlockRangeProofs --------------------------
(***************************************************************************)
(* The range algorithms of plock.c do to every byte what a posix lock or   *)
(* unlock should do, for all ranges and any number of locks.               *)
(***************************************************************************)
EXTENDS PlockRange, TLAPS

\* What the proofs use of one lock, of a set of locks and of a request.
IsLock(po) == /\ po = [node |-> po.node, owner |-> po.owner, ex |-> po.ex, start |-> po.start,
                       end |-> po.end, syncing |-> po.syncing]
              /\ po.ex \in BOOLEAN /\ po.start \in Nat /\ po.end \in Nat
              /\ po.start <= po.end /\ po.syncing \in BOOLEAN

Locks(locks) == (\A po \in locks : IsLock(po)) /\ NoOverlap(locks)

IsRequest(in) == /\ in.ex \in BOOLEAN /\ in.start \in Nat /\ in.end \in Nat
                 /\ in.start <= in.end

-----------------------------------------------------------------------------
(* How the request lies to the owner's locks *)

\* A lock that contains the request is the only one of its owner that overlaps it.
LEMMA ContainingIsAlone ==
    ASSUME NEW locks, Locks(locks), NEW in, IsRequest(in), NEW po \in Containing(locks, in)
    PROVE  /\ Mine(locks, in) = {po}
           /\ po \in locks /\ SameOwner(po, in) /\ IsLock(po)
           /\ po.start <= in.start /\ in.end <= po.end
<1>1. po \in locks /\ SameOwner(po, in) /\ IsLock(po)
  BY DEF Locks, Containing, OfType, Mine
<1>2. po.start <= in.start /\ in.end <= po.end
  BY <1>1 DEF Containing, OfType, Mine, overlap_type, IsLock, IsRequest
<1>3. ASSUME NEW q \in Mine(locks, in) PROVE q = po
  <2>1. q \in locks /\ SameOwner(q, in) /\ IsLock(q)
    BY DEF Locks, Mine
  <2>2. ranges_overlap(q.start, q.end, in.start, in.end)
    BY DEF Mine
  <2>3. ranges_overlap(q.start, q.end, po.start, po.end)
    BY <1>1, <1>2, <2>1, <2>2 DEF ranges_overlap, IsLock, IsRequest
  <2>4. SameOwner(q, po)
    BY <1>1, <2>1 DEF SameOwner
  <2> QED
    BY <1>1, <2>1, <2>3, <2>4 DEF Locks, NoOverlap
<1>4. po \in Mine(locks, in)
  BY DEF Containing, OfType
<1> QED
  BY <1>1, <1>2, <1>3, <1>4

\* Without such a lock every overlapping lock lies in the request or sticks out
\* of it on one side: the default cases of the switches are never taken.
LEMMA OtherTypes ==
    ASSUME NEW locks, Locks(locks), NEW in, IsRequest(in), Containing(locks, in) = {},
           NEW po \in Mine(locks, in)
    PROVE  \/ in.start <= po.start /\ po.end <= in.end /\ po \notin OfType(locks, in, 4)
           \/ po.start < in.start /\ in.start <= po.end /\ po.end < in.end /\ po \in OfType(locks, in, 4)
           \/ in.start < po.start /\ po.start <= in.end /\ in.end < po.end /\ po \in OfType(locks, in, 4)
<1>1. IsLock(po) /\ ranges_overlap(po.start, po.end, in.start, in.end)
  BY DEF Locks, Mine
<1>2. overlap_type(in.start, in.end, po.start, po.end) \notin {0, 1, 2}
  BY DEF Containing, OfType
<1> QED
  BY <1>1, <1>2 DEF OfType, overlap_type, ranges_overlap, IsLock, IsRequest

-----------------------------------------------------------------------------
(* Building blocks *)

\* Pieces of a lock that do not overlap can take its place.
LEMMA Replace ==
    ASSUME NEW locks, Locks(locks), NEW po \in locks, NEW pieces, Locks(pieces),
           \A q \in pieces : SameOwner(q, po) /\ po.start <= q.start /\ q.end <= po.end
    PROVE  Locks((locks \ {po}) \cup pieces)
<1> DEFINE new == (locks \ {po}) \cup pieces
<1>1. \A q \in new : IsLock(q)
  BY DEF Locks
<1>2. ASSUME NEW p \in new, NEW q \in new, p # q, SameOwner(p, q)
      PROVE  ~ranges_overlap(p.start, p.end, q.start, q.end)
  <2>1. CASE p \in locks \ {po} /\ q \in locks \ {po}
    BY <1>2, <2>1 DEF Locks, NoOverlap
  <2>2. CASE p \in pieces /\ q \in pieces
    BY <1>2, <2>2 DEF Locks, NoOverlap
  <2>3. ASSUME NEW x \in locks \ {po}, NEW y \in pieces, SameOwner(x, y)
        PROVE  x.end < y.start \/ x.start > y.end
    <3>1. SameOwner(x, po)
      BY <2>3 DEF SameOwner
    <3>2. x.end < po.start \/ x.start > po.end
      BY <3>1 DEF Locks, NoOverlap, ranges_overlap
    <3> QED
      BY <3>2 DEF Locks, IsLock
  <2>4. CASE p \in locks \ {po} /\ q \in pieces
    BY <1>2, <2>3, <2>4 DEF ranges_overlap
  <2>5. CASE p \in pieces /\ q \in locks \ {po}
    <3>1. SameOwner(q, p)
      BY <1>2 DEF SameOwner
    <3>2. q.end < p.start \/ q.start > p.end
      BY <2>3, <2>5, <3>1
    <3> QED
      BY <3>2, <1>1 DEF ranges_overlap, IsLock
  <2> QED
    BY <2>1, <2>2, <2>4, <2>5
<1> QED
  BY <1>1, <1>2 DEF Locks, NoOverlap

\* A lock that overlaps none of its owner's can be added.
LEMMA Add ==
    ASSUME NEW locks, Locks(locks), NEW po, IsLock(po),
           \A q \in locks : SameOwner(q, po) => q.end < po.start \/ q.start > po.end
    PROVE  Locks(locks \cup {po})
<1>1. ASSUME NEW p \in locks \cup {po}, NEW q \in locks \cup {po}, p # q, SameOwner(p, q)
      PROVE  ~ranges_overlap(p.start, p.end, q.start, q.end)
  <2>1. CASE p \in locks /\ q \in locks
    BY <1>1, <2>1 DEF Locks, NoOverlap
  <2>2. CASE p = po /\ q \in locks
    BY <1>1, <2>2 DEF SameOwner, ranges_overlap, Locks, IsLock
  <2>3. CASE q = po /\ p \in locks
    BY <1>1, <2>3 DEF SameOwner, ranges_overlap, Locks, IsLock
  <2> QED
    BY <1>1, <2>1, <2>2, <2>3
<1> QED
  BY <1>1 DEF Locks, NoOverlap

\* After the cut the owner holds nothing in the range, and the same as before outside of it.
LEMMA CutOutIsCut ==
    ASSUME NEW locks, Locks(locks), NEW in, IsRequest(in), Containing(locks, in) = {}
    PROVE  /\ Locks(CutOut(locks, in))
           /\ \A q \in CutOut(locks, in) :
                 SameOwner(q, in) => q.end < in.start \/ q.start > in.end
           /\ \A q : ~SameOwner(q, in) => (q \in CutOut(locks, in) <=> q \in locks)
           /\ \A b \in Nat : \A ex : Holds(CutOut(locks, in), in, b, ex)
                 <=> Holds(locks, in, b, ex) /\ ~(in.start <= b /\ b <= in.end)
<1> DEFINE cut == CutOut(locks, in)
           S(po) == shrink_range(po, in.start, in.end)
<1>1. ASSUME NEW po \in OfType(locks, in, 4)
      PROVE  /\ po \in locks /\ IsLock(po) /\ SameOwner(po, in)
             /\ IsLock(S(po)) /\ SameOwner(S(po), in) /\ S(po).ex = po.ex
             /\ po.start <= S(po).start /\ S(po).end <= po.end
             /\ \A b \in Nat : Covers(S(po), b) <=> Covers(po, b) /\ ~(in.start <= b /\ b <= in.end)
             /\ S(po).end < in.start \/ S(po).start > in.end
  <2>1. po \in Mine(locks, in) /\ po \in locks /\ IsLock(po) /\ SameOwner(po, in)
    BY DEF OfType, Mine, Locks
  <2>2. \/ po.start < in.start /\ in.start <= po.end /\ po.end < in.end
        \/ in.start < po.start /\ po.start <= in.end /\ in.end < po.end
    BY <2>1, OtherTypes
  <2>3. CASE po.start < in.start /\ in.start <= po.end /\ po.end < in.end
    <3>1. S(po) = [node |-> po.node, owner |-> po.owner, ex |-> po.ex, start |-> po.start,
                   end |-> in.start - 1, syncing |-> po.syncing]
      BY <2>1, <2>3 DEF shrink_range, IsLock
    <3> QED
      BY <2>1, <2>3, <3>1 DEF IsLock, SameOwner, Covers, IsRequest
  <2>4. CASE in.start < po.start /\ po.start <= in.end /\ in.end < po.end
    <3>1. S(po) = [node |-> po.node, owner |-> po.owner, ex |-> po.ex, start |-> in.end + 1,
                   end |-> po.end, syncing |-> po.syncing]
      <4>1. ~(po.start < in.start) /\ po.end > in.end
        BY <2>1, <2>4 DEF IsLock, IsRequest
      <4> QED
        BY <2>1, <4>1 DEF shrink_range, IsLock
    <3> QED
      BY <2>1, <2>4, <3>1 DEF IsLock, SameOwner, Covers, IsRequest
  <2> QED
    BY <2>2, <2>3, <2>4
<1>2. ASSUME NEW q \in cut
      PROVE  \/ q \in locks \ Mine(locks, in)
             \/ \E po \in OfType(locks, in, 4) : q = S(po)
  BY DEF CutOut
<1>3. \A q \in cut : IsLock(q)
  BY <1>1, <1>2 DEF Locks
<1>4. \A q \in cut : SameOwner(q, in) => q.end < in.start \/ q.start > in.end
  BY <1>1, <1>2 DEF Mine, ranges_overlap
<1>5. ASSUME NEW p \in cut, NEW q \in cut, p # q, SameOwner(p, q)
      PROVE  ~ranges_overlap(p.start, p.end, q.start, q.end)
  <2>1. PICK x \in locks : IsLock(x) /\ SameOwner(x, p) /\ x.start <= p.start /\ p.end <= x.end
                           /\ (p = x \/ (x \in OfType(locks, in, 4) /\ p = S(x)))
    BY <1>1, <1>2, <1>3 DEF SameOwner, IsLock, Locks
  <2>2. PICK y \in locks : IsLock(y) /\ SameOwner(y, q) /\ y.start <= q.start /\ q.end <= y.end
                           /\ (q = y \/ (y \in OfType(locks, in, 4) /\ q = S(y)))
    BY <1>1, <1>2, <1>3 DEF SameOwner, IsLock, Locks
  <2>3. CASE x # y
    <3>1. ~ranges_overlap(x.start, x.end, y.start, y.end)
      BY <1>5, <2>1, <2>2, <2>3 DEF Locks, NoOverlap, SameOwner
    <3> QED
      BY <3>1, <2>1, <2>2, <1>3 DEF ranges_overlap, IsLock
  <2>4. CASE x = y
    <3>1. x \in OfType(locks, in, 4)
      BY <1>5, <2>1, <2>2, <2>4
    <3>2. x \in cut /\ x \in Mine(locks, in)
      BY <1>5, <2>1, <2>2, <2>4, <3>1 DEF OfType
    <3>3. x.end < in.start \/ x.start > in.end
      BY <1>4, <3>2 DEF Mine
    <3> QED
      BY <3>2, <3>3, <2>1 DEF Mine, ranges_overlap
  <2> QED
    BY <2>3, <2>4
<1>6. Locks(cut)
  BY <1>3, <1>5 DEF Locks, NoOverlap
<1>7. ASSUME NEW q, ~SameOwner(q, in) PROVE q \in cut <=> q \in locks
  BY <1>1, <1>7 DEF CutOut, Mine
<1>8. ASSUME NEW b \in Nat, NEW ex
      PROVE  Holds(cut, in, b, ex)
                 <=> Holds(locks, in, b, ex) /\ ~(in.start <= b /\ b <= in.end)
  <2>1. ASSUME Holds(cut, in, b, ex)
        PROVE  Holds(locks, in, b, ex) /\ ~(in.start <= b /\ b <= in.end)
    <3>1. PICK q \in cut : SameOwner(q, in) /\ Covers(q, b) /\ q.ex = ex
      BY <2>1 DEF Holds
    <3>2. ~(in.start <= b /\ b <= in.end)
      BY <1>3, <1>4, <3>1 DEF Covers, IsLock, IsRequest
    <3>3. CASE q \in locks
      BY <3>1, <3>2, <3>3 DEF Holds
    <3>4. CASE \E po \in OfType(locks, in, 4) : q = S(po)
      <4>1. PICK po \in OfType(locks, in, 4) : q = S(po)
        BY <3>4
      <4>2. po \in locks /\ SameOwner(po, in) /\ Covers(po, b) /\ po.ex = ex
        BY <1>1, <3>1, <4>1
      <4> QED
        BY <3>2, <4>2 DEF Holds
    <3> QED
      BY <1>2, <3>3, <3>4
  <2>2. ASSUME Holds(locks, in, b, ex), ~(in.start <= b /\ b <= in.end)
        PROVE  Holds(cut, in, b, ex)
    <3>1. PICK po \in locks : SameOwner(po, in) /\ Covers(po, b) /\ po.ex = ex
      BY <2>2 DEF Holds
    <3>2. CASE po \notin Mine(locks, in)
      BY <3>1, <3>2 DEF Holds, CutOut
    <3>3. CASE po \in Mine(locks, in)
      <4>1. IsLock(po)
        BY DEF Locks
      <4>2. po \in OfType(locks, in, 4)
        BY <2>2, <3>1, <3>3, <4>1, OtherTypes DEF Covers, IsLock, IsRequest
      <4>3. S(po) \in cut /\ SameOwner(S(po), in) /\ Covers(S(po), b) /\ S(po).ex = ex
        BY <1>1, <2>2, <3>1, <4>2 DEF CutOut
      <4> QED
        BY <4>3 DEF Holds
    <3> QED
      BY <3>2, <3>3
  <2> QED
    BY <2>1, <2>2
<1> QED
  BY <1>4, <1>6, <1>7, <1>8

-----------------------------------------------------------------------------
(* What lock_internal and unlock_internal do *)

\* What a change from locks to new by the request in has to be: in's owner holds the bytes
\* of in in the modes within and the others as before, and other owners hold what they held.
Effect(locks, in, within, new) ==
    /\ Locks(new)
    /\ \A q : ~SameOwner(q, in) => (q \in new <=> q \in locks)
    /\ \A b \in Nat, ex \in BOOLEAN : Holds(new, in, b, ex)
          <=> IF in.start <= b /\ b <= in.end THEN ex \in within ELSE Holds(locks, in, b, ex)

\* The modes a lock request gives.
Wanted(in) == {in.ex}

\* The pieces po is replaced by have that effect on the bytes of po.
Split(po, in, within, pieces) ==
    /\ Locks(pieces)
    /\ \A q \in pieces : SameOwner(q, po) /\ po.start <= q.start /\ q.end <= po.end
    /\ \A b \in Nat, ex \in BOOLEAN : Covers(po, b) =>
          ((\E q \in pieces : Covers(q, b) /\ q.ex = ex)
             <=> IF in.start <= b /\ b <= in.end THEN ex \in within ELSE ex = po.ex)

\* If one lock contains the request, its effect on this lock is its effect.
LEMMA Pieces ==
    ASSUME NEW locks, Locks(locks), NEW in, IsRequest(in), NEW po \in Containing(locks, in),
           NEW within, NEW pieces, Split(po, in, within, pieces)
    PROVE  Effect(locks, in, within, (locks \ {po}) \cup pieces)
<1> DEFINE new == (locks \ {po}) \cup pieces
<1>1. po \in locks /\ SameOwner(po, in) /\ IsLock(po) /\ po.start <= in.start /\ in.end <= po.end
  BY ContainingIsAlone
<1>2. Locks(new)
  BY <1>1, Replace DEF Split
<1>3. ASSUME NEW q, ~SameOwner(q, in) PROVE q \in new <=> q \in locks
  BY <1>1, <1>3 DEF SameOwner, Split
<1>4. ASSUME NEW b \in Nat, NEW ex \in BOOLEAN
      PROVE  Holds(new, in, b, ex)
                 <=> IF in.start <= b /\ b <= in.end THEN ex \in within
                     ELSE Holds(locks, in, b, ex)
  <2>1. \A q \in locks \ {po} : SameOwner(q, in) => q.end < po.start \/ q.start > po.end
    BY <1>1 DEF Locks, NoOverlap, SameOwner, ranges_overlap
  <2>2. CASE Covers(po, b)
    <3>1. \A q \in locks \ {po} : ~(SameOwner(q, in) /\ Covers(q, b))
      BY <1>1, <2>1, <2>2 DEF Covers, Locks, IsLock
    <3>2. Holds(new, in, b, ex) <=> \E q \in pieces : Covers(q, b) /\ q.ex = ex
      BY <1>1, <3>1 DEF Holds, SameOwner, Split
    <3>3. Holds(locks, in, b, ex) <=> ex = po.ex
      BY <1>1, <2>2, <3>1 DEF Holds
    <3> QED
      BY <2>2, <3>2, <3>3 DEF Split
  <2>3. CASE ~Covers(po, b)
    <3>1. \A q \in pieces : ~Covers(q, b)
      BY <1>1, <2>3 DEF Covers, Locks, IsLock, Split
    <3>2. ~(in.start <= b /\ b <= in.end)
      BY <1>1, <2>3 DEF Covers, IsLock, IsRequest
    <3>3. Holds(new, in, b, ex) <=> Holds(locks, in, b, ex)
      BY <2>3, <3>1 DEF Holds
    <3> QED
      BY <3>2, <3>3
  <2> QED
    BY <2>2, <2>3
<1> QED
  BY <1>2, <1>3, <1>4 DEF Effect

\* A lock built by the algorithms has the fields it is given.
LEMMA NewLockIs ==
    ASSUME NEW in, NEW ex \in BOOLEAN, NEW start \in Nat, NEW end \in Nat, start <= end
    PROVE  LET po == NewLock(in, ex, start, end)
           IN  /\ IsLock(po) /\ SameOwner(po, in)
               /\ po.start = start /\ po.end = end /\ po.ex = ex
BY DEF NewLock, IsLock, SameOwner

\* A fragment lies between its ends, belongs to the owner and has the other mode.
LEMMA FragmentIs ==
    ASSUME NEW in, IsRequest(in), NEW start \in Nat, NEW end \in Nat, start <= end
    PROVE  LET po == Fragment(in, start, end)
           IN  /\ IsLock(po) /\ SameOwner(po, in)
               /\ po.start = start /\ po.end = end /\ po.ex # in.ex
<1> DEFINE ex == ~in.ex
           po == NewLock(in, ex, start, end)
<1>1. ex \in BOOLEAN /\ ex # in.ex
  BY DEF IsRequest
<1> HIDE DEF ex
<1>2. IsLock(po) /\ SameOwner(po, in) /\ po.start = start /\ po.end = end /\ po.ex = ex
  BY <1>1, NewLockIs
<1>3. po.ex # in.ex
  BY <1>1, <1>2
<1> HIDE DEF po
<1>4. Fragment(in, start, end) = po
  BY DEF Fragment, po, ex
<1> QED
  BY <1>2, <1>3, <1>4

\* A converted lock has the range and the mode of the request.
LEMMA ConvertIs ==
    ASSUME NEW in, IsRequest(in), NEW po, IsLock(po)
    PROVE  LET q == Convert(po, in)
           IN  /\ IsLock(q) /\ SameOwner(q, po)
               /\ q.start = in.start /\ q.end = in.end /\ q.ex = in.ex
BY DEF Convert, IsLock, SameOwner, IsRequest

\* What shrink_range leaves of a lock that sticks out on one side of the request.
LEMMA ShrinkIs ==
    ASSUME NEW in, IsRequest(in), NEW po, IsLock(po), po.start <= in.start, in.end <= po.end,
           overlap_type(in.start, in.end, po.start, po.end) = 1
    PROVE  LET q == shrink_range(po, in.start, in.end)
           IN  /\ IsLock(q) /\ SameOwner(q, po) /\ q.ex = po.ex
               /\ \/ /\ in.end = po.end /\ po.start < in.start
                     /\ q.start = po.start /\ q.end = in.start - 1
                  \/ /\ in.start = po.start /\ in.end < po.end
                     /\ q.start = in.end + 1 /\ q.end = po.end
<1>1. \/ in.start = po.start /\ in.end < po.end
      \/ in.end = po.end /\ po.start < in.start
  BY DEF overlap_type, IsLock, IsRequest
<1>2. CASE in.end = po.end /\ po.start < in.start
  <2>1. shrink_range(po, in.start, in.end)
           = [node |-> po.node, owner |-> po.owner, ex |-> po.ex, start |-> po.start,
              end |-> in.start - 1, syncing |-> po.syncing]
    BY <1>2 DEF shrink_range, IsLock
  <2> QED
    BY <1>2, <2>1 DEF IsLock, SameOwner, IsRequest
<1>3. CASE in.start = po.start /\ in.end < po.end
  <2>1. ~(po.start < in.start) /\ po.end > in.end
    BY <1>3 DEF IsLock, IsRequest
  <2>2. shrink_range(po, in.start, in.end)
           = [node |-> po.node, owner |-> po.owner, ex |-> po.ex, start |-> in.end + 1,
              end |-> po.end, syncing |-> po.syncing]
    BY <2>1 DEF shrink_range, IsLock
  <2> QED
    BY <1>3, <2>2 DEF IsLock, SameOwner, IsRequest
<1> QED
  BY <1>1, <1>2, <1>3

\* One lock overlaps no other.
LEMMA OneLock == ASSUME NEW c, IsLock(c) PROVE Locks({c})
BY DEF Locks, NoOverlap

\* Two locks that lie side by side.
LEMMA TwoLocks ==
    ASSUME NEW c, IsLock(c), NEW d, IsLock(d), c.end < d.start \/ c.start > d.end
    PROVE  Locks({c, d})
<1>1. Locks({c} \cup {d})
  BY OneLock, Add
<1>2. {c} \cup {d} = {c, d}
  OBVIOUS
<1> QED
  BY <1>1, <1>2

\* Three locks that lie side by side.
LEMMA ThreeLocks ==
    ASSUME NEW c, IsLock(c), NEW d, IsLock(d), NEW f, IsLock(f),
           f.end < c.start, c.end < d.start, f.end < d.start
    PROVE  Locks({c, f, d})
<1>0. c.start > f.end
  BY DEF IsLock
<1>1. Locks({c, f})
  BY <1>0, TwoLocks
<1>2. Locks({c, f} \cup {d})
  BY <1>1, Add
<1>3. {c, f} \cup {d} = {c, f, d}
  OBVIOUS
<1> QED
  BY <1>2, <1>3

\* The splits of lock_internal (cases 0, 1 and 2).
LEMMA LockSplit ==
    ASSUME NEW locks, Locks(locks), NEW in, IsRequest(in), NEW po \in Containing(locks, in)
    PROVE  \E pieces : /\ Split(po, in, Wanted(in), pieces)
                       /\ LockInside(locks, po, in) = (locks \ {po}) \cup pieces
<1>1. /\ po \in locks /\ SameOwner(po, in) /\ IsLock(po)
      /\ po.start <= in.start /\ in.end <= po.end
  BY ContainingIsAlone
<1> DEFINE c == Convert(po, in)
<1>2. IsLock(c) /\ SameOwner(c, po) /\ c.start = in.start /\ c.end = in.end /\ c.ex = in.ex
  BY <1>1, ConvertIs
<1>3. CASE po.ex = in.ex
  <2>1. LockInside(locks, po, in) = (locks \ {po}) \cup {po}
    BY <1>1, <1>3 DEF LockInside
  <2>2. Split(po, in, Wanted(in), {po})
    BY <1>1, <1>3 DEF Split, Locks, NoOverlap, SameOwner, IsLock, Wanted
  <2> QED
    BY <2>1, <2>2
<1>4. CASE po.ex # in.ex /\ po \in OfType(locks, in, 0)
  <2>1. LockInside(locks, po, in) = (locks \ {po}) \cup {c}
    BY <1>4 DEF LockInside
  <2> HIDE DEF c
  <2>2. po.start = in.start /\ po.end = in.end
    BY <1>1, <1>4 DEF OfType, overlap_type, IsLock, IsRequest
  <2>3. Split(po, in, Wanted(in), {c})
    BY <1>1, <1>2, <2>2 DEF Split, Locks, NoOverlap, IsLock, Covers, Wanted
  <2> QED
    BY <2>1, <2>3
<1>5. CASE po.ex # in.ex /\ po \notin OfType(locks, in, 0) /\ po \in OfType(locks, in, 1)
  <2> DEFINE rest == shrink_range(po, in.start, in.end)
             d    == Fragment(in, rest.start, rest.end)
  <2>1. overlap_type(in.start, in.end, po.start, po.end) = 1
    BY <1>5 DEF OfType
  <2>2. /\ IsLock(rest)
        /\ \/ /\ in.end = po.end /\ po.start < in.start
              /\ rest.start = po.start /\ rest.end = in.start - 1
           \/ /\ in.start = po.start /\ in.end < po.end
              /\ rest.start = in.end + 1 /\ rest.end = po.end
    BY <1>1, <2>1, ShrinkIs
  <2>3. LockInside(locks, po, in) = (locks \ {po}) \cup {c, d}
    BY <1>5 DEF LockInside, lock_case1
  <2> HIDE DEF rest
  <2>4. /\ IsLock(d) /\ SameOwner(d, in) /\ d.start = rest.start /\ d.end = rest.end
        /\ d.ex # in.ex
    <3>1. rest.start \in Nat /\ rest.end \in Nat /\ rest.start <= rest.end
      BY <2>2 DEF IsLock
    <3> QED
      BY <3>1, FragmentIs
  <2>5. SameOwner(d, po) /\ d.ex = po.ex
    BY <1>1, <1>5, <2>4 DEF SameOwner, IsLock, IsRequest
  <2> HIDE DEF c, d
  <2>6. Locks({c, d})
    <3>1. c.end < d.start \/ c.start > d.end
      BY <1>1, <1>2, <2>2, <2>4 DEF IsLock, IsRequest
    <3> QED
      BY <1>2, <2>4, <3>1, TwoLocks
  <2>7. \A q \in {c, d} : SameOwner(q, po) /\ po.start <= q.start /\ q.end <= po.end
    BY <1>1, <1>2, <2>2, <2>4, <2>5 DEF IsLock, IsRequest
  <2>8. ASSUME NEW b \in Nat, NEW ex \in BOOLEAN, Covers(po, b)
        PROVE  (\E q \in {c, d} : Covers(q, b) /\ q.ex = ex)
                 <=> IF in.start <= b /\ b <= in.end THEN ex \in Wanted(in) ELSE ex = po.ex
    <3>1. Covers(c, b) <=> in.start <= b /\ b <= in.end
      BY <1>2 DEF Covers
    <3>2. Covers(d, b) <=> ~(in.start <= b /\ b <= in.end)
      BY <1>1, <2>2, <2>4, <2>8 DEF Covers, IsLock, IsRequest
    <3> QED
      BY <1>2, <2>5, <3>1, <3>2 DEF Wanted
  <2> QED
    BY <2>3, <2>6, <2>7, <2>8 DEF Split
<1>6. CASE po.ex # in.ex /\ po \notin OfType(locks, in, 0) /\ po \notin OfType(locks, in, 1)
  <2> DEFINE f == Fragment(in, po.start, in.start - 1)
             d == Fragment(in, in.end + 1, po.end)
  <2>1. po.start < in.start /\ in.end < po.end
    BY <1>1, <1>6 DEF Containing, OfType, overlap_type, IsLock, IsRequest
  <2>2. LockInside(locks, po, in) = (locks \ {po}) \cup {c, f, d}
    BY <1>6 DEF LockInside, lock_case2
  <2>3. /\ IsLock(f) /\ SameOwner(f, in) /\ f.start = po.start /\ f.end = in.start - 1
        /\ f.ex # in.ex
    <3>1. /\ po.start \in Nat /\ in.start - 1 \in Nat
          /\ po.start <= in.start - 1
      BY <1>1, <2>1 DEF IsLock, IsRequest
    <3> QED
      BY <3>1, FragmentIs
  <2>4. /\ IsLock(d) /\ SameOwner(d, in) /\ d.start = in.end + 1 /\ d.end = po.end
        /\ d.ex # in.ex
    <3>1. /\ in.end + 1 \in Nat /\ po.end \in Nat
          /\ in.end + 1 <= po.end
      BY <1>1, <2>1 DEF IsLock, IsRequest
    <3> QED
      BY <3>1, FragmentIs
  <2>5. SameOwner(d, po) /\ d.ex = po.ex /\ SameOwner(f, po) /\ f.ex = po.ex
    BY <1>1, <1>6, <2>3, <2>4 DEF SameOwner, IsLock, IsRequest
  <2> HIDE DEF c, d, f
  <2>6. Locks({c, f, d})
    <3>1. f.end < c.start /\ c.end < d.start /\ f.end < d.start
      BY <1>1, <1>2, <2>1, <2>3, <2>4 DEF IsLock, IsRequest
    <3> QED
      BY <1>2, <2>3, <2>4, <3>1, ThreeLocks
  <2>7. \A q \in {c, f, d} : SameOwner(q, po) /\ po.start <= q.start /\ q.end <= po.end
    BY <1>1, <1>2, <2>1, <2>3, <2>4, <2>5 DEF IsLock, IsRequest
  <2>8. ASSUME NEW b \in Nat, NEW ex \in BOOLEAN, Covers(po, b)
        PROVE  (\E q \in {c, f, d} : Covers(q, b) /\ q.ex = ex)
                 <=> IF in.start <= b /\ b <= in.end THEN ex \in Wanted(in) ELSE ex = po.ex
    <3>1. Covers(c, b) <=> in.start <= b /\ b <= in.end
      BY <1>2 DEF Covers
    <3>2. Covers(d, b) \/ Covers(f, b) <=> ~(in.start <= b /\ b <= in.end)
      BY <1>1, <2>1, <2>3, <2>4, <2>8 DEF Covers, IsLock, IsRequest
    <3> QED
      BY <1>2, <2>5, <3>1, <3>2 DEF Wanted
  <2> QED
    BY <2>2, <2>6, <2>7, <2>8 DEF Split
<1> QED
  BY <1>3, <1>4, <1>5, <1>6

\* The splits of unlock_internal (cases 0, 1 and 2).
LEMMA UnlockSplit ==
    ASSUME NEW locks, Locks(locks), NEW in, IsRequest(in), NEW po \in Containing(locks, in)
    PROVE  \E pieces : /\ Split(po, in, {}, pieces)
                       /\ UnlockInside(locks, po, in) = (locks \ {po}) \cup pieces
<1>1. /\ po \in locks /\ SameOwner(po, in) /\ IsLock(po)
      /\ po.start <= in.start /\ in.end <= po.end
  BY ContainingIsAlone
<1>2. CASE po \in OfType(locks, in, 0)
  <2>1. UnlockInside(locks, po, in) = (locks \ {po}) \cup {}
    BY <1>2 DEF UnlockInside
  <2>2. po.start = in.start /\ po.end = in.end
    BY <1>1, <1>2 DEF OfType, overlap_type, IsLock, IsRequest
  <2>3. Split(po, in, {}, {})
    BY <2>2 DEF Split, Locks, NoOverlap, Covers
  <2> QED
    BY <2>1, <2>3
<1>3. CASE po \notin OfType(locks, in, 0) /\ po \in OfType(locks, in, 1)
  <2> DEFINE d == shrink_range(po, in.start, in.end)
  <2>1. overlap_type(in.start, in.end, po.start, po.end) = 1
    BY <1>3 DEF OfType
  <2>2. /\ IsLock(d) /\ SameOwner(d, po) /\ d.ex = po.ex
        /\ \/ /\ in.end = po.end /\ po.start < in.start
              /\ d.start = po.start /\ d.end = in.start - 1
           \/ /\ in.start = po.start /\ in.end < po.end
              /\ d.start = in.end + 1 /\ d.end = po.end
    BY <1>1, <2>1, ShrinkIs
  <2>3. UnlockInside(locks, po, in) = (locks \ {po}) \cup {d}
    BY <1>3 DEF UnlockInside
  <2> HIDE DEF d
  <2>4. Locks({d})
    BY <2>2, OneLock
  <2>5. \A q \in {d} : SameOwner(q, po) /\ po.start <= q.start /\ q.end <= po.end
    BY <1>1, <2>2 DEF IsLock, IsRequest
  <2>6. ASSUME NEW b \in Nat, NEW ex \in BOOLEAN, Covers(po, b)
        PROVE  (\E q \in {d} : Covers(q, b) /\ q.ex = ex)
                 <=> IF in.start <= b /\ b <= in.end THEN ex \in {} ELSE ex = po.ex
    <3>1. Covers(d, b) <=> ~(in.start <= b /\ b <= in.end)
      BY <1>1, <2>2, <2>6 DEF Covers, IsLock, IsRequest
    <3> QED
      BY <2>2, <3>1
  <2> QED
    BY <2>3, <2>4, <2>5, <2>6 DEF Split
<1>4. CASE po \notin OfType(locks, in, 0) /\ po \notin OfType(locks, in, 1)
  <2> DEFINE f == [po EXCEPT !.end = in.start - 1]
             d == NewLock(in, po.ex, in.end + 1, po.end)
  <2>1. po.start < in.start /\ in.end < po.end
    BY <1>1, <1>4 DEF Containing, OfType, overlap_type, IsLock, IsRequest
  <2>2. UnlockInside(locks, po, in) = (locks \ {po}) \cup {f, d}
    BY <1>4 DEF UnlockInside, add_lock
  <2>3. f = [node |-> po.node, owner |-> po.owner, ex |-> po.ex, start |-> po.start,
             end |-> in.start - 1, syncing |-> po.syncing]
    BY <1>1 DEF IsLock
  <2>4. /\ IsLock(f) /\ SameOwner(f, po) /\ f.start = po.start /\ f.end = in.start - 1
        /\ f.ex = po.ex
    BY <1>1, <2>1, <2>3 DEF IsLock, SameOwner, IsRequest
  <2>5. /\ IsLock(d) /\ SameOwner(d, in) /\ d.start = in.end + 1 /\ d.end = po.end
        /\ d.ex = po.ex
    <3>1. /\ po.ex \in BOOLEAN /\ in.end + 1 \in Nat /\ po.end \in Nat
          /\ in.end + 1 <= po.end
      BY <1>1, <2>1 DEF IsLock, IsRequest
    <3> QED
      BY <3>1, NewLockIs
  <2>6. SameOwner(d, po)
    BY <1>1, <2>5 DEF SameOwner
  <2> HIDE DEF f, d
  <2>7. Locks({f, d})
    <3>1. f.end < d.start
      BY <1>1, <2>1, <2>4, <2>5 DEF IsLock, IsRequest
    <3> QED
      BY <2>4, <2>5, <3>1, TwoLocks
  <2>8. \A q \in {f, d} : SameOwner(q, po) /\ po.start <= q.start /\ q.end <= po.end
    BY <1>1, <2>1, <2>4, <2>5, <2>6 DEF IsLock, IsRequest
  <2>9. ASSUME NEW b \in Nat, NEW ex \in BOOLEAN, Covers(po, b)
        PROVE  (\E q \in {f, d} : Covers(q, b) /\ q.ex = ex)
                 <=> IF in.start <= b /\ b <= in.end THEN ex \in {} ELSE ex = po.ex
    <3>1. Covers(d, b) \/ Covers(f, b) <=> ~(in.start <= b /\ b <= in.end)
      BY <1>1, <2>1, <2>4, <2>5, <2>9 DEF Covers, IsLock, IsRequest
    <3> QED
      BY <2>4, <2>5, <3>1
  <2> QED
    BY <2>2, <2>7, <2>8, <2>9 DEF Split
<1> QED
  BY <1>2, <1>3, <1>4

-----------------------------------------------------------------------------
(* The theorems *)

\* lock_internal gives the owner the whole range in the new mode, and leaves the
\* other bytes and the other owners alone.
THEOREM LockEffect ==
    ASSUME NEW locks, Locks(locks), NEW in, IsRequest(in)
    PROVE  Effect(locks, in, Wanted(in), lock_internal(locks, in))
<1>1. CASE Containing(locks, in) = {}
  <2> DEFINE cut == CutOut(locks, in)
             po  == NewLock(in, in.ex, in.start, in.end)
  <2>1. IsLock(po) /\ SameOwner(po, in) /\ po.start = in.start /\ po.end = in.end /\ po.ex = in.ex
    BY NewLockIs DEF IsRequest
  <2>2. lock_internal(locks, in) = cut \cup {po}
    BY <1>1 DEF lock_internal, add_lock
  <2>3. /\ Locks(cut)
        /\ \A q \in cut : SameOwner(q, in) => q.end < in.start \/ q.start > in.end
        /\ \A q : ~SameOwner(q, in) => (q \in cut <=> q \in locks)
        /\ \A b \in Nat : \A ex : Holds(cut, in, b, ex)
              <=> Holds(locks, in, b, ex) /\ ~(in.start <= b /\ b <= in.end)
    BY <1>1, CutOutIsCut
  <2> HIDE DEF cut, po
  <2>4. Locks(cut \cup {po})
    BY <2>1, <2>3, Add DEF SameOwner
  <2>5. ASSUME NEW q, ~SameOwner(q, in) PROVE q \in cut \cup {po} <=> q \in locks
    BY <2>1, <2>3, <2>5
  <2>6. ASSUME NEW b \in Nat, NEW ex \in BOOLEAN
        PROVE  Holds(cut \cup {po}, in, b, ex)
                 <=> IF in.start <= b /\ b <= in.end THEN ex \in Wanted(in) ELSE Holds(locks, in, b, ex)
    <3>1. Holds(cut \cup {po}, in, b, ex)
             <=> Holds(cut, in, b, ex) \/ (in.start <= b /\ b <= in.end /\ ex = in.ex)
      BY <2>1 DEF Holds, Covers
    <3> QED
      BY <2>3, <3>1 DEF Wanted
  <2> QED
    BY <2>2, <2>4, <2>5, <2>6 DEF Effect
<1>2. CASE Containing(locks, in) # {}
  <2> DEFINE po == CHOOSE po \in Containing(locks, in) : TRUE
  <2>1. po \in Containing(locks, in)
    BY <1>2
  <2>2. lock_internal(locks, in) = LockInside(locks, po, in)
    BY <1>2 DEF lock_internal
  <2> HIDE DEF po
  <2>3. PICK pieces : /\ Split(po, in, Wanted(in), pieces)
                      /\ LockInside(locks, po, in) = (locks \ {po}) \cup pieces
    BY <2>1, LockSplit
  <2>4. Effect(locks, in, Wanted(in), (locks \ {po}) \cup pieces)
    BY <2>1, <2>3, Pieces
  <2> QED
    BY <2>2, <2>3, <2>4
<1> QED
  BY <1>1, <1>2

\* unlock_internal takes the whole range from the owner, and leaves the other
\* bytes and the other owners alone.
THEOREM UnlockEffect ==
    ASSUME NEW locks, Locks(locks), NEW in, IsRequest(in)
    PROVE  Effect(locks, in, {}, unlock_internal(locks, in))
<1>1. CASE Containing(locks, in) = {}
  <2>1. unlock_internal(locks, in) = CutOut(locks, in)
    BY <1>1 DEF unlock_internal
  <2> QED
    BY <1>1, <2>1, CutOutIsCut DEF Effect
<1>2. CASE Containing(locks, in) # {}
  <2> DEFINE po == CHOOSE po \in Containing(locks, in) : TRUE
  <2>1. po \in Containing(locks, in)
    BY <1>2
  <2>2. unlock_internal(locks, in) = UnlockInside(locks, po, in)
    BY <1>2 DEF unlock_internal
  <2> HIDE DEF po
  <2>3. PICK pieces : /\ Split(po, in, {}, pieces)
                      /\ UnlockInside(locks, po, in) = (locks \ {po}) \cup pieces
    BY <2>1, UnlockSplit
  <2>4. Effect(locks, in, {}, (locks \ {po}) \cup pieces)
    BY <2>1, <2>3, Pieces
  <2> QED
    BY <2>2, <2>3, <2>4
<1> QED
  BY <1>1, <1>2

\* A change with such an effect makes no conflict, if the modes it gives to the
\* owner conflict with no lock.
LEMMA EffectNoConflict ==
    ASSUME NEW locks, Locks(locks), NoConflict(locks), NEW in, IsRequest(in),
           NEW within, within \subseteq Wanted(in), within # {} => ~is_conflict(locks, in),
           NEW new, Effect(locks, in, within, new)
    PROVE  NoConflict(new)
<1>1. ASSUME NEW p \in new, NEW q \in new, ~SameOwner(q, p), p.ex \/ q.ex,
             ranges_overlap(q.start, q.end, p.start, p.end)
      PROVE  FALSE
  <2>1. IsLock(p) /\ IsLock(q)
    BY DEF Effect, Locks
  <2>2. PICK b \in Nat : Covers(p, b) /\ Covers(q, b)
    <3>1. CASE p.start <= q.start
      BY <1>1, <2>1, <3>1 DEF ranges_overlap, Covers, IsLock
    <3>2. CASE q.start <= p.start
      BY <1>1, <2>1, <3>2 DEF ranges_overlap, Covers, IsLock
    <3> QED
      BY <2>1, <3>1, <3>2 DEF IsLock
  <2>3. ASSUME NEW x \in new, NEW y \in new, SameOwner(x, in), ~SameOwner(y, in),
               Covers(x, b), Covers(y, b), x.ex \/ y.ex
        PROVE  FALSE
    <3>1. y \in locks /\ IsLock(y) /\ IsLock(x)
      BY <2>3 DEF Effect, Locks
    <3>2. Holds(new, in, b, x.ex) /\ x.ex \in BOOLEAN
      BY <2>3, <3>1 DEF Holds, IsLock
    <3>3. CASE in.start <= b /\ b <= in.end
      <4>1. x.ex \in within
        BY <3>2, <3>3 DEF Effect
      <4>2. x.ex = in.ex /\ ~is_conflict(locks, in)
        BY <4>1 DEF Wanted
      <4>3. ranges_overlap(y.start, y.end, in.start, in.end)
        BY <2>3, <3>1, <3>3 DEF ranges_overlap, Covers, IsLock, IsRequest
      <4> QED
        BY <2>3, <3>1, <4>2, <4>3 DEF is_conflict
    <3>4. CASE ~(in.start <= b /\ b <= in.end)
      <4>1. Holds(locks, in, b, x.ex)
        BY <3>2, <3>4 DEF Effect
      <4>2. PICK z \in locks : SameOwner(z, in) /\ Covers(z, b) /\ z.ex = x.ex
        BY <4>1 DEF Holds
      <4>3. IsLock(z) /\ ~SameOwner(y, z)
        BY <2>3, <4>2 DEF Locks, SameOwner
      <4>4. ranges_overlap(y.start, y.end, z.start, z.end)
        BY <2>3, <3>1, <4>2, <4>3 DEF ranges_overlap, Covers, IsLock
      <4> QED
        BY <2>3, <3>1, <4>2, <4>3, <4>4 DEF NoConflict, is_conflict
    <3> QED
      BY <3>3, <3>4
  <2>4. CASE SameOwner(p, in)
    BY <1>1, <2>2, <2>3, <2>4 DEF SameOwner
  <2>5. CASE SameOwner(q, in)
    BY <1>1, <2>2, <2>3, <2>5 DEF SameOwner
  <2>6. CASE ~SameOwner(p, in) /\ ~SameOwner(q, in)
    <3>1. p \in locks /\ q \in locks
      BY <2>6 DEF Effect
    <3> QED
      BY <1>1, <3>1 DEF NoConflict, is_conflict
  <2> QED
    BY <2>4, <2>5, <2>6
<1> QED
  BY <1>1 DEF NoConflict, is_conflict

\* A granted lock or an unlock never gives two owners a byte that one of them
\* holds exclusively: do_lock and do_waiters ask is_conflict before lock_internal.
THEOREM NoConflictKept ==
    ASSUME NEW locks, Locks(locks), NoConflict(locks), NEW in, IsRequest(in)
    PROVE  /\ ~is_conflict(locks, in) => NoConflict(lock_internal(locks, in))
           /\ NoConflict(unlock_internal(locks, in))
<1>1. ~is_conflict(locks, in) => NoConflict(lock_internal(locks, in))
  BY LockEffect, EffectNoConflict
<1>2. NoConflict(unlock_internal(locks, in))
  BY UnlockEffect, EffectNoConflict
<1> QED
  BY <1>1, <1>2
=============================================================================
