-------------------------- MODULE PlockFileProofs --------------------------
(***************************************************************************)
(* PlockFile for any nodes, owners and offsets: its invariants, and that   *)
(* it implements PosixLocks.  do_waiters and the removal of waiters are    *)
(* recursive functions over the list; what they compute is shown by        *)
(* induction on the position in the list, in the form of NatInd.           *)
(***************************************************************************)
EXTENDS PlockFile, PlockRangeProofs, WellFoundedInduction

\* A leaf that names no prover is left to Zenon.
USE ZenonT(30)

-----------------------------------------------------------------------------
(* Induction, and the recursive functions *)

\* A set of naturals that is closed under successor and has 0 has all of them.
LEMMA NatInd ==
    ASSUME NEW S, 0 \in S, \A n \in Nat : n \in S => n + 1 \in S
    PROVE  \A n \in Nat : n \in S
<1> DEFINE R == OpToRel(<, Nat)
           Bad == Nat \ S
<1>1. IsWellFoundedOn(R, Nat)
  BY NatLessThanWellFounded
<1>2. ASSUME Bad # {} PROVE FALSE
  <2>1. PICK m \in Bad : \A k \in Bad : ~(<<k, m>> \in R)
    <3>1. Bad \subseteq Nat
      OBVIOUS
    <3> HIDE DEF R, Bad
    <3> QED
      BY <1>1, <1>2, <3>1, WFMin
  <2>2. \A k \in Bad : ~(k < m)
    BY <2>1 DEF OpToRel
  <2> HIDE DEF R
  <2>3. m # 0 /\ m - 1 \in Nat /\ m - 1 < m /\ m = (m - 1) + 1
    BY SMT
  <2>4. m - 1 \in S
    BY <2>2, <2>3
  <2> QED
    BY <2>1, <2>3, <2>4
<1> QED
  BY <1>2

\* f[i] is what do_waiters has after the first i waiters ws, for i up to n.
IsPass(f, ws, base, n) ==
    f = [i \in 0 .. n |-> IF i = 0 THEN base ELSE LookAt(f[i - 1], ws[i])]

\* There is such a function.
LEMMA PassExists ==
    ASSUME NEW ws, NEW base
    PROVE  \A n \in Nat : \E f : IsPass(f, ws, base, n)
<1> DEFINE S == {n \in Nat : \E f : IsPass(f, ws, base, n)}
<1>1. 0 \in S
  <2>1. IsPass([i \in 0 .. 0 |-> base], ws, base, 0)
    BY SMT DEF IsPass
  <2> QED
    BY <2>1
<1>2. ASSUME NEW n \in Nat, n \in S PROVE n + 1 \in S
  <2>1. PICK f : IsPass(f, ws, base, n)
    BY <1>2
  <2> DEFINE g == [i \in 0 .. n + 1 |-> IF i = n + 1 THEN LookAt(f[n], ws[n + 1]) ELSE f[i]]
  <2>2. ASSUME NEW i \in 0 .. n + 1
        PROVE  g[i] = IF i = 0 THEN base ELSE LookAt(g[i - 1], ws[i])
    <3>1. CASE i = n + 1
      <4>1. g[i] = LookAt(f[n], ws[n + 1]) /\ g[i - 1] = f[n] /\ i # 0
        BY <3>1, SMT
      <4> HIDE DEF g
      <4> QED
        BY <3>1, <4>1
    <3>2. CASE i # n + 1
      <4>1. i \in 0 .. n /\ g[i] = f[i]
        BY <3>2, SMT
      <4>2. f[i] = IF i = 0 THEN base ELSE LookAt(f[i - 1], ws[i])
        BY <2>1, <4>1 DEF IsPass
      <4>3. i # 0 => g[i - 1] = f[i - 1]
        BY <4>1, SMT
      <4> HIDE DEF g
      <4> QED
        BY <4>1, <4>2, <4>3
    <3> QED
      BY <3>1, <3>2
  <2>3. g = [i \in 0 .. n + 1 |-> g[i]]
    OBVIOUS
  <2> HIDE DEF g
  <2>4. IsPass(g, ws, base, n + 1)
    BY <2>2, <2>3 DEF IsPass
  <2> QED
    BY <2>4, SMT
<1> HIDE DEF S
<1>3. \A n \in Nat : n \in S
  BY <1>1, <1>2, NatInd
<1> QED
  BY <1>3 DEF S

\* do_waiters gives the last state of such a function.
LEMMA DoWaitersIsPass ==
    ASSUME NEW r, Len(r.waiters) \in Nat
    PROVE  \E f : /\ IsPass(f, r.waiters, [r |-> [r EXCEPT !.waiters = <<>>], done |-> {}],
                            Len(r.waiters))
                  /\ do_waiters(r) = f[Len(r.waiters)]
<1> DEFINE N == Len(r.waiters)
           base == [r |-> [r EXCEPT !.waiters = <<>>], done |-> {}]
           pass[i \in 0 .. N] == IF i = 0 THEN base ELSE LookAt(pass[i - 1], r.waiters[i])
<1>1. do_waiters(r) = pass[N]
  BY DEF do_waiters
<1>2. \E f : IsPass(f, r.waiters, base, N)
  <2> HIDE DEF base, N
  <2>1. N \in Nat
    BY DEF N
  <2> QED
    BY <2>1, PassExists
<1>3. IsPass(pass, r.waiters, base, N)
  <2> HIDE DEF base, N
  <2> QED
    BY <1>2 DEF IsPass
<1> QED
  BY <1>1, <1>3

-----------------------------------------------------------------------------
(* Locks and their bytes *)

Lock == PosixLock(Nodes, Owners, Offsets)

Sound(locks) == Locks(locks) /\ locks \subseteq Lock /\ NoConflict(locks)

Queue(ws) == /\ ws \in Seq(Lock)
             /\ \A i \in DOMAIN ws : ws[i].start <= ws[i].end
             /\ \A i, j \in DOMAIN ws : SameOwner(ws[i], ws[j]) => i = j

\* A record of the type that is not empty is a lock and a request to the range lemmas.
LEMMA LockIs ==
    ASSUME NEW w \in Lock, w.start <= w.end
    PROVE  /\ IsLock(w) /\ IsRequest(w)
           /\ w.node \in Nodes /\ w.owner \in Owners /\ w.end <= MaxOffset
BY PlockFileAssumption, SMT DEF Lock, PosixLock, Offsets, IsLock, IsRequest

\* Who holds a byte after a lock or an unlock.
LEMMA EffectHolds ==
    ASSUME NEW locks, NEW in, NEW within, NEW new, Effect(locks, in, within, new),
           NEW q, NEW b \in Nat, NEW ex \in BOOLEAN
    PROVE  /\ SameOwner(in, q) /\ Covers(in, b) => (Holds(new, q, b, ex) <=> ex \in within)
           /\ ~(SameOwner(in, q) /\ Covers(in, b))
                 => (Holds(new, q, b, ex) <=> Holds(locks, q, b, ex))
<1>1. CASE SameOwner(in, q)
  <2>1. /\ Holds(new, q, b, ex) <=> Holds(new, in, b, ex)
        /\ Holds(locks, q, b, ex) <=> Holds(locks, in, b, ex)
    BY <1>1 DEF Holds, SameOwner
  <2>2. Holds(new, in, b, ex)
            <=> IF in.start <= b /\ b <= in.end THEN ex \in within ELSE Holds(locks, in, b, ex)
    BY DEF Effect
  <2> QED
    BY <1>1, <2>1, <2>2 DEF Covers
<1>2. CASE ~SameOwner(in, q)
  <2>1. \A po : SameOwner(po, q) => (po \in new <=> po \in locks)
    BY <1>2 DEF Effect, SameOwner
  <2> QED
    BY <1>2, <2>1 DEF Holds
<1> QED
  BY <1>1, <1>2

\* Locks keep their type: they belong to the owner of the request or were there, and they
\* end where the request or one that was there does.
LEMMA EffectType ==
    ASSUME NEW locks, locks \subseteq Lock, NEW in, in.node \in Nodes, in.owner \in Owners,
           in.end \in Nat, in.end <= MaxOffset, NEW within, NEW new, Effect(locks, in, within, new)
    PROVE  new \subseteq Lock
<1> SUFFICES ASSUME NEW q \in new PROVE q \in Lock
  OBVIOUS
<1>1. IsLock(q)
  BY DEF Effect, Locks
<1>2. CASE ~SameOwner(q, in)
  BY <1>2 DEF Effect
<1>3. CASE SameOwner(q, in)
  <2>1. Holds(new, in, q.end, q.ex) /\ q.end \in Nat /\ q.ex \in BOOLEAN
    BY <1>1, <1>3, SMT DEF Holds, Covers, IsLock
  <2>2. q.end <= MaxOffset
    <3>1. CASE in.start <= q.end /\ q.end <= in.end
      BY <1>1, <2>1, <3>1, PlockFileAssumption, SMT DEF IsLock
    <3>2. CASE ~(in.start <= q.end /\ q.end <= in.end)
      <4>1. Holds(locks, in, q.end, q.ex)
        BY <2>1, <3>2 DEF Effect
      <4>2. PICK po \in locks : Covers(po, q.end)
        BY <4>1 DEF Holds
      <4>3. po.end \in 0 .. MaxOffset
        BY DEF Lock, PosixLock, Offsets
      <4> QED
        BY <2>1, <4>2, <4>3, PlockFileAssumption, SMT DEF Covers
    <3> QED
      BY <3>1, <3>2
  <2>3. q.start \in 0 .. MaxOffset /\ q.end \in 0 .. MaxOffset
    BY <1>1, <2>2, PlockFileAssumption, SMT DEF IsLock
  <2>4. q.node \in Nodes /\ q.owner \in Owners
    BY <1>3 DEF SameOwner
  <2>5. q = [node |-> q.node, owner |-> q.owner, ex |-> q.ex, start |-> q.start,
             end |-> q.end, syncing |-> q.syncing] /\ q.ex \in BOOLEAN /\ q.syncing \in BOOLEAN
    BY <1>1 DEF IsLock
  <2> QED
    BY <2>3, <2>4, <2>5 DEF Lock, PosixLock, Offsets
<1> QED
  BY <1>2, <1>3

\* A conflict is about a byte.
LEMMA ConflictByte ==
    ASSUME NEW locks, Locks(locks), NEW v, IsRequest(v)
    PROVE  is_conflict(locks, v)
              <=> \E po \in locks : \E b \in Nat : /\ ~SameOwner(po, v)
                                                   /\ Covers(po, b) /\ Covers(v, b)
                                                   /\ v.ex \/ po.ex
<1>1. ASSUME NEW po \in locks, ranges_overlap(po.start, po.end, v.start, v.end)
      PROVE  \E b \in Nat : Covers(po, b) /\ Covers(v, b)
  <2>1. IsLock(po)
    BY DEF Locks
  <2>2. CASE po.start <= v.start
    BY <1>1, <2>1, <2>2, SMT DEF ranges_overlap, Covers, IsLock, IsRequest
  <2>3. CASE v.start <= po.start
    BY <1>1, <2>1, <2>3, SMT DEF ranges_overlap, Covers, IsLock, IsRequest
  <2> QED
    BY <2>1, <2>2, <2>3, SMT DEF IsLock, IsRequest
<1>2. ASSUME NEW po \in locks, NEW b \in Nat, Covers(po, b), Covers(v, b)
      PROVE  ranges_overlap(po.start, po.end, v.start, v.end)
  <2>1. IsLock(po)
    BY DEF Locks
  <2> QED
    BY <1>2, <2>1, SMT DEF ranges_overlap, Covers, IsLock, IsRequest
<1>3. ASSUME is_conflict(locks, v)
      PROVE  \E po \in locks : \E b \in Nat : /\ ~SameOwner(po, v)
                                              /\ Covers(po, b) /\ Covers(v, b)
                                              /\ v.ex \/ po.ex
  BY <1>1, <1>3 DEF is_conflict
<1>4. ASSUME NEW po \in locks, NEW b \in Nat, ~SameOwner(po, v), Covers(po, b), Covers(v, b),
             v.ex \/ po.ex
      PROVE  is_conflict(locks, v)
  BY <1>2, <1>4 DEF is_conflict
<1> QED
  BY <1>3, <1>4

-----------------------------------------------------------------------------
(* The pass over the waiters *)

\* The waiter w has been granted, and with it byte b to the owner of q.
Gets(kept, w, q, b) == w \notin Range(kept) /\ SameOwner(w, q) /\ Covers(w, b)

\* What the locks are after some of the waiters ws[1], ..., ws[n] have been granted and
\* the rest, kept, goes on waiting: who was granted has the bytes it asked for, in the
\* mode it asked for, and all other bytes are as in old.
Granted(old, ws, n, kept, new) ==
    \A q : \A b \in Nat, ex \in BOOLEAN :
        Holds(new, q, b, ex)
            <=> \/ \E k \in 1 .. n : Gets(kept, ws[k], q, b) /\ ws[k].ex = ex
                \/ Holds(old, q, b, ex) /\ \A k \in 1 .. n : ~Gets(kept, ws[k], q, b)

\* One of them, and one that could have been granted from the start, held exclusively a byte
\* it has been granted shared.
GaveUp(old, ws, n, kept) ==
    \E k \in 1 .. n : /\ ws[k] \notin Range(kept) /\ ~ws[k].ex /\ ~is_conflict(old, ws[k])
                      /\ \E b \in Nat : Covers(ws[k], b) /\ Holds(old, ws[k], b, TRUE)

\* What holds of the locks new and the waiters kept after do_waiters has seen the first n
\* of the waiters ws.
PassOK(old, ws, n, kept, new) ==
    /\ Sound(new) /\ Queue(kept)
    /\ \A w \in Range(kept) : \E k \in 1 .. n : w = ws[k]
    /\ Granted(old, ws, n, kept, new)
    /\ \/ GaveUp(old, ws, n, kept)
       \/ \A v : IsRequest(v) /\ (v \in Range(kept) \/ is_conflict(old, v))
                    => is_conflict(new, v)

PassInv(old, ws, n, acc) ==
    /\ acc = [r |-> [locks |-> acc.r.locks, waiters |-> acc.r.waiters], done |-> acc.done]
    /\ PassOK(old, ws, n, acc.r.waiters, acc.r.locks)

\* The range of a sequence after Append.
LEMMA RangeAppend ==
    ASSUME NEW S, NEW kept \in Seq(S), NEW w \in S
    PROVE  Range(Append(kept, w)) = Range(kept) \cup {w}
<1> DEFINE new == Append(kept, w)
<1>1. /\ DOMAIN kept = 1 .. Len(kept) /\ Len(kept) \in Nat
      /\ DOMAIN new = 1 .. Len(kept) + 1
      /\ \A i \in 1 .. Len(kept) : new[i] = kept[i]
      /\ new[Len(kept) + 1] = w
  BY SMT
<1> HIDE DEF new
<1>2. Range(new) = Range(kept) \cup {w}
  <2>1. ASSUME NEW x \in Range(new) PROVE x \in Range(kept) \cup {w}
    <3>1. PICK i \in 1 .. Len(kept) + 1 : x = new[i]
      BY <1>1 DEF Range
    <3>2. i = Len(kept) + 1 \/ i \in 1 .. Len(kept)
      BY <1>1, SMT
    <3> QED
      BY <1>1, <3>1, <3>2 DEF Range
  <2>2. Len(kept) + 1 \in 1 .. Len(kept) + 1 /\ 1 .. Len(kept) \subseteq 1 .. Len(kept) + 1
    BY <1>1, SMT
  <2>3. w \in Range(new)
    BY <1>1, <2>2 DEF Range
  <2>4. ASSUME NEW x \in Range(kept) PROVE x \in Range(new)
    BY <1>1, <2>2 DEF Range
  <2> QED
    BY <2>1, <2>3, <2>4
<1> QED
  BY <1>2 DEF new

\* A request of an owner that has none in the queue can be added to it.
LEMMA QueueAppend ==
    ASSUME NEW kept, Queue(kept), NEW w \in Lock, w.start <= w.end,
           \A v \in Range(kept) : ~SameOwner(v, w)
    PROVE  Queue(Append(kept, w))
<1> DEFINE new == Append(kept, w)
<1>1. /\ DOMAIN kept = 1 .. Len(kept) /\ Len(kept) \in Nat
      /\ DOMAIN new = 1 .. Len(kept) + 1 /\ new \in Seq(Lock)
      /\ \A i \in 1 .. Len(kept) : new[i] = kept[i]
      /\ new[Len(kept) + 1] = w
  BY SMT DEF Queue
<1> HIDE DEF new
<1>2. \A i \in DOMAIN new : i \in DOMAIN kept \/ i = Len(kept) + 1
  BY <1>1, SMT
<1>3. \A i \in DOMAIN kept : ~SameOwner(kept[i], w) /\ ~SameOwner(w, kept[i])
  BY DEF Range, SameOwner
<1>4. ASSUME NEW i \in DOMAIN new PROVE new[i].start <= new[i].end
  BY <1>1, <1>2 DEF Queue
<1>5. ASSUME NEW i \in DOMAIN new, NEW j \in DOMAIN new, SameOwner(new[i], new[j])
      PROVE  i = j
  BY <1>1, <1>2, <1>3, <1>5 DEF Queue
<1> QED
  BY <1>1, <1>4, <1>5 DEF Queue, new

\* Waiters of a queue differ.
LEMMA QueueDistinct ==
    ASSUME NEW ws, Queue(ws), NEW n \in Nat, n + 1 \in DOMAIN ws
    PROVE  /\ 1 .. n + 1 \subseteq DOMAIN ws
           /\ \A k \in 1 .. n : k \in DOMAIN ws /\ ws[k] # ws[n + 1]
                                /\ ~SameOwner(ws[k], ws[n + 1])
           /\ ws[n + 1] \in Lock /\ ws[n + 1].start <= ws[n + 1].end
           /\ \A k \in 1 .. n + 1 : k \in 1 .. n \/ k = n + 1
           /\ n + 1 \in 1 .. n + 1 /\ 1 .. n \subseteq 1 .. n + 1
<1>1. DOMAIN ws = 1 .. Len(ws) /\ Len(ws) \in Nat
  BY SMT DEF Queue
<1>2. 1 .. n + 1 \subseteq DOMAIN ws /\ \A k \in 1 .. n : k \in DOMAIN ws /\ k # n + 1
  BY <1>1, SMT
<1>3. \A k \in 1 .. n : ~SameOwner(ws[k], ws[n + 1])
  BY <1>2 DEF Queue
<1>4. \A k \in 1 .. n : ws[k] # ws[n + 1]
  BY <1>3 DEF SameOwner
<1>5. ws[n + 1] \in Lock /\ ws[n + 1].start <= ws[n + 1].end
  BY SMT DEF Queue
<1>6. (\A k \in 1 .. n + 1 : k \in 1 .. n \/ k = n + 1)
      /\ n + 1 \in 1 .. n + 1 /\ 1 .. n \subseteq 1 .. n + 1
  BY SMT
<1> QED
  BY <1>2, <1>3, <1>4, <1>5, <1>6

\* The next waiter conflicts and goes on waiting.
LEMMA PassWaits ==
    ASSUME NEW old, NEW ws, Queue(ws), NEW n \in Nat, n + 1 \in DOMAIN ws,
           NEW acc, PassInv(old, ws, n, acc), is_conflict(acc.r.locks, ws[n + 1])
    PROVE  PassInv(old, ws, n + 1, LookAt(acc, ws[n + 1]))
<1> DEFINE w == ws[n + 1]
           L == acc.r.locks
           K == acc.r.waiters
           K1 == Append(K, w)
           next == LookAt(acc, w)
<1>1. next = [r |-> [locks |-> L, waiters |-> K1], done |-> acc.done]
  <2> DEFINE d == acc.done
  <2>1. acc = [r |-> [locks |-> L, waiters |-> K], done |-> d]
    BY DEF PassInv
  <2>2. is_conflict(L, w)
    OBVIOUS
  <2> HIDE DEF L, K, w, d
  <2>3. LookAt(acc, w) = [r |-> [locks |-> L, waiters |-> K1], done |-> d]
    <3>1. LookAt(acc, w) = [acc EXCEPT !.r.waiters = Append(@, w)]
      BY <2>1, <2>2 DEF LookAt
    <3> QED
      BY <2>1, <3>1
  <2> QED
    BY <2>3 DEF d
<1>2. /\ \A k \in 1 .. n : k \in DOMAIN ws /\ ws[k] # w /\ ~SameOwner(ws[k], w)
      /\ w \in Lock /\ w.start <= w.end
      /\ \A k \in 1 .. n + 1 : k \in 1 .. n \/ k = n + 1
      /\ n + 1 \in 1 .. n + 1 /\ 1 .. n \subseteq 1 .. n + 1
  BY QueueDistinct
<1> HIDE DEF w
<1>3. /\ Sound(L) /\ Queue(K)
      /\ \A v \in Range(K) : \E k \in 1 .. n : v = ws[k]
      /\ Granted(old, ws, n, K, L)
      /\ \/ GaveUp(old, ws, n, K)
         \/ \A v : IsRequest(v) /\ (v \in Range(K) \/ is_conflict(old, v)) => is_conflict(L, v)
  BY DEF PassInv, PassOK
<1>4. is_conflict(L, w)
  BY DEF w
<1> HIDE DEF L, K
<1>5. Range(K1) = Range(K) \cup {w}
  <2>1. K \in Seq(Lock)
    BY <1>3 DEF Queue
  <2> QED
    BY <1>2, <2>1, RangeAppend, SMT
<1>6. Queue(K1)
  <2>1. \A v \in Range(K) : ~SameOwner(v, w)
    BY <1>2, <1>3
  <2> QED
    BY <1>2, <1>3, <2>1, QueueAppend
<1> HIDE DEF K1
<1>7. \A v \in Range(K1) : \E k \in 1 .. n + 1 : v = ws[k]
  BY <1>2, <1>3, <1>5 DEF w
<1>8. /\ \A k \in 1 .. n : \A q, b : Gets(K1, ws[k], q, b) <=> Gets(K, ws[k], q, b)
      /\ \A q, b : ~Gets(K1, ws[n + 1], q, b)
  BY <1>2, <1>5 DEF Gets, w
<1>9. Granted(old, ws, n + 1, K1, L)
  <2>1. ASSUME NEW q, NEW b \in Nat, NEW ex \in BOOLEAN
        PROVE  Holds(L, q, b, ex)
                  <=> \/ \E k \in 1 .. n + 1 : Gets(K1, ws[k], q, b) /\ ws[k].ex = ex
                      \/ /\ Holds(old, q, b, ex)
                         /\ \A k \in 1 .. n + 1 : ~Gets(K1, ws[k], q, b)
    <3>1. Holds(L, q, b, ex)
             <=> \/ \E k \in 1 .. n : Gets(K, ws[k], q, b) /\ ws[k].ex = ex
                 \/ Holds(old, q, b, ex) /\ \A k \in 1 .. n : ~Gets(K, ws[k], q, b)
      BY <1>3 DEF Granted
    <3>2. (\E k \in 1 .. n + 1 : Gets(K1, ws[k], q, b) /\ ws[k].ex = ex)
             <=> \E k \in 1 .. n : Gets(K, ws[k], q, b) /\ ws[k].ex = ex
      BY <1>2, <1>8
    <3>3. (\A k \in 1 .. n + 1 : ~Gets(K1, ws[k], q, b))
             <=> \A k \in 1 .. n : ~Gets(K, ws[k], q, b)
      BY <1>2, <1>8
    <3> QED
      BY <3>1, <3>2, <3>3
  <2> QED
    BY <2>1 DEF Granted
<1>10. GaveUp(old, ws, n, K) => GaveUp(old, ws, n + 1, K1)
  BY <1>2, <1>5 DEF GaveUp
<1>11. \/ GaveUp(old, ws, n + 1, K1)
       \/ \A v : IsRequest(v) /\ (v \in Range(K1) \/ is_conflict(old, v)) => is_conflict(L, v)
  BY <1>3, <1>4, <1>5, <1>10
<1>12. PassOK(old, ws, n + 1, K1, L)
  BY <1>3, <1>6, <1>7, <1>9, <1>11 DEF PassOK
<1>13. PassInv(old, ws, n + 1, next)
  <2> HIDE DEF next
  <2> QED
    BY <1>1, <1>12 DEF PassInv
<1> QED
  BY <1>13 DEF next, w

\* The next waiter conflicts with nobody and is granted.
LEMMA PassGrants ==
    ASSUME NEW old, NEW ws, Queue(ws), NEW n \in Nat, n + 1 \in DOMAIN ws,
           NEW acc, PassInv(old, ws, n, acc), ~is_conflict(acc.r.locks, ws[n + 1])
    PROVE  PassInv(old, ws, n + 1, LookAt(acc, ws[n + 1]))
<1> DEFINE w == ws[n + 1]
           L == acc.r.locks
           K == acc.r.waiters
           L1 == lock_internal(L, w)
           next == LookAt(acc, w)
<1>1. next = [r |-> [locks |-> L1, waiters |-> K], done |-> acc.done \cup {Result(w, "ok")}]
  <2> DEFINE d == acc.done
  <2>1. acc = [r |-> [locks |-> L, waiters |-> K], done |-> d]
    BY DEF PassInv
  <2>2. ~is_conflict(L, w)
    OBVIOUS
  <2> HIDE DEF L, K, w, d
  <2>3. LookAt(acc, w) = [acc EXCEPT !.r.locks = lock_internal(@, w),
                                     !.done = @ \cup {Result(w, "ok")}]
    BY <2>1, <2>2 DEF LookAt
  <2>4. LookAt(acc, w) = [r |-> [locks |-> L1, waiters |-> K],
                          done |-> d \cup {Result(w, "ok")}]
    BY <2>1, <2>3
  <2> QED
    BY <2>4 DEF d
<1>2. /\ \A k \in 1 .. n : k \in DOMAIN ws /\ ws[k] # w /\ ~SameOwner(ws[k], w)
      /\ w \in Lock /\ w.start <= w.end
      /\ \A k \in 1 .. n + 1 : k \in 1 .. n \/ k = n + 1
      /\ n + 1 \in 1 .. n + 1 /\ 1 .. n \subseteq 1 .. n + 1
  BY QueueDistinct
<1>3. /\ Sound(L) /\ Queue(K)
      /\ \A v \in Range(K) : \E k \in 1 .. n : v = ws[k]
      /\ Granted(old, ws, n, K, L)
      /\ \/ GaveUp(old, ws, n, K)
         \/ \A v : IsRequest(v) /\ (v \in Range(K) \/ is_conflict(old, v)) => is_conflict(L, v)
  BY DEF PassInv, PassOK
<1>4. ~is_conflict(L, w) /\ w = ws[n + 1]
  OBVIOUS
<1> HIDE DEF w, L, K
<1>5. IsLock(w) /\ IsRequest(w) /\ w.node \in Nodes /\ w.owner \in Owners /\ w.end <= MaxOffset
  BY <1>2, LockIs
<1>6. Locks(L) /\ L \subseteq Lock /\ NoConflict(L)
  BY <1>3 DEF Sound
<1>7. Effect(L, w, Wanted(w), L1)
  BY <1>5, <1>6, LockEffect
<1>8. Sound(L1)
  <2>1. Locks(L1)
    BY <1>7 DEF Effect
  <2>2. NoConflict(L1)
    BY <1>4, <1>5, <1>6, NoConflictKept
  <2>3. w.end \in Nat
    BY <1>5 DEF IsRequest
  <2> HIDE DEF L1
  <2>4. L1 \subseteq Lock
    BY <1>5, <1>6, <1>7, <2>3, EffectType
  <2> QED
    BY <2>1, <2>2, <2>4 DEF Sound
<1> HIDE DEF L1
<1>9. \A q : \A b \in Nat, ex \in BOOLEAN :
          /\ SameOwner(w, q) /\ Covers(w, b) => (Holds(L1, q, b, ex) <=> ex = w.ex)
          /\ ~(SameOwner(w, q) /\ Covers(w, b)) => (Holds(L1, q, b, ex) <=> Holds(L, q, b, ex))
  BY <1>7, EffectHolds, SMT DEF Wanted
<1>10. w \notin Range(K) /\ \A v \in Range(K) : \E k \in 1 .. n + 1 : v = ws[k]
  BY <1>2, <1>3
<1>11. \A q, b : Gets(K, ws[n + 1], q, b) <=> SameOwner(w, q) /\ Covers(w, b)
  BY <1>4, <1>10 DEF Gets
<1>12. \A k \in 1 .. n : \A q, b : Gets(K, ws[k], q, b) => ~SameOwner(w, q)
  BY <1>2 DEF Gets, SameOwner
<1>13. Granted(old, ws, n + 1, K, L1)
  <2>1. ASSUME NEW q, NEW b \in Nat, NEW ex \in BOOLEAN
        PROVE  Holds(L1, q, b, ex)
                  <=> \/ \E k \in 1 .. n + 1 : Gets(K, ws[k], q, b) /\ ws[k].ex = ex
                      \/ /\ Holds(old, q, b, ex)
                         /\ \A k \in 1 .. n + 1 : ~Gets(K, ws[k], q, b)
    <3>1. Holds(L, q, b, ex)
             <=> \/ \E k \in 1 .. n : Gets(K, ws[k], q, b) /\ ws[k].ex = ex
                 \/ Holds(old, q, b, ex) /\ \A k \in 1 .. n : ~Gets(K, ws[k], q, b)
      BY <1>3 DEF Granted
    <3>2. CASE SameOwner(w, q) /\ Covers(w, b)
      <4>1. Holds(L1, q, b, ex) <=> ex = w.ex
        BY <1>9, <3>2
      <4>2. Gets(K, ws[n + 1], q, b) /\ \A k \in 1 .. n : ~Gets(K, ws[k], q, b)
        BY <1>11, <1>12, <3>2
      <4> QED
        BY <1>2, <1>4, <4>1, <4>2
    <3>3. CASE ~(SameOwner(w, q) /\ Covers(w, b))
      <4>1. Holds(L1, q, b, ex) <=> Holds(L, q, b, ex)
        BY <1>9, <3>3
      <4>2. ~Gets(K, ws[n + 1], q, b)
        BY <1>11, <3>3
      <4> QED
        BY <1>2, <3>1, <4>1, <4>2
    <3> QED
      BY <3>2, <3>3
  <2> QED
    BY <2>1 DEF Granted
<1>14. GaveUp(old, ws, n, K) => GaveUp(old, ws, n + 1, K)
  BY <1>2 DEF GaveUp
<1>15. ASSUME NEW v, IsRequest(v), is_conflict(L, v)
       PROVE  is_conflict(L1, v) \/ GaveUp(old, ws, n + 1, K)
  <2>1. PICK po \in L, b \in Nat : /\ ~SameOwner(po, v) /\ Covers(po, b) /\ Covers(v, b)
                                   /\ v.ex \/ po.ex
    BY <1>6, <1>15, ConflictByte
  <2>2. Locks(L1)
    BY <1>8 DEF Sound
  <2>3. ASSUME NEW p \in L1, ~SameOwner(p, v), Covers(p, b), v.ex \/ p.ex
        PROVE  is_conflict(L1, v)
    BY <1>15, <2>1, <2>2, <2>3, ConflictByte
  <2>4. po.ex \in BOOLEAN
    BY <1>6 DEF Locks, IsLock
  <2>5. Holds(L, po, b, po.ex)
    BY <2>1 DEF Holds, SameOwner
  <2>6. CASE ~(SameOwner(w, po) /\ Covers(w, b))
    <3>1. Holds(L1, po, b, po.ex)
      BY <1>9, <2>4, <2>5, <2>6
    <3>2. PICK p \in L1 : SameOwner(p, po) /\ Covers(p, b) /\ p.ex = po.ex
      BY <3>1 DEF Holds
    <3> QED
      BY <2>1, <2>3, <3>2 DEF SameOwner
  <2>7. CASE SameOwner(w, po) /\ Covers(w, b)
    <3>1. Holds(L1, po, b, w.ex)
      BY <1>5, <1>9, <2>7 DEF IsRequest
    <3>2. PICK p \in L1 : SameOwner(p, po) /\ Covers(p, b) /\ p.ex = w.ex
      BY <3>1 DEF Holds
    <3>3. ~SameOwner(p, v)
      BY <2>1, <3>2 DEF SameOwner
    <3>4. CASE v.ex \/ w.ex
      BY <2>3, <3>2, <3>3, <3>4
    <3>5. CASE ~(v.ex \/ w.ex)
      <4>1. po.ex = TRUE /\ ~w.ex
        BY <2>1, <2>4, <3>5
      <4>2. Holds(L, w, b, TRUE)
        BY <2>5, <2>7, <4>1 DEF Holds, SameOwner
      <4>3. \A k \in 1 .. n : ~Gets(K, ws[k], w, b)
        BY <1>2 DEF Gets
      <4>4. Holds(old, w, b, TRUE)
        BY <1>3, <4>2, <4>3 DEF Granted
      <4>5. GaveUp(old, ws, n, K) \/ ~is_conflict(old, w)
        BY <1>3, <1>4, <1>5
      <4>6. ~is_conflict(old, w) => GaveUp(old, ws, n + 1, K)
        BY <1>2, <1>4, <1>10, <2>7, <4>1, <4>4 DEF GaveUp
      <4> QED
        BY <1>14, <4>5, <4>6
    <3> QED
      BY <3>4, <3>5
  <2> QED
    BY <2>6, <2>7
<1>16. \/ GaveUp(old, ws, n + 1, K)
       \/ \A v : IsRequest(v) /\ (v \in Range(K) \/ is_conflict(old, v)) => is_conflict(L1, v)
  BY <1>3, <1>14, <1>15
<1>17. PassOK(old, ws, n + 1, K, L1)
  BY <1>3, <1>8, <1>10, <1>13, <1>16 DEF PassOK
<1>18. PassInv(old, ws, n + 1, next)
  <2> HIDE DEF next
  <2> QED
    BY <1>1, <1>17 DEF PassInv
<1> QED
  BY <1>18 DEF next, w

\* What do_waiters makes of a resource.
LEMMA DoWaiters ==
    ASSUME NEW old, NEW ws, Sound(old), Queue(ws)
    PROVE  PassInv(old, ws, Len(ws), do_waiters([locks |-> old, waiters |-> ws]))
<1> DEFINE r == [locks |-> old, waiters |-> ws]
           N == Len(ws)
           base == [r |-> [locks |-> old, waiters |-> <<>>], done |-> {}]
<1>1. N \in Nat /\ DOMAIN ws = 1 .. N
  BY SMT DEF Queue
<1>2. PICK f : IsPass(f, ws, base, N) /\ do_waiters(r) = f[N]
  <2>1. r.waiters = ws /\ [r EXCEPT !.waiters = <<>>] = [locks |-> old, waiters |-> <<>>]
    BY SMT
  <2>2. Len(r.waiters) \in Nat
    BY <1>1, <2>1
  <2> HIDE DEF r
  <2> QED
    BY <2>1, <2>2, DoWaitersIsPass
<1> DEFINE S == {n \in Nat : n <= N => PassInv(old, ws, n, f[n])}
<1>3. 0 \in S
  <2>1. f[0] = base
    BY <1>1, <1>2, SMT DEF IsPass
  <2>2. Range(<<>>) = {}
    BY SMT DEF Range
  <2>3. Queue(<<>>)
    BY SMT DEF Queue
  <2>4. \A k \in 1 .. 0 : FALSE
    BY SMT
  <2>5. PassOK(old, ws, 0, <<>>, old)
    BY <2>2, <2>3, <2>4 DEF PassOK, Granted, GaveUp
  <2>6. PassInv(old, ws, 0, base)
    BY <2>5 DEF PassInv
  <2> HIDE DEF base
  <2> QED
    BY <2>1, <2>6
<1>4. ASSUME NEW n \in Nat, n \in S PROVE n + 1 \in S
  <2> SUFFICES ASSUME n + 1 <= N PROVE PassInv(old, ws, n + 1, f[n + 1])
    BY SMT
  <2>1. PassInv(old, ws, n, f[n]) /\ n + 1 \in DOMAIN ws /\ n + 1 \in 0 .. N /\ n + 1 # 0
    BY <1>1, <1>4, SMT
  <2> HIDE DEF S, N, base
  <2>2. f[n + 1] = LookAt(f[n], ws[n + 1])
    <3>1. f[n + 1] = LookAt(f[(n + 1) - 1], ws[n + 1])
      BY <1>2, <2>1 DEF IsPass
    <3>2. (n + 1) - 1 = n
      BY SMT
    <3> QED
      BY <3>1, <3>2
  <2>3. CASE is_conflict(f[n].r.locks, ws[n + 1])
    BY <2>1, <2>2, <2>3, PassWaits
  <2>4. CASE ~is_conflict(f[n].r.locks, ws[n + 1])
    BY <2>1, <2>2, <2>4, PassGrants
  <2> QED
    BY <2>3, <2>4
<1>5. N \in S
  <2> HIDE DEF S
  <2> QED
    BY <1>1, <1>3, <1>4, NatInd
<1>6. PassInv(old, ws, N, f[N])
  BY <1>1, <1>5, SMT
<1> QED
  BY <1>2, <1>6

-----------------------------------------------------------------------------
(* The waiters of the other nodes *)

\* f[i] is what is left of the first i waiters ws.
IsRest(f, ws, node, n) ==
    f = [i \in 0 .. n |-> IF i = 0 THEN <<>>
                          ELSE IF ws[i].node = node THEN f[i - 1]
                          ELSE Append(f[i - 1], ws[i])]

\* There is such a function.
LEMMA RestExists ==
    ASSUME NEW ws, NEW node
    PROVE  \A n \in Nat : \E f : IsRest(f, ws, node, n)
<1> DEFINE Step(x, i) == IF ws[i].node = node THEN x ELSE Append(x, ws[i])
           S == {n \in Nat : \E f : IsRest(f, ws, node, n)}
<1>1. 0 \in S
  <2>1. IsRest([i \in 0 .. 0 |-> <<>>], ws, node, 0)
    BY SMT DEF IsRest
  <2> QED
    BY <2>1
<1>2. ASSUME NEW n \in Nat, n \in S PROVE n + 1 \in S
  <2>1. PICK f : IsRest(f, ws, node, n)
    BY <1>2
  <2> DEFINE g == [i \in 0 .. n + 1 |-> IF i = n + 1 THEN Step(f[n], n + 1) ELSE f[i]]
  <2>2. ASSUME NEW i \in 0 .. n + 1
        PROVE  g[i] = IF i = 0 THEN <<>> ELSE Step(g[i - 1], i)
    <3> HIDE DEF Step
    <3>1. CASE i = n + 1
      <4>1. g[i] = Step(f[n], n + 1) /\ g[i - 1] = f[n] /\ i # 0
        BY <3>1, SMT
      <4> HIDE DEF g
      <4> QED
        BY <3>1, <4>1
    <3>2. CASE i # n + 1
      <4>1. i \in 0 .. n /\ g[i] = f[i]
        BY <3>2, SMT
      <4>2. f[i] = IF i = 0 THEN <<>> ELSE Step(f[i - 1], i)
        BY <2>1, <4>1 DEF IsRest, Step
      <4>3. i # 0 => g[i - 1] = f[i - 1]
        BY <4>1, SMT
      <4> HIDE DEF g
      <4> QED
        BY <4>1, <4>2, <4>3
    <3> QED
      BY <3>1, <3>2
  <2>3. g = [i \in 0 .. n + 1 |-> g[i]]
    OBVIOUS
  <2> HIDE DEF g
  <2>4. IsRest(g, ws, node, n + 1)
    BY <2>2, <2>3 DEF IsRest
  <2> QED
    BY <2>4, SMT
<1> HIDE DEF S
<1>3. \A n \in Nat : n \in S
  BY <1>1, <1>2, NatInd
<1> QED
  BY <1>3 DEF S

\* OthersWaiters keeps the waiters of the other nodes and no others.
LEMMA Others ==
    ASSUME NEW ws, Queue(ws), NEW node
    PROVE  /\ Queue(OthersWaiters(ws, node))
           /\ \A w : w \in Range(OthersWaiters(ws, node)) <=> w \in Range(ws) /\ w.node # node
<1> DEFINE N == Len(ws)
           rest[i \in 0 .. N] == IF i = 0 THEN <<>>
                                 ELSE IF ws[i].node = node THEN rest[i - 1]
                                 ELSE Append(rest[i - 1], ws[i])
           Is(n, x) == /\ Queue(x)
                       /\ \A w : w \in Range(x) <=> \E k \in 1 .. n : w = ws[k] /\ w.node # node
           S == {n \in Nat : n <= N => Is(n, rest[n])}
<1>1. N \in Nat /\ DOMAIN ws = 1 .. N
  BY SMT DEF Queue
<1>2. OthersWaiters(ws, node) = rest[N]
  BY DEF OthersWaiters
<1>3. IsRest(rest, ws, node, N)
  <2>1. \E f : IsRest(f, ws, node, N)
    <3> HIDE DEF N
    <3> QED
      BY <1>1, RestExists
  <2> HIDE DEF N
  <2> QED
    BY <2>1 DEF IsRest
<1> HIDE DEF rest
<1>4. 0 \in S
  <2>1. rest[0] = <<>>
    BY <1>1, <1>3, SMT DEF IsRest
  <2>2. Range(<<>>) = {}
    BY SMT DEF Range
  <2>3. Queue(<<>>)
    BY SMT DEF Queue
  <2>4. \A k \in 1 .. 0 : FALSE
    BY SMT
  <2> QED
    BY <2>1, <2>2, <2>3, <2>4
<1>5. ASSUME NEW n \in Nat, n \in S PROVE n + 1 \in S
  <2> SUFFICES ASSUME n + 1 <= N PROVE Is(n + 1, rest[n + 1])
    BY SMT
  <2>1. Is(n, rest[n]) /\ n + 1 \in DOMAIN ws /\ n + 1 \in 0 .. N /\ n + 1 # 0 /\ (n + 1) - 1 = n
    BY <1>1, <1>5, SMT
  <2> HIDE DEF S, N
  <2> DEFINE w == ws[n + 1]
             K == rest[n]
  <2>2. rest[n + 1] = IF w.node = node THEN K ELSE Append(K, w)
    <3>1. rest[n + 1] = IF w.node = node THEN rest[(n + 1) - 1] ELSE Append(rest[(n + 1) - 1], w)
      BY <1>3, <2>1 DEF IsRest
    <3> QED
      BY <2>1, <3>1
  <2>3. /\ \A k \in 1 .. n : k \in DOMAIN ws /\ ws[k] # w /\ ~SameOwner(ws[k], w)
        /\ w \in Lock /\ w.start <= w.end
        /\ \A k \in 1 .. n + 1 : k \in 1 .. n \/ k = n + 1
        /\ n + 1 \in 1 .. n + 1 /\ 1 .. n \subseteq 1 .. n + 1
    BY <2>1, QueueDistinct
  <2>4. w = ws[n + 1] /\ Queue(K)
        /\ \A v : v \in Range(K) <=> \E k \in 1 .. n : v = ws[k] /\ v.node # node
    BY <2>1
  <2> HIDE DEF w, K
  <2>5. CASE w.node = node
    <3>1. \A v : (\E k \in 1 .. n + 1 : v = ws[k] /\ v.node # node)
                   <=> \E k \in 1 .. n : v = ws[k] /\ v.node # node
      BY <2>3, <2>4, <2>5
    <3> QED
      BY <2>2, <2>4, <2>5, <3>1
  <2>6. CASE w.node # node
    <3>1. \A v : (\E k \in 1 .. n + 1 : v = ws[k] /\ v.node # node)
                   <=> (\E k \in 1 .. n : v = ws[k] /\ v.node # node) \/ v = w
      BY <2>3, <2>4, <2>6
    <3>2. Range(Append(K, w)) = Range(K) \cup {w}
      <4>1. K \in Seq(Lock)
        BY <2>4 DEF Queue
      <4> QED
        BY <2>3, <4>1, RangeAppend, SMT
    <3>3. Queue(Append(K, w))
      <4>1. \A v \in Range(K) : ~SameOwner(v, w)
        BY <2>3, <2>4, SMT
      <4> QED
        BY <2>3, <2>4, <4>1, QueueAppend
    <3>4. rest[n + 1] = Append(K, w)
      BY <2>2, <2>6
    <3> QED
      BY <2>4, <3>1, <3>2, <3>3, <3>4
  <2> QED
    BY <2>5, <2>6
<1>6. N \in S
  <2> HIDE DEF S
  <2> QED
    BY <1>1, <1>4, <1>5, NatInd
<1>7. Is(N, rest[N])
  BY <1>1, <1>6, SMT
<1>8. \A w : w \in Range(ws) <=> \E k \in 1 .. N : w = ws[k]
  BY <1>1 DEF Range
<1> HIDE DEF N
<1> QED
  BY <1>2, <1>7, <1>8

-----------------------------------------------------------------------------
(* The steps *)

Inv == /\ res = [locks |-> res.locks, waiters |-> res.waiters]
       /\ Sound(res.locks) /\ Queue(res.waiters)

\* A step that ends with a pass over the waiters ws, with the locks of the others in L.
Passes(L, ws) ==
    /\ Sound(L) /\ Queue(ws)
    /\ res' = do_waiters([locks |-> L, waiters |-> ws]).r
    /\ downgraded' = Downgrades(res, res')

\* What a step does before it comes to the waiters.
LockGranted(in) ==
    ~is_conflict(res.locks, in) /\ Passes(lock_internal(res.locks, in), res.waiters)
LockWaits(in) ==
    is_conflict(res.locks, in)
    /\ Passes(res.locks, Append(res.waiters, NewLock(in, in.ex, in.start, in.end)))
LockRefused(in) == is_conflict(res.locks, in) /\ Passes(res.locks, res.waiters)
Unlocked(in) == Passes(unlock_internal(res.locks, in), res.waiters)
Purged(n) == Passes({po \in res.locks : po.node # n}, OthersWaiters(res.waiters, n))

\* A message, and the waiter it becomes, as locks.
LEMMA RequestIs ==
    ASSUME NEW in \in Request(Nodes, Owners, Offsets)
    PROVE  LET w == NewLock(in, in.ex, in.start, in.end)
           IN  /\ IsRequest(in) /\ in.node \in Nodes /\ in.owner \in Owners
               /\ in.end \in Nat /\ in.end <= MaxOffset
               /\ w \in Lock /\ w.start <= w.end /\ SameOwner(w, in)
               /\ w.start = in.start /\ w.end = in.end /\ w.ex = in.ex
               /\ w.node = in.node /\ w.owner = in.owner
               /\ \A locks : is_conflict(locks, w) <=> is_conflict(locks, in)
<1> DEFINE w == NewLock(in, in.ex, in.start, in.end)
<1>1. /\ in.node \in Nodes /\ in.owner \in Owners /\ in.ex \in BOOLEAN
      /\ in.start \in 0 .. MaxOffset /\ in.end \in 0 .. MaxOffset /\ in.start <= in.end
  BY DEF Request, Offsets
<1>2. /\ IsRequest(in) /\ in.end \in Nat /\ in.end <= MaxOffset
  BY <1>1, PlockFileAssumption, SMT DEF IsRequest
<1>3. /\ w \in Lock /\ w.start = in.start /\ w.end = in.end /\ w.ex = in.ex
      /\ w.node = in.node /\ w.owner = in.owner
  BY <1>1 DEF NewLock, Lock, PosixLock, Offsets
<1> HIDE DEF w
<1>4. SameOwner(w, in) /\ \A locks : is_conflict(locks, w) <=> is_conflict(locks, in)
  BY <1>3 DEF SameOwner, is_conflict
<1> QED
  BY <1>1, <1>2, <1>3, <1>4 DEF w

\* Nobody that waits is the owner of the message.
LEMMA NotWaiting ==
    ASSUME NEW in, ~Waits(<<in.node, in.owner>>)
    PROVE  \A w \in Range(res.waiters) : ~SameOwner(w, in) /\ ~SameOwner(in, w)
BY DEF Waits, Range, SameOwner

\* Taking away locks, and the waiters of a node, leaves sound ones.
LEMMA PurgeSound ==
    ASSUME NEW locks, Sound(locks), NEW node
    PROVE  Sound({po \in locks : po.node # node})
BY DEF Sound, Locks, NoOverlap, NoConflict, is_conflict

\* Every step is one of these, or changes nothing.
LEMMA Steps ==
    ASSUME Inv, Next
    PROVE  \/ UNCHANGED vars
           \/ \E in \in Request(Nodes, Owners, Offsets) :
                 /\ ~Waits(<<in.node, in.owner>>)
                 /\ LockGranted(in) \/ LockWaits(in) \/ LockRefused(in) \/ Unlocked(in)
           \/ \E n \in Nodes : Purged(n)
<1>1. ASSUME NEW in \in Request(Nodes, Owners, Offsets), Receive(in)
      PROVE  \/ UNCHANGED vars
             \/ /\ ~Waits(<<in.node, in.owner>>)
                /\ LockGranted(in) \/ LockWaits(in) \/ LockRefused(in) \/ Unlocked(in)
  <2> DEFINE w == NewLock(in, in.ex, in.start, in.end)
             after == receive_plock(res, in, FALSE)
  <2>1. /\ IsRequest(in) /\ in.node \in Nodes /\ in.owner \in Owners
        /\ in.end \in Nat /\ in.end <= MaxOffset
        /\ w \in Lock /\ w.start <= w.end /\ SameOwner(w, in)
    BY RequestIs
  <2>2. /\ ~Waits(<<in.node, in.owner>>) /\ res' = after.r
        /\ downgraded' = IF in.op = "get" THEN downgraded ELSE Downgrades(res, after.r)
    BY <1>1 DEF Receive
  <2>3. in.op \in {"lock", "unlock", "get"}
    BY DEF Request
  <2>4. Locks(res.locks) /\ res.locks \subseteq Lock /\ NoConflict(res.locks)
    BY DEF Inv, Sound
  <2>5. ASSUME NEW L, NEW ws, NEW rv, Sound(L), Queue(ws), in.op # "get",
               after = Finish([locks |-> L, waiters |-> ws], in, rv)
        PROVE  Passes(L, ws)
    <3> DEFINE d == do_waiters([locks |-> L, waiters |-> ws])
    <3>1. d = [r |-> [locks |-> d.r.locks, waiters |-> d.r.waiters], done |-> d.done]
      BY <2>5, DoWaiters DEF PassInv
    <3>2. Finish([locks |-> L, waiters |-> ws], in, rv)
            = [d EXCEPT !.done = IF rv = "inprogress" THEN @ ELSE @ \cup {Result(in, rv)}]
      BY DEF Finish
    <3> HIDE DEF d
    <3>3. Finish([locks |-> L, waiters |-> ws], in, rv).r = d.r
      BY <3>1, <3>2
    <3> HIDE DEF after
    <3>4. res' = d.r /\ downgraded' = Downgrades(res, res')
      BY <2>2, <2>5, <3>3
    <3> QED
      BY <2>5, <3>4 DEF Passes, d
  <2>6. Sound(res.locks) /\ Queue(res.waiters)
    BY DEF Inv
  <2>7. /\ \A l : [res EXCEPT !.locks = l] = [locks |-> l, waiters |-> res.waiters]
        /\ \A k : [res EXCEPT !.waiters = k] = [locks |-> res.locks, waiters |-> k]
        /\ res = [locks |-> res.locks, waiters |-> res.waiters]
    BY SMT DEF Inv
  <2>8. CASE in.op = "get"
    <3>1. after.r = res
      BY <2>8 DEF receive_plock, do_get
    <3> QED
      BY <2>2, <2>8, <3>1 DEF vars
  <2>9. CASE in.op = "unlock"
    <3>1. Sound(unlock_internal(res.locks, in))
      <4>1. Effect(res.locks, in, {}, unlock_internal(res.locks, in))
        BY <2>1, <2>4, UnlockEffect
      <4>2. NoConflict(unlock_internal(res.locks, in))
        BY <2>1, <2>4, NoConflictKept
      <4>3. unlock_internal(res.locks, in) \subseteq Lock
        BY <2>1, <2>4, <4>1, EffectType
      <4> QED
        BY <4>1, <4>2, <4>3 DEF Sound, Effect
    <3>2. after = Finish([locks |-> unlock_internal(res.locks, in), waiters |-> res.waiters],
                         in, "ok")
      BY <2>7, <2>9 DEF receive_plock, do_unlock
    <3>3. Unlocked(in)
      <4> HIDE DEF after
      <4> QED
        BY <2>5, <2>6, <2>9, <3>1, <3>2 DEF Unlocked
    <3> QED
      BY <2>2, <3>3
  <2>10. CASE in.op = "lock"
    <3>1. after = do_lock(res, in, FALSE)
      BY <2>10 DEF receive_plock
    <3>2. in.op # "get"
      BY <2>10
    <3>3. CASE ~is_conflict(res.locks, in)
      <4>1. Sound(lock_internal(res.locks, in))
        <5>1. Effect(res.locks, in, Wanted(in), lock_internal(res.locks, in))
          BY <2>1, <2>4, LockEffect
        <5>2. NoConflict(lock_internal(res.locks, in))
          BY <2>1, <2>4, <3>3, NoConflictKept
        <5>3. lock_internal(res.locks, in) \subseteq Lock
          BY <2>1, <2>4, <5>1, EffectType
        <5> QED
          BY <5>1, <5>2, <5>3 DEF Sound, Effect
      <4>2. after = Finish([locks |-> lock_internal(res.locks, in), waiters |-> res.waiters],
                           in, "ok")
        BY <2>7, <3>1, <3>3 DEF do_lock
      <4>3. LockGranted(in)
        <5> HIDE DEF after
        <5> QED
          BY <2>5, <2>6, <3>2, <3>3, <4>1, <4>2 DEF LockGranted
      <4> QED
        BY <2>2, <4>3
    <3>4. CASE is_conflict(res.locks, in) /\ in.wait
      <4>1. add_waiter(res, in, FALSE) = [locks |-> res.locks, waiters |-> Append(res.waiters, w)]
        <5>1. [w EXCEPT !.syncing = FALSE] = w
          <6>1. w.syncing = FALSE
            BY DEF NewLock
          <6> HIDE DEF w
          <6> QED
            BY <2>1, <6>1 DEF Lock, PosixLock
        <5> HIDE DEF w
        <5>2. add_waiter(res, in, FALSE) = [res EXCEPT !.waiters = Append(res.waiters, w)]
          BY <2>7, <5>1 DEF add_waiter, w
        <5> QED
          BY <2>7, <5>2
      <4>2. Queue(Append(res.waiters, w))
        <5>1. \A v \in Range(res.waiters) : ~SameOwner(v, w)
          BY <2>1, <2>2, NotWaiting DEF SameOwner
        <5> QED
          BY <2>1, <2>6, <5>1, QueueAppend
      <4>3. after = Finish([locks |-> res.locks, waiters |-> Append(res.waiters, w)],
                           in, "inprogress")
        BY <3>1, <3>4, <4>1 DEF do_lock
      <4>4. LockWaits(in)
        <5> HIDE DEF after
        <5> QED
          BY <2>5, <2>6, <3>2, <3>4, <4>2, <4>3 DEF LockWaits
      <4> QED
        BY <2>2, <4>4
    <3>5. CASE is_conflict(res.locks, in) /\ ~in.wait
      <4>1. after = Finish([locks |-> res.locks, waiters |-> res.waiters], in, "again")
        BY <2>7, <3>1, <3>5 DEF do_lock
      <4>2. LockRefused(in)
        <5> HIDE DEF after
        <5> QED
          BY <2>5, <2>6, <3>2, <3>5, <4>1 DEF LockRefused
      <4> QED
        BY <2>2, <4>2
    <3> QED
      BY <3>3, <3>4, <3>5
  <2> QED
    BY <2>3, <2>8, <2>9, <2>10
<1>2. ASSUME NEW n \in Nodes, Purge(n) PROVE Purged(n)
  <2> DEFINE L == {po \in res.locks : po.node # n}
             ws == OthersWaiters(res.waiters, n)
  <2>1. Sound(res.locks) /\ Queue(res.waiters)
        /\ res = [locks |-> res.locks, waiters |-> res.waiters]
    BY DEF Inv
  <2>2. Sound(L) /\ Queue(ws)
    BY <2>1, PurgeSound, Others
  <2>3. [res EXCEPT !.locks = L, !.waiters = ws] = [locks |-> L, waiters |-> ws]
    <3> HIDE DEF L, ws
    <3>1. [res EXCEPT !.locks = L] = [locks |-> L, waiters |-> res.waiters]
      BY <2>1, SMT
    <3>2. [[locks |-> L, waiters |-> res.waiters] EXCEPT !.waiters = ws]
            = [locks |-> L, waiters |-> ws]
      BY SMT
    <3> QED
      BY <3>1, <3>2
  <2>4. PurgeLocks(res, n) = do_waiters([locks |-> L, waiters |-> ws])
    BY <2>3 DEF PurgeLocks
  <2>5. res' = PurgeLocks(res, n).r /\ downgraded' = Downgrades(res, res')
    BY <1>2 DEF Purge
  <2> QED
    BY <2>2, <2>4, <2>5 DEF Purged, Passes
<1> QED
  <2>1. CASE \E in \in Request(Nodes, Owners, Offsets) : Receive(in)
    BY <1>1, <2>1
  <2>2. CASE \E n \in Nodes : Purge(n)
    BY <1>2, <2>2
  <2> QED
    BY <2>1, <2>2 DEF Next

\* What a pass leaves.
LEMMA PassLeaves ==
    ASSUME NEW L, NEW ws, Passes(L, ws)
    PROVE  PassOK(L, ws, Len(ws), res'.waiters, res'.locks) /\ Inv'
<1> DEFINE d == do_waiters([locks |-> L, waiters |-> ws])
<1>1. PassInv(L, ws, Len(ws), d)
  BY DoWaiters DEF Passes
<1>2. res' = d.r
  BY DEF Passes
<1> HIDE DEF d
<1>3. d = [r |-> [locks |-> d.r.locks, waiters |-> d.r.waiters], done |-> d.done]
      /\ PassOK(L, ws, Len(ws), d.r.waiters, d.r.locks)
  BY <1>1 DEF PassInv
<1>4. d.r = [locks |-> d.r.locks, waiters |-> d.r.waiters]
  BY <1>3, SMT
<1>5. PassOK(L, ws, Len(ws), res'.waiters, res'.locks)
      /\ res' = [locks |-> res'.locks, waiters |-> res'.waiters]
  BY <1>2, <1>3, <1>4
<1>6. Sound(res'.locks) /\ Queue(res'.waiters)
  BY <1>5 DEF PassOK
<1> QED
  BY <1>5, <1>6 DEF Inv

\* Where the pass starts, a waiter that could be granted is one that waited already, and it
\* holds no more bytes exclusively than it did.
Before(L, ws) ==
    \A w \in Range(ws) :
        \/ is_conflict(L, w)
        \/ w \in Range(res.waiters) /\ \A b \in Nat : Holds(L, w, b, TRUE)
                                                        => Holds(res.locks, w, b, TRUE)

\* A pass leaves no waiter behind, unless it downgrades one.
LEMMA PassWakes ==
    ASSUME NEW L, NEW ws, Passes(L, ws), Before(L, ws)
    PROVE  NoLostWakeup'
<1>1. PassOK(L, ws, Len(ws), res'.waiters, res'.locks)
  BY PassLeaves
<1> DEFINE K == res'.waiters
<1>2. Queue(K) /\ Queue(ws)
  BY <1>1 DEF PassOK, Passes
<1>3. CASE GaveUp(L, ws, Len(ws), K)
  <2>1. PICK k \in 1 .. Len(ws), b \in Nat :
               /\ ws[k] \notin Range(K) /\ ~ws[k].ex /\ ~is_conflict(L, ws[k])
               /\ Covers(ws[k], b) /\ Holds(L, ws[k], b, TRUE)
    BY <1>3 DEF GaveUp
  <2> DEFINE w == ws[k]
  <2>2. k \in DOMAIN ws /\ w \in Range(ws) /\ w \in Lock
    BY <1>2, SMT DEF Queue, Range
  <2>3. w \in Range(res.waiters) /\ Holds(res.locks, w, b, TRUE)
    BY <2>1, <2>2 DEF Before
  <2>4. b \in w.start .. w.end
    BY <2>1, <2>2, PlockFileAssumption, SMT DEF Covers, Lock, PosixLock, Offsets
  <2>5. ~w.ex /\ ~\E j \in DOMAIN K : K[j] = w
    BY <2>1 DEF Range
  <2>6. PICK i \in DOMAIN res.waiters : res.waiters[i] = w
    BY <2>3 DEF Range
  <2>7. Downgrades(res, res')
    BY <2>3, <2>4, <2>5, <2>6 DEF Downgrades
  <2> QED
    BY <2>7 DEF NoLostWakeup, Passes
<1>4. CASE ~GaveUp(L, ws, Len(ws), K)
  <2>1. \A v : IsRequest(v) /\ v \in Range(K) => is_conflict(res'.locks, v)
    BY <1>1, <1>4 DEF PassOK
  <2>2. ASSUME NEW i \in DOMAIN K PROVE is_conflict(res'.locks, K[i])
    <3>1. K[i] \in Range(K) /\ K[i] \in Lock /\ K[i].start <= K[i].end
      BY <1>2, SMT DEF Queue, Range
    <3>2. IsRequest(K[i])
      BY <3>1, LockIs
    <3> QED
      BY <2>1, <3>1, <3>2
  <2> QED
    BY <2>2 DEF NoLostWakeup
<1> QED
  BY <1>3, <1>4

\* The inductive invariant and NoLostWakeup are kept by every step.
LEMMA StepKeeps ==
    ASSUME Inv, NoLostWakeup, [Next]_vars
    PROVE  Inv' /\ NoLostWakeup'
<1>1. CASE UNCHANGED vars
  <2>1. res' = res /\ downgraded' = downgraded
    BY <1>1 DEF vars
  <2> QED
    BY <2>1 DEF Inv, NoLostWakeup
<1>2. ASSUME NEW in \in Request(Nodes, Owners, Offsets), ~Waits(<<in.node, in.owner>>),
             NEW within, NEW L, Effect(res.locks, in, within, L), Passes(L, res.waiters)
      PROVE  Inv' /\ NoLostWakeup'
  <2>1. ASSUME NEW w \in Range(res.waiters), NEW b \in Nat, Holds(L, w, b, TRUE)
        PROVE  Holds(res.locks, w, b, TRUE)
    BY <1>2, <2>1, NotWaiting, EffectHolds
  <2>2. Before(L, res.waiters)
    BY <2>1 DEF Before
  <2> QED
    BY <1>2, <2>2, PassLeaves, PassWakes
<1>3. ASSUME NEW in \in Request(Nodes, Owners, Offsets), ~Waits(<<in.node, in.owner>>),
             LockGranted(in)
      PROVE  Inv' /\ NoLostWakeup'
  <2>1. Effect(res.locks, in, Wanted(in), lock_internal(res.locks, in))
    BY RequestIs, LockEffect DEF Inv, Sound
  <2> QED
    BY <1>2, <1>3, <2>1 DEF LockGranted
<1>4. ASSUME NEW in \in Request(Nodes, Owners, Offsets), ~Waits(<<in.node, in.owner>>),
             Unlocked(in)
      PROVE  Inv' /\ NoLostWakeup'
  <2>1. Effect(res.locks, in, {}, unlock_internal(res.locks, in))
    BY RequestIs, UnlockEffect DEF Inv, Sound
  <2> QED
    BY <1>2, <1>4, <2>1 DEF Unlocked
<1>5. ASSUME NEW in \in Request(Nodes, Owners, Offsets), LockWaits(in)
      PROVE  Inv' /\ NoLostWakeup'
  <2> DEFINE w == NewLock(in, in.ex, in.start, in.end)
             ws == Append(res.waiters, w)
  <2>1. w \in Lock /\ is_conflict(res.locks, w) /\ Passes(res.locks, ws)
    BY <1>5, RequestIs DEF LockWaits
  <2> HIDE DEF w
  <2>2. Range(ws) = Range(res.waiters) \cup {w}
    BY <2>1, RangeAppend, SMT DEF Inv, Queue
  <2>3. Before(res.locks, ws)
    BY <2>1, <2>2 DEF Before
  <2> QED
    BY <2>1, <2>3, PassLeaves, PassWakes
<1>6. ASSUME NEW in \in Request(Nodes, Owners, Offsets), LockRefused(in)
      PROVE  Inv' /\ NoLostWakeup'
  <2>1. Passes(res.locks, res.waiters) /\ Before(res.locks, res.waiters)
    BY <1>6 DEF LockRefused, Before
  <2> QED
    BY <2>1, PassLeaves, PassWakes
<1>7. ASSUME NEW n \in Nodes, Purged(n)
      PROVE  Inv' /\ NoLostWakeup'
  <2> DEFINE L == {po \in res.locks : po.node # n}
             ws == OthersWaiters(res.waiters, n)
  <2>1. Passes(L, ws) /\ Queue(res.waiters)
    BY <1>7 DEF Purged, Inv
  <2>2. \A w \in Range(ws) : w \in Range(res.waiters)
    BY <2>1, Others
  <2>3. \A w, b : Holds(L, w, b, TRUE) => Holds(res.locks, w, b, TRUE)
    BY DEF Holds
  <2>4. Before(L, ws)
    BY <2>2, <2>3 DEF Before
  <2> QED
    BY <2>1, <2>4, PassLeaves, PassWakes
<1> QED
  BY <1>1, <1>3, <1>4, <1>5, <1>6, <1>7, Steps

\* Inductive invariant.
LEMMA Invariant == Spec => [](Inv /\ NoLostWakeup)
<1>1. Init => Inv /\ NoLostWakeup
  <2> SUFFICES ASSUME Init PROVE Inv /\ NoLostWakeup
    OBVIOUS
  <2>1. res.locks = {} /\ res.waiters = <<>>
        /\ res = [locks |-> res.locks, waiters |-> res.waiters]
    BY DEF Init
  <2>2. Sound({})
    BY DEF Sound, Locks, NoOverlap, NoConflict
  <2>3. Queue(<<>>)
    BY SMT DEF Queue
  <2>4. \A i \in DOMAIN <<>> : FALSE
    BY SMT
  <2> QED
    BY <2>1, <2>2, <2>3, <2>4 DEF Inv, NoLostWakeup
<1>2. Inv /\ NoLostWakeup /\ [Next]_vars => (Inv /\ NoLostWakeup)'
  BY StepKeeps
<1> QED
  BY <1>1, <1>2, PTL DEF Spec

\* The resource is well formed, whatever the messages and the nodes that go.
THEOREM Types == Spec => []TypeOK
<1>1. Inv => TypeOK
  BY DEF Inv, Sound, Queue, Locks, IsLock, Proper, TypeOK, Lock
<1> QED
  BY <1>1, Invariant, PTL

\* No two holders have a byte one of them holds exclusively, and the locks of one holder
\* never overlap.
THEOREM LocksAreSound == Spec => []LocksSound
<1>1. Inv => LocksSound
  BY DEF Inv, Sound, Locks, LocksSound
<1> QED
  BY <1>1, Invariant, PTL

\* Whoever waits conflicts with a lock, unless the last pass downgraded one.
THEOREM NoWakeupIsLost == Spec => []NoLostWakeup
BY Invariant, PTL

-----------------------------------------------------------------------------
(* Refinement *)

\* The byte b of the owner of q in the abstract specification, and the request w.
Byte(q, b, ex) == [holder |-> <<q.node, q.owner>>, byte |-> b, ex |-> ex]
Wish(w) == [holder |-> <<w.node, w.owner>>, bytes |-> w.start .. w.end, ex |-> w.ex]

\* Held has a byte of an owner when the owner holds it.
LEMMA HeldIs ==
    ASSUME NEW locks, Locks(locks)
    PROVE  /\ \A x \in Held(locks) : \E q \in locks, b \in Nat :
                 /\ x = Byte(q, b, q.ex) /\ Covers(q, b) /\ q.ex \in BOOLEAN
                 /\ Holds(locks, q, b, q.ex)
           /\ \A q : \A b \in Nat, ex \in BOOLEAN :
                 Byte(q, b, ex) \in Held(locks) <=> Holds(locks, q, b, ex)
<1>1. ASSUME NEW po \in locks, NEW b
      PROVE  (b \in po.start .. po.end <=> b \in Nat /\ Covers(po, b)) /\ po.ex \in BOOLEAN
  BY SMT DEF Locks, IsLock, Covers
<1>2. \A x : x \in Held(locks) <=> \E po \in locks : \E b \in po.start .. po.end :
                                        x = Byte(po, b, po.ex)
  BY SMT DEF Held, Byte
<1>3. ASSUME NEW q, NEW po, NEW b, NEW c, NEW d, NEW ex
      PROVE  Byte(q, b, ex) = Byte(po, c, d) <=> SameOwner(po, q) /\ b = c /\ ex = d
  <2>1. ASSUME Byte(q, b, ex) = Byte(po, c, d) PROVE SameOwner(po, q) /\ b = c /\ ex = d
    <3>1. <<q.node, q.owner>> = <<po.node, po.owner>> /\ b = c /\ ex = d
      BY <2>1 DEF Byte
    <3> QED
      BY <3>1 DEF SameOwner
  <2>2. ASSUME SameOwner(po, q) /\ b = c /\ ex = d PROVE Byte(q, b, ex) = Byte(po, c, d)
    BY <2>2 DEF Byte, SameOwner
  <2> QED
    BY <2>1, <2>2
<1>4. ASSUME NEW x \in Held(locks)
      PROVE  \E q \in locks, b \in Nat : /\ x = Byte(q, b, q.ex) /\ Covers(q, b)
                                         /\ q.ex \in BOOLEAN /\ Holds(locks, q, b, q.ex)
  <2>1. PICK po \in locks : \E b \in po.start .. po.end : x = Byte(po, b, po.ex)
    BY <1>2
  <2>2. PICK b \in po.start .. po.end : x = Byte(po, b, po.ex)
    BY <2>1
  <2>3. b \in Nat /\ Covers(po, b) /\ po.ex \in BOOLEAN
    BY <1>1
  <2>4. Holds(locks, po, b, po.ex)
    BY <2>3 DEF Holds, SameOwner
  <2> QED
    BY <2>2, <2>3, <2>4
<1>5. ASSUME NEW q, NEW b \in Nat, NEW ex \in BOOLEAN
      PROVE  Byte(q, b, ex) \in Held(locks) <=> Holds(locks, q, b, ex)
  <2>1. ASSUME Byte(q, b, ex) \in Held(locks) PROVE Holds(locks, q, b, ex)
    <3>1. PICK po \in locks : \E c \in po.start .. po.end : Byte(q, b, ex) = Byte(po, c, po.ex)
      BY <1>2, <2>1
    <3>2. PICK c \in po.start .. po.end : Byte(q, b, ex) = Byte(po, c, po.ex)
      BY <3>1
    <3>3. SameOwner(po, q) /\ b = c /\ ex = po.ex
      BY <1>3, <3>2, SMT
    <3>4. Covers(po, c)
      BY <1>1
    <3> QED
      BY <3>3, <3>4 DEF Holds
  <2>2. ASSUME Holds(locks, q, b, ex) PROVE Byte(q, b, ex) \in Held(locks)
    <3>1. PICK po \in locks : SameOwner(po, q) /\ Covers(po, b) /\ po.ex = ex
      BY <2>2 DEF Holds
    <3>2. Byte(q, b, ex) = Byte(po, b, po.ex) /\ b \in po.start .. po.end
      BY <1>1, <1>3, <3>1, SMT
    <3> QED
      BY <1>2, <3>2
  <2> QED
    BY <2>1, <2>2
<1> QED
  BY <1>4, <1>5

\* Sound locks are compatible, byte by byte.
LEMMA SoundIsCompatible ==
    ASSUME NEW locks, Sound(locks)
    PROVE  Posix!Compatible(Held(locks))
<1> SUFFICES ASSUME NEW x \in Held(locks), NEW y \in Held(locks), x.byte = y.byte,
                    x.holder # y.holder
             PROVE  ~x.ex /\ ~y.ex
  BY DEF Posix!Compatible
<1>1. Locks(locks) /\ NoConflict(locks)
  BY DEF Sound
<1>2. PICK p \in locks, b \in Nat : x = Byte(p, b, p.ex) /\ Covers(p, b)
  BY <1>1, HeldIs
<1>3. PICK q \in locks, c \in Nat : y = Byte(q, c, q.ex) /\ Covers(q, c)
  BY <1>1, HeldIs
<1>4. b = c /\ ~SameOwner(p, q) /\ x.ex = p.ex /\ y.ex = q.ex
  BY <1>2, <1>3 DEF Byte, SameOwner
<1>5. IsRequest(q) /\ ~is_conflict(locks, q)
  BY <1>1 DEF Locks, IsLock, IsRequest, NoConflict
<1>6. ~(q.ex \/ p.ex)
  BY <1>1, <1>2, <1>3, <1>4, <1>5, ConflictByte
<1> QED
  BY <1>4, <1>6

\* The requests of waiters of a queue are those the queue says.
LEMMA WishIs ==
    ASSUME NEW ws, Queue(ws)
    PROVE  /\ \A x : x \in Want(ws) <=> \E k \in 1 .. Len(ws) : x = Wish(ws[k])
           /\ \A k \in 1 .. Len(ws) : \A q, b :
                 /\ Wish(ws[k]).holder = <<q.node, q.owner>> <=> SameOwner(ws[k], q)
                 /\ b \in Wish(ws[k]).bytes <=> b \in Nat /\ Covers(ws[k], b)
                 /\ Wish(ws[k]).ex = ws[k].ex /\ ws[k].ex \in BOOLEAN
                 /\ Wish(ws[k]).holder = <<ws[k].node, ws[k].owner>>
                 /\ Posix!Take({}, Wish(ws[k]))
                      = {Byte(ws[k], c, ws[k].ex) : c \in ws[k].start .. ws[k].end}
<1>1. DOMAIN ws = 1 .. Len(ws)
  BY SMT DEF Queue
<1>2. \A x : x \in Want(ws) <=> \E k \in 1 .. Len(ws) : x = Wish(ws[k])
  BY <1>1 DEF Want, Wish, Range
<1>3. ASSUME NEW k \in 1 .. Len(ws), NEW q, NEW b
      PROVE  /\ Wish(ws[k]).holder = <<q.node, q.owner>> <=> SameOwner(ws[k], q)
             /\ b \in Wish(ws[k]).bytes <=> b \in Nat /\ Covers(ws[k], b)
             /\ Wish(ws[k]).ex = ws[k].ex /\ ws[k].ex \in BOOLEAN
             /\ Wish(ws[k]).holder = <<ws[k].node, ws[k].owner>>
             /\ Posix!Take({}, Wish(ws[k]))
                  = {Byte(ws[k], c, ws[k].ex) : c \in ws[k].start .. ws[k].end}
  <2> DEFINE w == ws[k]
  <2>1. w \in Lock
    BY <1>1, SMT DEF Queue
  <2> HIDE DEF w
  <2>2. w.start \in Nat /\ w.end \in Nat /\ w.ex \in BOOLEAN
    BY <2>1, PlockFileAssumption, SMT DEF Lock, PosixLock, Offsets
  <2>3. Wish(w).holder = <<w.node, w.owner>> /\ Wish(w).bytes = w.start .. w.end
        /\ Wish(w).ex = w.ex
    BY DEF Wish
  <2>4. Wish(w).holder = <<q.node, q.owner>> <=> SameOwner(w, q)
    BY <2>3, SMT DEF SameOwner
  <2>5. b \in Wish(w).bytes <=> b \in Nat /\ Covers(w, b)
    BY <2>2, <2>3, SMT DEF Covers
  <2>6. Posix!Take({}, Wish(w)) = {Byte(w, c, w.ex) : c \in w.start .. w.end}
    BY <2>3 DEF Posix!Take, Posix!Release, Byte
  <2> QED
    BY <2>2, <2>3, <2>4, <2>5, <2>6 DEF w
<1> QED
  BY <1>2, <1>3

\* PosixLocks!Grant as a relation of four sets.
GrantTo(H, W, H1, W1) ==
    /\ W1 \subseteq W
    /\ LET G == W \ W1
           Of(h) == {w \in G : w.holder = h}
       IN  H1 = {x \in H : \A w \in Of(x.holder) : x.byte \notin w.bytes}
                  \cup UNION {Posix!Take({}, w) : w \in G}
    /\ Posix!Compatible(H1)

\* A pass over the waiters is a Grant.
LEMMA PassIsGrant ==
    ASSUME NEW L, NEW ws, NEW kept, NEW new, Sound(L), Queue(ws),
           PassOK(L, ws, Len(ws), kept, new)
    PROVE  GrantTo(Held(L), Want(ws), Held(new), Want(kept))
<1> DEFINE N == Len(ws)
           G == Want(ws) \ Want(kept)
           H1 == {x \in Held(L) : \A w \in {w \in G : w.holder = x.holder} : x.byte \notin w.bytes}
                   \cup UNION {Posix!Take({}, w) : w \in G}
<1>1. /\ Sound(new) /\ Queue(kept) /\ Granted(L, ws, N, kept, new)
      /\ \A w \in Range(kept) : \E k \in 1 .. N : w = ws[k]
  BY DEF PassOK
<1>2. N \in Nat /\ DOMAIN ws = 1 .. N /\ DOMAIN kept = 1 .. Len(kept)
  BY <1>1, SMT DEF Queue
<1>3. Locks(L) /\ Locks(new)
  BY <1>1 DEF Sound
<1>4. Want(kept) \subseteq Want(ws)
  <2>1. \A i \in 1 .. Len(kept) : \E k \in 1 .. N : kept[i] = ws[k]
    BY <1>1, <1>2 DEF Range
  <2> QED
    BY <1>1, <2>1, WishIs, SMT
<1>5. ASSUME NEW k \in 1 .. N
      PROVE  Wish(ws[k]) \in G <=> ws[k] \notin Range(kept)
  <2>1. Wish(ws[k]) \in Want(ws)
    BY WishIs
  <2>2. ASSUME ws[k] \in Range(kept) PROVE Wish(ws[k]) \in Want(kept)
    BY <2>2 DEF Want, Wish
  <2>3. ASSUME Wish(ws[k]) \in Want(kept) PROVE ws[k] \in Range(kept)
    <3>1. PICK i \in 1 .. Len(kept) : Wish(ws[k]) = Wish(kept[i])
      BY <1>1, <2>3, WishIs, SMT
    <3>2. kept[i] \in Range(kept)
      BY <1>2 DEF Range
    <3>3. PICK j \in 1 .. N : kept[i] = ws[j]
      BY <1>1, <3>2
    <3>4. Wish(ws[k]).holder = <<ws[k].node, ws[k].owner>> /\ Wish(ws[k]) = Wish(ws[j])
      BY <3>1, <3>3 DEF Wish
    <3>5. SameOwner(ws[j], ws[k])
      BY <3>4, WishIs
    <3>6. j = k
      BY <1>2, <3>5 DEF Queue
    <3> QED
      BY <3>2, <3>3, <3>6
  <2> QED
    BY <2>1, <2>2, <2>3
<1>6. \A w \in G : \E k \in 1 .. N : w = Wish(ws[k]) /\ ws[k] \notin Range(kept)
  BY <1>5, WishIs, SMT
<1> HIDE DEF G, N
<1>7. ASSUME NEW x \in Held(new) PROVE x \in H1
  <2>1. PICK q \in new, b \in Nat : /\ x = Byte(q, b, q.ex) /\ q.ex \in BOOLEAN
                                    /\ Holds(new, q, b, q.ex)
    BY <1>3, HeldIs
  <2>2. \/ \E k \in 1 .. N : Gets(kept, ws[k], q, b) /\ ws[k].ex = q.ex
        \/ Holds(L, q, b, q.ex) /\ \A k \in 1 .. N : ~Gets(kept, ws[k], q, b)
    BY <1>1, <2>1 DEF Granted
  <2>3. CASE \E k \in 1 .. N : Gets(kept, ws[k], q, b) /\ ws[k].ex = q.ex
    <3>1. PICK k \in 1 .. N : Gets(kept, ws[k], q, b) /\ ws[k].ex = q.ex
      BY <2>3
    <3>2. Wish(ws[k]) \in G
      BY <1>5, <3>1 DEF Gets
    <3>3. x = Byte(ws[k], b, ws[k].ex)
      BY <2>1, <3>1 DEF Byte, Gets, SameOwner
    <3>4. b \in ws[k].start .. ws[k].end
      <4>1. b \in Wish(ws[k]).bytes
        BY <3>1, WishIs DEF Gets, N
      <4> QED
        BY <4>1 DEF Wish
    <3>5. x \in Posix!Take({}, Wish(ws[k]))
      <4>1. Posix!Take({}, Wish(ws[k]))
              = {Byte(ws[k], c, ws[k].ex) : c \in ws[k].start .. ws[k].end}
        BY WishIs DEF N
      <4> QED
        BY <3>3, <3>4, <4>1
    <3> QED
      BY <3>2, <3>5
  <2>4. CASE Holds(L, q, b, q.ex) /\ \A k \in 1 .. N : ~Gets(kept, ws[k], q, b)
    <3>1. x \in Held(L)
      BY <1>3, <2>1, <2>4, HeldIs
    <3>2. x.holder = <<q.node, q.owner>> /\ x.byte = b
      BY <2>1 DEF Byte
    <3>3. ASSUME NEW w \in G, w.holder = x.holder PROVE x.byte \notin w.bytes
      <4>1. PICK k \in 1 .. N : w = Wish(ws[k]) /\ ws[k] \notin Range(kept)
        BY <1>6
      <4>2. SameOwner(ws[k], q)
        BY <3>2, <3>3, <4>1, WishIs DEF N
      <4>3. ~Covers(ws[k], b)
        BY <2>4, <4>1, <4>2 DEF Gets
      <4> QED
        BY <3>2, <4>1, <4>3, WishIs DEF N
    <3> QED
      BY <3>1, <3>3
  <2> QED
    BY <2>2, <2>3, <2>4
<1>8. ASSUME NEW x \in H1 PROVE x \in Held(new)
  <2>1. CASE x \in Held(L) /\ \A w \in G : w.holder = x.holder => x.byte \notin w.bytes
    <3>1. PICK q \in L, b \in Nat : /\ x = Byte(q, b, q.ex) /\ q.ex \in BOOLEAN
                                    /\ Holds(L, q, b, q.ex)
      BY <1>3, <2>1, HeldIs
    <3>2. x.holder = <<q.node, q.owner>> /\ x.byte = b
      BY <3>1 DEF Byte
    <3>3. ASSUME NEW k \in 1 .. N, Gets(kept, ws[k], q, b) PROVE FALSE
      <4>1. Wish(ws[k]) \in G
        BY <1>5, <3>3 DEF Gets
      <4>2. Wish(ws[k]).holder = <<q.node, q.owner>> /\ b \in Wish(ws[k]).bytes
        BY <3>3, WishIs DEF Gets, N
      <4> QED
        BY <2>1, <3>2, <4>1, <4>2
    <3>4. Holds(new, q, b, q.ex)
      BY <1>1, <3>1, <3>3 DEF Granted
    <3> QED
      BY <1>3, <3>1, <3>4, HeldIs
  <2>2. CASE \E w \in G : x \in Posix!Take({}, w)
    <3>1. PICK k \in 1 .. N : x \in Posix!Take({}, Wish(ws[k])) /\ ws[k] \notin Range(kept)
      BY <1>6, <2>2
    <3>2. PICK c \in ws[k].start .. ws[k].end : x = Byte(ws[k], c, ws[k].ex)
      BY <3>1, WishIs, SMT DEF N
    <3>3. c \in Nat /\ Covers(ws[k], c) /\ ws[k].ex \in BOOLEAN
      <4>1. c \in Wish(ws[k]).bytes
        BY DEF Wish
      <4> QED
        BY <4>1, WishIs DEF N
    <3>4. Gets(kept, ws[k], ws[k], c)
      BY <3>1, <3>3 DEF Gets, SameOwner
    <3>5. Holds(new, ws[k], c, ws[k].ex)
      BY <1>1, <3>3, <3>4 DEF Granted
    <3> QED
      BY <1>3, <3>2, <3>3, <3>5, HeldIs
  <2> QED
    BY <2>1, <2>2
<1>9. Posix!Compatible(Held(new))
  BY <1>1, SoundIsCompatible
<1>10. Held(new) = H1
  BY <1>7, <1>8
<1> QED
  BY <1>4, <1>9, <1>10 DEF GrantTo, G

\* A lock and an unlock change the bytes of their range.
LEMMA EffectIsRelease ==
    ASSUME NEW locks, Locks(locks), NEW in, IsRequest(in), NEW within \in SUBSET BOOLEAN,
           NEW new, Effect(locks, in, within, new)
    PROVE  Held(new) = Posix!Release(Held(locks), <<in.node, in.owner>>, in.start .. in.end)
                         \cup {Byte(in, b, ex) : b \in in.start .. in.end, ex \in within}
<1> DEFINE R == Posix!Release(Held(locks), <<in.node, in.owner>>, in.start .. in.end)
           T == {Byte(in, b, ex) : b \in in.start .. in.end, ex \in within}
<1>1. Locks(new)
  BY DEF Effect
<1>2. \A b : b \in in.start .. in.end <=> b \in Nat /\ Covers(in, b)
  BY SMT DEF IsRequest, Covers
<1>3. \A x : x \in R <=> x \in Held(locks) /\ (x.holder # <<in.node, in.owner>>
                                                  \/ x.byte \notin in.start .. in.end)
  BY DEF Posix!Release
<1>4. \A q, b, ex : /\ Byte(q, b, ex).holder = <<in.node, in.owner>> <=> SameOwner(in, q)
                    /\ Byte(q, b, ex).byte = b
  BY DEF Byte, SameOwner
<1>5. \A q, b, ex : SameOwner(in, q) => Byte(q, b, ex) = Byte(in, b, ex)
  BY DEF Byte, SameOwner
<1>6. ASSUME NEW q, NEW b \in Nat, NEW ex \in BOOLEAN
      PROVE  /\ SameOwner(in, q) /\ Covers(in, b) => (Holds(new, q, b, ex) <=> ex \in within)
             /\ ~(SameOwner(in, q) /\ Covers(in, b))
                   => (Holds(new, q, b, ex) <=> Holds(locks, q, b, ex))
  BY EffectHolds, SMT
<1>7. ASSUME NEW x \in Held(new) PROVE x \in R \cup T
  <2>1. PICK q \in new, b \in Nat : /\ x = Byte(q, b, q.ex) /\ q.ex \in BOOLEAN
                                    /\ Holds(new, q, b, q.ex)
    BY <1>1, HeldIs
  <2>2. CASE SameOwner(in, q) /\ Covers(in, b)
    <3>1. q.ex \in within /\ b \in in.start .. in.end /\ x = Byte(in, b, q.ex)
      BY <1>2, <1>5, <1>6, <2>1, <2>2
    <3> QED
      BY <3>1, SMT
  <2>3. CASE ~(SameOwner(in, q) /\ Covers(in, b))
    <3>1. x \in Held(locks)
      BY <1>6, <2>1, <2>3, HeldIs
    <3>2. x.holder # <<in.node, in.owner>> \/ x.byte \notin in.start .. in.end
      BY <1>2, <1>4, <2>1, <2>3, SMT
    <3> QED
      BY <1>3, <3>1, <3>2, SMT
  <2> QED
    BY <2>2, <2>3, SMT
<1>8. ASSUME NEW x \in R PROVE x \in Held(new)
  <2>1. x \in Held(locks) /\ (x.holder # <<in.node, in.owner>> \/ x.byte \notin in.start .. in.end)
    BY <1>3
  <2>2. PICK q \in locks, b \in Nat : /\ x = Byte(q, b, q.ex) /\ q.ex \in BOOLEAN
                                      /\ Holds(locks, q, b, q.ex)
    BY <2>1, HeldIs
  <2>3. ~(SameOwner(in, q) /\ Covers(in, b))
    BY <1>2, <1>4, <2>1, <2>2, SMT
  <2> QED
    BY <1>1, <1>6, <2>2, <2>3, HeldIs
<1>9. ASSUME NEW b \in in.start .. in.end, NEW ex \in within PROVE Byte(in, b, ex) \in Held(new)
  <2>1. b \in Nat /\ Covers(in, b) /\ ex \in BOOLEAN
    BY <1>2
  <2>2. Holds(new, in, b, ex)
    BY <1>6, <2>1 DEF SameOwner
  <2> QED
    BY <1>1, <2>1, <2>2, HeldIs
<1> HIDE DEF R
<1>10. Held(new) = R \cup T
  BY <1>7, <1>8, <1>9, SMT
<1> QED
  BY <1>10, SMT DEF R

\* A step with a pass is a Grant.
LEMMA PassesIsGrant ==
    ASSUME NEW L, NEW ws, Passes(L, ws)
    PROVE  Posix!Grant(Held(L), Want(ws))
<1>1. GrantTo(Held(L), Want(ws), Held(res'.locks), Want(res'.waiters))
  BY PassLeaves, PassIsGrant DEF Passes
<1>2. Held(res.locks)' = Held(res'.locks) /\ Want(res.waiters)' = Want(res'.waiters)
  BY DEF Held, Want, Range
<1> QED
  BY <1>1, <1>2 DEF GrantTo, Posix!Grant

\* Nobody waits for the owner of the message.
LEMMA NotWaitingPosix ==
    ASSUME Inv, NEW in, ~Waits(<<in.node, in.owner>>)
    PROVE  ~Posix!Waits(<<in.node, in.owner>>)
<1> SUFFICES ASSUME NEW w \in Want(res.waiters), w.holder = <<in.node, in.owner>> PROVE FALSE
  BY DEF Posix!Waits
<1>1. PICK v \in Range(res.waiters) : w = Wish(v)
  BY DEF Want, Wish
<1>2. SameOwner(v, in)
  BY <1>1 DEF Wish, SameOwner
<1> QED
  BY <1>2, NotWaiting

\* A message that conflicts cannot be granted in the abstract specification either, and one
\* that does not can.
LEMMA LockIsTake ==
    ASSUME NEW locks, Sound(locks), NEW in \in Request(Nodes, Owners, Offsets)
    PROVE  /\ Held(lock_internal(locks, in)) = Posix!Take(Held(locks), Wish(in))
           /\ is_conflict(locks, in) => ~Posix!Compatible(Posix!Take(Held(locks), Wish(in)))
<1>1. IsRequest(in) /\ Locks(locks)
  BY RequestIs DEF Sound
<1>2. in.start \in Nat /\ in.end \in Nat /\ in.ex \in BOOLEAN
  BY <1>1 DEF IsRequest
<1>3. Posix!Take(Held(locks), Wish(in))
        = Posix!Release(Held(locks), <<in.node, in.owner>>, in.start .. in.end)
            \cup {Byte(in, b, in.ex) : b \in in.start .. in.end}
  BY DEF Posix!Take, Wish, Byte
<1>4. Held(lock_internal(locks, in)) = Posix!Take(Held(locks), Wish(in))
  <2>1. Effect(locks, in, Wanted(in), lock_internal(locks, in))
    BY <1>1, LockEffect
  <2>2. Wanted(in) \in SUBSET BOOLEAN
    BY <1>2 DEF Wanted
  <2>3. Held(lock_internal(locks, in))
          = Posix!Release(Held(locks), <<in.node, in.owner>>, in.start .. in.end)
              \cup {Byte(in, b, ex) : b \in in.start .. in.end, ex \in Wanted(in)}
    BY <1>1, <2>1, <2>2, EffectIsRelease, SMT
  <2>4. {Byte(in, b, ex) : b \in in.start .. in.end, ex \in Wanted(in)}
          = {Byte(in, b, in.ex) : b \in in.start .. in.end}
    BY SMT DEF Wanted
  <2> QED
    BY <1>3, <2>3, <2>4, SMT
<1>5. ASSUME is_conflict(locks, in), Posix!Compatible(Posix!Take(Held(locks), Wish(in)))
      PROVE  FALSE
  <2>1. PICK po \in locks, b \in Nat : /\ ~SameOwner(po, in) /\ Covers(po, b) /\ Covers(in, b)
                                       /\ in.ex \/ po.ex
    BY <1>1, <1>5, ConflictByte
  <2>2. po.ex \in BOOLEAN /\ b \in in.start .. in.end
    BY <1>1, <1>2, <2>1, SMT DEF Locks, IsLock, Covers
  <2> DEFINE x == Byte(po, b, po.ex)
             y == Byte(in, b, in.ex)
  <2>3. /\ x.byte = b /\ y.byte = b /\ x.ex = po.ex /\ y.ex = in.ex
        /\ x.holder = <<po.node, po.owner>> /\ y.holder = <<in.node, in.owner>>
    BY DEF Byte
  <2>4. x.holder # y.holder
    BY <2>1, <2>3, SMT DEF SameOwner
  <2>5. x \in Held(locks)
    <3>1. Holds(locks, po, b, po.ex)
      BY <2>1 DEF Holds, SameOwner
    <3> QED
      BY <1>1, <2>2, <3>1, HeldIs
  <2>6. y \in {Byte(in, c, in.ex) : c \in in.start .. in.end}
    BY <2>2
  <2> HIDE DEF x, y
  <2>7. x \in Posix!Release(Held(locks), <<in.node, in.owner>>, in.start .. in.end)
    BY <2>3, <2>4, <2>5 DEF Posix!Release
  <2>8. ~x.ex /\ ~y.ex
    BY <1>3, <1>5, <2>3, <2>4, <2>6, <2>7 DEF Posix!Compatible
  <2> QED
    BY <2>1, <2>3, <2>8
<1> QED
  BY <1>4, <1>5

\* Every step of the replica is a step of posix locks.
LEMMA StepRefines ==
    ASSUME Inv, Inv', [Next]_vars
    PROVE  [Posix!Next]_(Posix!pvars)
<1>1. CASE UNCHANGED vars
  BY <1>1 DEF vars, Posix!pvars, Held, Want, Range
<1>2. Sound(res.locks) /\ Queue(res.waiters) /\ Locks(res.locks)
  BY DEF Inv, Sound
<1>3. ASSUME NEW in \in Request(Nodes, Owners, Offsets)
      PROVE  /\ <<in.node, in.owner>> \in Holders /\ in.start .. in.end \in SUBSET Offsets
             /\ in.ex \in BOOLEAN
             /\ Wish(in) = [holder |-> <<in.node, in.owner>>, bytes |-> in.start .. in.end,
                            ex |-> in.ex]
             /\ Wish(in).holder = <<in.node, in.owner>>
             /\ Wish(NewLock(in, in.ex, in.start, in.end)) = Wish(in)
  BY PlockFileAssumption, SMT DEF Request, Offsets, Holders, Wish, NewLock
<1>4. ASSUME NEW in \in Request(Nodes, Owners, Offsets), Posix!Lock(Wish(in))
      PROVE  Posix!Next
  <2>1. Posix!Lock([holder |-> <<in.node, in.owner>>, bytes |-> in.start .. in.end, ex |-> in.ex])
    BY <1>4 DEF Wish
  <2> QED
    BY <1>3, <2>1 DEF Posix!Next
<1>5. ASSUME NEW in \in Request(Nodes, Owners, Offsets), ~Waits(<<in.node, in.owner>>),
             LockGranted(in)
      PROVE  Posix!Next
  <2>1. Posix!Grant(Posix!Take(Held(res.locks), Wish(in)), Want(res.waiters))
    BY <1>2, <1>5, LockIsTake, PassesIsGrant DEF LockGranted
  <2>2. Posix!Compatible(Posix!Take(Held(res.locks), Wish(in)))
    BY <1>2, <1>5, LockIsTake, SoundIsCompatible DEF LockGranted, Passes
  <2>3. Posix!Lock(Wish(in))
    BY <1>3, <1>5, <2>1, <2>2, NotWaitingPosix DEF Posix!Lock
  <2> QED
    BY <1>4, <2>3
<1>6. ASSUME NEW in \in Request(Nodes, Owners, Offsets), ~Waits(<<in.node, in.owner>>),
             LockWaits(in)
      PROVE  Posix!Next
  <2> DEFINE w == NewLock(in, in.ex, in.start, in.end)
  <2>1. ~Posix!Compatible(Posix!Take(Held(res.locks), Wish(in)))
    BY <1>2, <1>6, LockIsTake DEF LockWaits
  <2>2. w \in Lock /\ Wish(w) = Wish(in)
    BY <1>3, RequestIs
  <2>3. Posix!Grant(Held(res.locks), Want(Append(res.waiters, w)))
    BY <1>6, PassesIsGrant DEF LockWaits
  <2> HIDE DEF w
  <2>4. Range(Append(res.waiters, w)) = Range(res.waiters) \cup {w}
    BY <1>2, <2>2, RangeAppend, SMT DEF Queue
  <2>5. Want(Append(res.waiters, w)) = Want(res.waiters) \cup {Wish(in)}
    BY <2>2, <2>4 DEF Want, Wish
  <2>6. Posix!Grant(Held(res.locks), Want(res.waiters) \cup {Wish(in)})
    BY <2>3, <2>5
  <2>7. Posix!Lock(Wish(in))
    BY <1>3, <1>6, <2>1, <2>6, NotWaitingPosix DEF Posix!Lock
  <2> QED
    BY <1>4, <2>7
<1>7. ASSUME NEW in \in Request(Nodes, Owners, Offsets), ~Waits(<<in.node, in.owner>>),
             LockRefused(in)
      PROVE  Posix!Next
  <2>1. ~Posix!Compatible(Posix!Take(Held(res.locks), Wish(in)))
    BY <1>2, <1>7, LockIsTake DEF LockRefused
  <2>2. Posix!Grant(Held(res.locks), Want(res.waiters))
    BY <1>7, PassesIsGrant DEF LockRefused
  <2>3. Posix!Lock(Wish(in))
    BY <1>3, <1>7, <2>1, <2>2, NotWaitingPosix DEF Posix!Lock
  <2> QED
    BY <1>4, <2>3
<1>8. ASSUME NEW in \in Request(Nodes, Owners, Offsets), ~Waits(<<in.node, in.owner>>),
             Unlocked(in)
      PROVE  Posix!Next
  <2> DEFINE L == unlock_internal(res.locks, in)
  <2>1. Posix!Grant(Held(L), Want(res.waiters))
    BY <1>8, PassesIsGrant DEF Unlocked
  <2>2. Held(L) = Posix!Release(Held(res.locks), <<in.node, in.owner>>, in.start .. in.end)
    <3>1. IsRequest(in)
      BY RequestIs
    <3>2. Effect(res.locks, in, {}, L)
      BY <1>2, <3>1, UnlockEffect
    <3> DEFINE none == {}
    <3>3. none \in SUBSET BOOLEAN /\ Effect(res.locks, in, none, L)
      BY <3>2
    <3> HIDE DEF L, none
    <3>4. Held(L) = Posix!Release(Held(res.locks), <<in.node, in.owner>>, in.start .. in.end)
                      \cup {Byte(in, b, ex) : b \in in.start .. in.end, ex \in none}
      BY <1>2, <3>1, <3>3, EffectIsRelease, SMT
    <3>5. {Byte(in, b, ex) : b \in in.start .. in.end, ex \in none} = {}
      BY SMT DEF none
    <3> QED
      BY <3>4, <3>5, SMT
  <2>3. Posix!Unlock(<<in.node, in.owner>>, in.start .. in.end)
    BY <1>8, <2>1, <2>2, NotWaitingPosix DEF Posix!Unlock
  <2> QED
    BY <1>3, <2>3 DEF Posix!Next
<1>9. ASSUME NEW n \in Nodes, Purged(n), Owners # {}
      PROVE  Posix!Next
  <2> DEFINE L == {po \in res.locks : po.node # n}
             ws == OthersWaiters(res.waiters, n)
  <2>1. Posix!Grant(Held(L), Want(ws))
    BY <1>9, PassesIsGrant DEF Purged
  <2>2. Held(L) = {x \in Held(res.locks) : NodeOfHolder(x.holder) # n}
    BY SMT DEF Held, NodeOfHolder
  <2>3. Want(ws) = {w \in Want(res.waiters) : NodeOfHolder(w.holder) # n}
    <3>1. \A w : w \in Range(ws) <=> w \in Range(res.waiters) /\ w.node # n
      BY <1>2, Others
    <3> HIDE DEF ws
    <3> QED
      BY <3>1, SMT DEF Want, NodeOfHolder
  <2>4. Posix!Purge(n)
    BY <2>1, <2>2, <2>3 DEF Posix!Purge
  <2>5. n \in {NodeOfHolder(h) : h \in Holders}
    <3>1. PICK o \in Owners : TRUE
      BY <1>9
    <3>2. <<n, o>> \in Holders /\ NodeOfHolder(<<n, o>>) = n
      BY DEF Holders, NodeOfHolder
    <3> QED
      BY <3>2
  <2> QED
    BY <2>4, <2>5 DEF Posix!Next
<1>10. CASE Owners = {}
  <2>1. Lock = {}
    BY <1>10 DEF Lock, PosixLock
  <2>2. res.locks = {} /\ res'.locks = {} /\ Range(res.waiters) = {} /\ Range(res'.waiters) = {}
    <3>1. res.locks \subseteq Lock /\ res'.locks \subseteq Lock
          /\ res.waiters \in Seq(Lock) /\ res'.waiters \in Seq(Lock)
      BY DEF Inv, Sound, Queue
    <3>2. ASSUME NEW ws \in Seq(Lock) PROVE Range(ws) = {}
      BY <2>1, SMT DEF Range
    <3> QED
      BY <2>1, <3>1, <3>2
  <2> QED
    BY <2>2 DEF Posix!pvars, Held, Want, Range
<1> QED
  BY <1>1, <1>5, <1>6, <1>7, <1>8, <1>9, <1>10, Steps

\* The replica implements posix locks byte by byte.
THEOREM Refinement == Spec => ImplementsPosixLocks
<1>1. Init => Posix!Init
  BY SMT DEF Init, Posix!Init, Held, Want, Range
<1>2. Inv /\ Inv' /\ [Next]_vars => [Posix!Next]_(Posix!pvars)
  BY StepRefines
<1>3. Spec => Posix!Spec
  BY <1>1, <1>2, Invariant, PTL DEF Spec, Posix!Spec
<1> QED
  BY <1>3 DEF ImplementsPosixLocks
=============================================================================
