-------------------------- MODULE SameChangeProofs --------------------------
(***************************************************************************)
(* Kernels that count each other run on the same change, for every set of  *)
(* nodes, configuration and environment: Told, which LockspaceGroupProofs  *)
(* defines and shows for what one node does, for the messages that are     *)
(* sent and for the steps of the system.                                   *)
(***************************************************************************)
EXTENDS LockspaceGroupProofs

\* A leaf that names no prover is left to Zenon.
USE ZenonT(30)

-----------------------------------------------------------------------------
(* Messages and confchgs at the end of a queue *)

\* No confchg is among the messages a daemon sends.
NoConfchg(out) == \A i \in DOMAIN out : out[i].type # "confchg"

\* The queue of n becomes p: n knows what it did, and reaches and has the same.
Keeps(q, ls, n, p) ==
    /\ \A w \in Nat : Knows(q, ls, n, w) => Knows(p, ls, n, w)
    /\ \A w \in Nat : Reaches(q, ls, w) <=> Reaches(p, ls, w)
    /\ \A w \in Nat : Has(q, ls, w) <=> Has(p, ls, w)

\* The same confchgs at the same places.
SameConfchgs(q, p) ==
    /\ \A i : ConfchgAt(p, i) <=> ConfchgAt(q, i)
    /\ \A i : ConfchgAt(q, i) => p[i] = q[i]

\* The order is one of confchgs.
LEMMA ConfchgsOrdered ==
    ASSUME NEW q, NEW p, NEW ls, NEW top, SameConfchgs(q, p), Ordered(q, ls, top)
    PROVE  Ordered(p, ls, top)
  <1>1. ASSUME NEW i, NEW j, i < j, ConfchgAt(p, i), ConfchgAt(p, j)
        PROVE  p[i].view < p[j].view
    <2>1. ConfchgAt(q, i) /\ ConfchgAt(q, j) /\ p[i] = q[i] /\ p[j] = q[j]
      BY <1>1 DEF SameConfchgs
    <2> QED BY <1>1, <2>1 DEF Ordered
  <1> QED BY <1>1 DEF Ordered, SameConfchgs

\* Messages at the end of the queue of n, with what the record says of the messages of n
\* among them.
LEMMA MessagesEnd ==
    ASSUME NEW q, NEW ls, NEW n, NEW top, Sound(q, ls, n, top), ls.present,
           NEW out, NEW p, NoConfchg(out), Ends(q, out, p),
           \A j : StartAt(p, n, j) => OwnStart(p, ls, n, j)
    PROVE  Sound(p, ls, n, top) /\ Keeps(q, ls, n, p) /\ SameConfchgs(q, p)
  <1>0. q \in Seq(Events) /\ ls \in Lockspace /\ Ordered(q, ls, top) /\ Own(q, ls, n)
    BY DEF Sound
  <1>1. /\ p \in Seq(Events)
        /\ \A i \in DOMAIN q : i \in DOMAIN p /\ p[i] = q[i]
        /\ \A i \in DOMAIN p : i \in DOMAIN q \/ \E j \in DOMAIN out : p[i] = out[j]
    BY DEF Ends
  <1>2. /\ \A i : ConfchgAt(p, i) <=> ConfchgAt(q, i)
        /\ \A i : ConfchgAt(q, i) => p[i] = q[i]
    BY <1>1 DEF ConfchgAt, NoConfchg
  <1>3. \A m, j : StartAt(q, m, j) => StartAt(p, m, j)
    BY <1>1 DEF StartAt
  <1>4. Ordered(p, ls, top)
    BY <1>0, <1>2, ConfchgsOrdered DEF SameConfchgs
  <1>5. Own(p, ls, n)
    BY <1>0, <1>2 DEF Own
  <1>6. \A w \in Nat : (Reaches(q, ls, w) <=> Reaches(p, ls, w)) /\ (Has(q, ls, w) <=> Has(p, ls, w))
    BY <1>2 DEF Reaches, Has
  <1>7. \A w \in Nat : Knows(q, ls, n, w) => Knows(p, ls, n, w)
    BY <1>2, <1>3 DEF Knows
  <1> QED BY <1>0, <1>1, <1>2, <1>4, <1>5, <1>6, <1>7 DEF Sound, Keeps, SameConfchgs

\* Messages none of which is a start message of n leave n's own ones alone.
LEMMA OthersEnd ==
    ASSUME NEW q, NEW ls, NEW n, NEW top, Sound(q, ls, n, top),
           NEW out, NEW p, Ends(q, out, p), \A i : ~StartAt(out, n, i)
    PROVE  \A j : StartAt(p, n, j) => OwnStart(p, ls, n, j)
  <1>0. Own(q, ls, n)
    BY DEF Sound
  <1>1. \A j : StartAt(p, n, j) => StartAt(q, n, j) /\ p[j] = q[j]
    BY DEF Ends, StartAt
  <1> QED BY <1>0, <1>1 DEF Own, OwnStart

\* Without a start message among them nothing changes.
LEMMA QuietEnd ==
    ASSUME NEW q, NEW ls, NEW n, NEW top, Sound(q, ls, n, top), ls.present,
           NEW out \in Seq(Events), NoConfchg(out), NoStart(out)
    PROVE  Sound(q \o out, ls, n, top) /\ Steady(q, ls, n, q \o out, ls)
  <1> DEFINE p == q \o out
  <1>1. Ends(q, out, p)
    BY AtEnd DEF Sound
  <1> HIDE DEF p
  <1>2. \A m, i : ~StartAt(out, m, i)
    BY DEF NoStart, StartAt
  <1>3. \A j : StartAt(p, n, j) => OwnStart(p, ls, n, j)
    BY <1>1, <1>2, OthersEnd
  <1>4. Sound(p, ls, n, top) /\ Keeps(q, ls, n, p) /\ SameConfchgs(q, p)
    BY <1>1, <1>3, MessagesEnd
  <1>5. \A m, j : StartAt(p, m, j) => StartAt(q, m, j)
    <2> SUFFICES ASSUME NEW m, NEW j, StartAt(p, m, j), j \notin DOMAIN q PROVE FALSE
      BY <1>1 DEF Ends, StartAt
    <2>1. PICK i \in DOMAIN out : p[j] = out[i]
      BY <1>1 DEF Ends, StartAt
    <2> QED BY <2>1 DEF StartAt, NoStart
  <1>6. \A m : \A w \in Nat : Heard(p, ls, m, w) => Heard(q, ls, m, w)
    BY <1>4, <1>5 DEF Heard, SameConfchgs
  <1> QED BY <1>4, <1>6 DEF Steady, Keeps, p

\* A start message of k at the end of the queue of m: m may come to count it for any
\* change it has.
LEMMA StartEnd ==
    ASSUME NEW q, NEW ls, NEW m, NEW top, Sound(q, ls, m, top), ls.present,
           NEW msg \in Message, msg.type = "start",
           NEW p, Ends(q, <<msg>>, p), \A j : StartAt(p, m, j) => OwnStart(p, ls, m, j)
    PROVE  /\ Sound(p, ls, m, top) /\ Keeps(q, ls, m, p)
           /\ \A n : \A w \in Nat : Heard(p, ls, n, w) =>
                 Heard(q, ls, n, w) \/ (n = msg.from /\ \E v \in Nat : Has(q, ls, v) /\ w <= v)
           /\ m = msg.from => \A w \in Nat : Reaches(q, ls, w) => Knows(p, ls, m, w)
  <1> DEFINE out == <<msg>>
  <1>0. q \in Seq(Events) /\ ls \in Lockspace /\ Numbered(ls, top)
    BY DEF Sound, Ordered
  <1>1. DOMAIN out = {1} /\ out[1] = msg /\ 1 \in DOMAIN out
    BY SMT
  <1>2. NoConfchg(out) /\ Ends(q, out, p)
    BY <1>1 DEF NoConfchg
  <1> HIDE DEF out
  <1>3. Sound(p, ls, m, top) /\ Keeps(q, ls, m, p) /\ SameConfchgs(q, p)
    BY <1>2, MessagesEnd
  <1>4. \A n, j : StartAt(p, n, j) => StartAt(q, n, j) \/ n = msg.from
    <2>1. /\ \A i \in DOMAIN q : p[i] = q[i]
          /\ \A i \in DOMAIN p : i \in DOMAIN q \/ p[i] = msg
      BY <1>1, <1>2 DEF Ends
    <2> QED BY <2>1 DEF StartAt
  <1>5. ASSUME NEW n, NEW w \in Nat, Heard(p, ls, n, w), ~Heard(q, ls, n, w)
        PROVE  n = msg.from /\ \E v \in Nat : Has(q, ls, v) /\ w <= v
    <2>1. n = msg.from
      BY <1>3, <1>4, <1>5 DEF Heard, SameConfchgs
    <2>2. ASSUME NEW k \in DOMAIN ls.changes, w = ls.changes[k].view
          PROVE  \E v \in Nat : Has(q, ls, v) /\ w <= v
      <3>1. w <= Newest(ls) /\ Newest(ls) \in Nat
        BY <1>0, <2>2, ListViews, ChangeFields
      <3> QED BY <3>1 DEF Has
    <2>3. ASSUME NEW i, ConfchgAt(p, i), w = p[i].view
          PROVE  \E v \in Nat : Has(q, ls, v) /\ w <= v
      <3>1. Has(q, ls, w)
        BY <1>3, <2>3 DEF Has, SameConfchgs
      <3>2. w <= w
        BY SMT
      <3> QED BY <3>1, <3>2
    <2>4. CASE n \in ls.started_change.start /\ w = ls.started_change.view
      BY <1>5, <2>4 DEF Heard
    <2> QED BY <1>5, <2>1, <2>2, <2>3, <2>4 DEF Heard
  <1>6. ASSUME m = msg.from, NEW w \in Nat, Reaches(q, ls, w) PROVE Knows(p, ls, m, w)
    <2>1. StartAt(p, m, Len(q) + 1)
      BY <1>1, <1>2, <1>6 DEF StartAt, Ends
    <2>2. ASSUME NEW i, ConfchgAt(q, i), q[i].view >= w PROVE Knows(p, ls, m, w)
      <3>1. i < Len(q) + 1
        BY <1>0, <2>2, EventFields, SMT
      <3> QED BY <1>3, <2>1, <2>2, <3>1 DEF Knows, SameConfchgs
    <2> QED BY <1>6, <2>2 DEF Reaches, Knows
  <1> QED BY <1>3, <1>5, <1>6

\* Nothing a node has or counts is newer than the last confchg.
LEMMA Bounds ==
    ASSUME NEW q, NEW ls, NEW n, NEW top \in Nat, Sound(q, ls, n, top), NEW w \in Nat
    PROVE  /\ Has(q, ls, w) => w <= top
           /\ \A m : Heard(q, ls, m, w) => w <= top
  <1>0. q \in Seq(Events) /\ ls \in Lockspace /\ Ordered(q, ls, top) /\ Numbered(ls, top)
    BY DEF Sound, Ordered
  <1>1. \A i : ConfchgAt(q, i) => q[i].view <= top
    BY <1>0 DEF Ordered
  <1>2. Newest(ls) <= top /\ ls.started_change.view <= top /\ Newest(ls) \in Nat
    BY <1>0, ChangeFields DEF Numbered
  <1>3. \A k \in DOMAIN ls.changes : ls.changes[k].view <= top
    <2>1. \A k \in DOMAIN ls.changes : ls.changes[k].view <= Newest(ls) /\ ls.changes[k].view \in Nat
      BY <1>0, ListViews, ChangeFields
    <2> QED BY <1>2, <2>1, SMT
  <1> QED BY <1>1, <1>2, <1>3 DEF Has, Heard

\* A higher bound on the numbers
LEMMA Raise ==
    ASSUME NEW q, NEW ls, NEW n, NEW top \in Nat, Sound(q, ls, n, top), NEW high \in Nat, top <= high
    PROVE  Sound(q, ls, n, high)
  <1>0. q \in Seq(Events) /\ ls \in Lockspace /\ Ordered(q, ls, top) /\ Numbered(ls, top)
    BY DEF Sound, Ordered
  <1>1. Newest(ls) \in Nat /\ ls.started_change.view \in Nat
    BY <1>0, ChangeFields
  <1>2. Newest(ls) <= high /\ ls.started_change.view <= high
    BY <1>0, <1>1, SMT DEF Numbered
  <1>3. \A i : ConfchgAt(q, i) => q[i].view <= high
    <2>1. \A i : ConfchgAt(q, i) => q[i].view \in Nat /\ q[i].view <= top
      BY <1>0, EventFields DEF Ordered
    <2> QED BY <2>1, SMT
  <1>4. Numbered(ls, high)
    BY <1>0, <1>2 DEF Numbered
  <1>5. Ordered(q, ls, high)
    BY <1>0, <1>3, <1>4 DEF Ordered
  <1> QED BY <1>5 DEF Sound

\* A new confchg at the end of the queue.
LEMMA ConfchgEnd ==
    ASSUME NEW q, NEW ls, NEW n, NEW top \in Nat, Sound(q, ls, n, top), ls.present,
           NEW cc \in Confchg, top < cc.view, NEW high \in Nat, cc.view <= high,
           n \in cc.members \/ (n \in cc.left /\ ls.leaving), NEW p, p = Append(q, cc)
    PROVE  /\ Sound(p, ls, n, high)
           /\ \A w \in Nat : w <= top /\ Knows(q, ls, n, w) => Knows(p, ls, n, w)
           /\ \A m : \A w \in Nat : Heard(p, ls, m, w) => Heard(q, ls, m, w)
           /\ \A w \in Nat : w <= cc.view => Reaches(p, ls, w)
           /\ \A w \in Nat : Has(p, ls, w) => w <= cc.view
  <1>0. q \in Seq(Events) /\ ls \in Lockspace /\ Ordered(q, ls, top) /\ Own(q, ls, n) /\ Numbered(ls, top)
    BY DEF Sound, Ordered
  <1>00. cc.view \in Nat /\ cc.type = "confchg" /\ cc \in Events
    BY DEF Confchg, Events
  <1> DEFINE e == Len(q) + 1
  <1>1. /\ p \in Seq(Events) /\ Len(q) \in Nat /\ DOMAIN q = 1 .. Len(q)
        /\ DOMAIN p = 1 .. e /\ p[e] = cc
        /\ \A i \in 1 .. Len(q) : p[i] = q[i]
    BY <1>0, <1>00, AppendIs
  <1>2. /\ e \in DOMAIN p /\ e \notin DOMAIN q
        /\ \A i \in DOMAIN p : i = e \/ i \in DOMAIN q
        /\ \A i \in DOMAIN q : i \in DOMAIN p /\ i # e /\ i < e /\ ~(e < i) /\ i \in Nat
        /\ ~(e < e)
    BY <1>1, SMT
  <1> HIDE DEF e
  <1>3. /\ \A i : ConfchgAt(p, i) <=> i = e \/ ConfchgAt(q, i)
        /\ \A i : ConfchgAt(q, i) => p[i] = q[i] /\ i < e /\ ~(e < i)
        /\ \A m, j : StartAt(p, m, j) <=> StartAt(q, m, j)
        /\ \A m, j : StartAt(q, m, j) => p[j] = q[j] /\ j < e /\ ~(e < j)
    <2>1. p[e] = cc /\ cc.type = "confchg" /\ cc.type # "start"
      BY <1>00, <1>1
    <2>2. \A i \in DOMAIN q : p[i] = q[i]
      BY <1>1
    <2>3. \A i : ConfchgAt(p, i) <=> i = e \/ ConfchgAt(q, i)
      BY <1>2, <2>1, <2>2 DEF ConfchgAt
    <2>4. \A m, j : StartAt(p, m, j) <=> StartAt(q, m, j)
      BY <1>2, <2>1, <2>2 DEF StartAt
    <2> QED BY <1>2, <2>2, <2>3, <2>4 DEF ConfchgAt, StartAt
  <1>4. /\ Newest(ls) < cc.view /\ Newest(ls) <= high /\ ls.started_change.view <= high
        /\ \A i : ConfchgAt(q, i) => q[i].view < cc.view /\ q[i].view <= high
    <2>1. /\ Newest(ls) \in Nat /\ ls.started_change.view \in Nat /\ Newest(ls) <= top
          /\ ls.started_change.view <= top
      BY <1>0, ChangeFields DEF Numbered
    <2>2. \A i : ConfchgAt(q, i) => q[i].view \in Nat /\ q[i].view <= top
      BY <1>0, EventFields DEF Ordered
    <2> QED BY <1>00, <2>1, <2>2, SMT
  <1>5. Numbered(ls, high)
    BY <1>0, <1>4 DEF Numbered
  <1>6. Ordered(p, ls, high)
    <2>1. ASSUME NEW i, ConfchgAt(p, i) PROVE Newest(ls) < p[i].view /\ p[i].view <= high
      <3>1. CASE i = e
        BY <1>1, <1>4, <3>1
      <3>2. CASE ConfchgAt(q, i)
        BY <1>0, <1>3, <1>4, <3>2 DEF Ordered
      <3> QED BY <1>3, <2>1, <3>1, <3>2
    <2>2. ASSUME NEW i, NEW j, i < j, ConfchgAt(p, i), ConfchgAt(p, j) PROVE p[i].view < p[j].view
      <3>1. ConfchgAt(q, i)
        BY <1>2, <1>3, <2>2
      <3>2. CASE j = e
        BY <1>1, <1>3, <1>4, <3>1, <3>2
      <3>3. CASE ConfchgAt(q, j)
        BY <1>0, <1>3, <2>2, <3>1, <3>3 DEF Ordered
      <3> QED BY <1>3, <2>2, <3>2, <3>3
    <2> QED BY <1>5, <2>1, <2>2 DEF Ordered
  <1>7. Own(p, ls, n)
    <2>1. ASSUME NEW j, StartAt(p, n, j) PROVE OwnStart(p, ls, n, j)
      <3>1. /\ OwnStart(q, ls, n, j) /\ p[j] = q[j]
            /\ \A l : StartAt(p, n, l) => StartAt(q, n, l) /\ p[l] = q[l]
        BY <1>0, <1>3, <2>1 DEF Own
      <3> QED BY <3>1 DEF OwnStart
    <2>2. ASSUME NEW i, ConfchgAt(p, i) PROVE n \in p[i].members \/ (n \in p[i].left /\ ls.leaving)
      <3>1. CASE i = e
        BY <1>1, <3>1
      <3>2. CASE ConfchgAt(q, i)
        BY <1>0, <1>3, <3>2 DEF Own
      <3> QED BY <1>3, <2>2, <3>1, <3>2
    <2> QED BY <1>0, <2>1, <2>2 DEF Own
  <1>8. Sound(p, ls, n, high)
    BY <1>0, <1>1, <1>6, <1>7 DEF Sound
  <1>9. ASSUME NEW w \in Nat, w <= top, Knows(q, ls, n, w) PROVE Knows(p, ls, n, w)
    <2>1. ASSUME NEW i, NEW j, i < j, ConfchgAt(q, i), q[i].view >= w, StartAt(q, n, j)
          PROVE  Knows(p, ls, n, w)
      BY <1>3, <2>1 DEF Knows
    <2>2. CASE Newest(ls) = 0 /\ \A i : ConfchgAt(q, i) => q[i].view >= w
      <3>1. cc.view >= w
        BY <1>00, <1>9, SMT
      <3>2. \A i : ConfchgAt(p, i) => p[i].view >= w
        BY <1>1, <1>3, <2>2, <3>1
      <3> QED BY <2>2, <3>2 DEF Knows
    <2> QED BY <1>9, <2>1, <2>2 DEF Knows
  <1>10. ASSUME NEW m, NEW w \in Nat, Heard(p, ls, m, w) PROVE Heard(q, ls, m, w)
    <2>1. \A i, j : i < j /\ ConfchgAt(p, i) /\ StartAt(p, m, j) => ConfchgAt(q, i) /\ p[i] = q[i]
      BY <1>3
    <2> QED BY <1>3, <1>10, <2>1 DEF Heard
  <1>11. \A w \in Nat : w <= cc.view => Reaches(p, ls, w)
    <2>1. \A w \in Nat : w <= cc.view => cc.view >= w
      BY <1>00, SMT
    <2>2. ConfchgAt(p, e) /\ p[e] = cc
      BY <1>1, <1>3
    <2> QED BY <2>1, <2>2 DEF Reaches
  <1>12. ASSUME NEW w \in Nat, Has(p, ls, w) PROVE w <= cc.view
    <2>1. w < cc.view \/ w = cc.view
      BY <1>1, <1>3, <1>4, <1>12 DEF Has
    <2> QED BY <1>00, <2>1, SMT
  <1> QED BY <1>8, <1>9, <1>10, <1>11, <1>12

\* Lost messages, none of them a start message of n.
LEMMA GapsSteady ==
    ASSUME NEW q, NEW ls, NEW n, NEW top, Sound(q, ls, n, top),
           NEW p \in Seq(Events), Gapped(q, p), \A j : StartAt(q, n, j) => p[j] = q[j]
    PROVE  Sound(p, ls, n, top) /\ Steady(q, ls, n, p, ls)
  <1>0. q \in Seq(Events) /\ ls \in Lockspace /\ Ordered(q, ls, top) /\ Own(q, ls, n)
    BY DEF Sound
  <1>1. /\ DOMAIN p = DOMAIN q /\ (q = <<>> => p = <<>>)
        /\ \A i \in DOMAIN q : p[i] = q[i] \/ (p[i].type = "gap" /\ q[i].type # "confchg")
    BY <1>0, SMT DEF Gapped
  <1>2. SameConfchgs(q, p)
    BY <1>1 DEF SameConfchgs, ConfchgAt
  <1>3. /\ \A m, j : StartAt(p, m, j) => StartAt(q, m, j) /\ p[j] = q[j]
        /\ \A j : StartAt(q, n, j) => StartAt(p, n, j)
    BY <1>1 DEF StartAt
  <1>4. Ordered(p, ls, top)
    BY <1>0, <1>2, ConfchgsOrdered
  <1>5. \A j : StartAt(p, n, j) => OwnStart(p, ls, n, j)
    BY <1>0, <1>3 DEF Own, OwnStart
  <1>6. Own(p, ls, n)
    BY <1>0, <1>2, <1>5 DEF Own, SameConfchgs
  <1>7. Sound(p, ls, n, top)
    BY <1>0, <1>1, <1>4, <1>6 DEF Sound
  <1>8. /\ \A w \in Nat : Reaches(q, ls, w) => Reaches(p, ls, w)
        /\ \A w \in Nat : Has(p, ls, w) => Has(q, ls, w)
    BY <1>2 DEF SameConfchgs, Reaches, Has
  <1>9. \A w \in Nat : Knows(q, ls, n, w) => Knows(p, ls, n, w)
    BY <1>2, <1>3 DEF SameConfchgs, Knows
  <1>10. \A m : \A w \in Nat : Heard(p, ls, m, w) => Heard(q, ls, m, w)
    BY <1>2, <1>3 DEF SameConfchgs, Heard
  <1> QED BY <1>7, <1>8, <1>9, <1>10 DEF Steady

-----------------------------------------------------------------------------
(* All nodes *)

\* A node that does nothing
LEMMA SteadySame == \A q, ls, n : Steady(q, ls, n, q, ls)
  BY DEF Steady

\* Nodes take steps that only concern themselves, and pairs part.
LEMMA SteadyTold ==
    ASSUME NEW box, NEW rec, NEW pairs, NEW top, Told(box, rec, pairs, top),
           NEW next \in [Nodes -> Seq(Events)], NEW new \in [Nodes -> Lockspace],
           NEW still, still \subseteq pairs,
           \A n \in Nodes : Sound(next[n], new[n], n, top) /\ Steady(box[n], rec[n], n, next[n], new[n])
    PROVE  Told(next, new, still, top)
  <1>1. ASSUME NEW n \in Nodes, NEW m \in Nodes, NEW w \in Nat, <<n, m>> \in still, Has(next[m], new[m], w)
        PROVE  Reaches(next[n], new[n], w)
    <2>1. Steady(box[n], rec[n], n, next[n], new[n]) /\ Steady(box[m], rec[m], m, next[m], new[m])
      OBVIOUS
    <2>2. Has(box[m], rec[m], w)
      BY <1>1, <2>1 DEF Steady
    <2>3. Reaches(box[n], rec[n], w)
      BY <1>1, <2>2 DEF Told
    <2> QED BY <2>1, <2>3 DEF Steady
  <1>2. ASSUME NEW n \in Nodes, NEW m \in Nodes, NEW w \in Nat, Heard(next[m], new[m], n, w)
        PROVE  Knows(next[n], new[n], n, w)
    <2>1. Steady(box[n], rec[n], n, next[n], new[n]) /\ Steady(box[m], rec[m], m, next[m], new[m])
      OBVIOUS
    <2>2. Heard(box[m], rec[m], n, w)
      BY <1>2, <2>1 DEF Steady
    <2>3. Knows(box[n], rec[n], n, w)
      BY <2>2 DEF Told
    <2> QED BY <2>1, <2>3 DEF Steady
  <1>3. top \in Nat
    BY DEF Told
  <1> QED BY <1>1, <1>2, <1>3 DEF Told

\* One of them does.
LEMMA OneTold ==
    ASSUME NEW box, NEW rec, NEW pairs, NEW top, Told(box, rec, pairs, top),
           NEW k \in Nodes, NEW q, NEW ls, Sound(q, ls, k, top), Steady(box[k], rec[k], k, q, ls)
    PROVE  Told([box EXCEPT ![k] = q], [rec EXCEPT ![k] = ls], pairs, top)
  <1> DEFINE next == [box EXCEPT ![k] = q]
             new == [rec EXCEPT ![k] = ls]
  <1>1. box \in [Nodes -> Seq(Events)] /\ rec \in [Nodes -> Lockspace]
        /\ \A n \in Nodes : Sound(box[n], rec[n], n, top)
    BY DEF Told
  <1>2. q \in Seq(Events) /\ ls \in Lockspace
    BY DEF Sound
  <1>3. next \in [Nodes -> Seq(Events)] /\ new \in [Nodes -> Lockspace]
    BY <1>1, <1>2
  <1>4. \A n \in Nodes : /\ next[n] = (IF n = k THEN q ELSE box[n])
                         /\ new[n] = (IF n = k THEN ls ELSE rec[n])
    BY <1>1
  <1> HIDE DEF next, new
  <1>5. ASSUME NEW n \in Nodes
        PROVE  Sound(next[n], new[n], n, top) /\ Steady(box[n], rec[n], n, next[n], new[n])
    <2>1. CASE n = k
      BY <1>4, <2>1
    <2>2. CASE n # k
      BY <1>1, <1>4, <2>2, SteadySame
    <2> QED BY <2>1, <2>2
  <1>6. Told(next, new, pairs, top)
    BY <1>3, <1>5, SteadyTold
  <1> QED BY <1>6 DEF next, new

\* k is reset: it knows and tells nothing.
LEMMA ResetTold ==
    ASSUME NEW box, NEW rec, NEW pairs, NEW top, Told(box, rec, pairs, top),
           NEW k \in Nodes, NEW ls \in Lockspace, ls.changes = <<>>, ls.started_change = NoChange,
           NEW still, still \subseteq pairs, \A n : <<n, k>> \notin still /\ <<k, n>> \notin still
    PROVE  Told([box EXCEPT ![k] = <<>>], [rec EXCEPT ![k] = ls], still, top)
  <1> DEFINE next == [box EXCEPT ![k] = <<>>]
             new == [rec EXCEPT ![k] = ls]
  <1>1. /\ box \in [Nodes -> Seq(Events)] /\ rec \in [Nodes -> Lockspace] /\ top \in Nat
        /\ \A n \in Nodes : Sound(box[n], rec[n], n, top)
    BY DEF Told
  <1>2. <<>> \in Seq(Events) /\ DOMAIN <<>> = {}
    BY SMT
  <1>3. next \in [Nodes -> Seq(Events)] /\ new \in [Nodes -> Lockspace]
    BY <1>1, <1>2
  <1>4. \A n \in Nodes : /\ next[n] = (IF n = k THEN <<>> ELSE box[n])
                         /\ new[n] = (IF n = k THEN ls ELSE rec[n])
    BY <1>1
  <1> HIDE DEF next, new
  <1>5. NoChange.members = {} /\ NoChange.start = {} /\ NoChange.view = 0
    BY DEF NoChange
  <1>6. Newest(ls) = 0 /\ DOMAIN ls.changes = {}
    BY <1>2, <1>5 DEF Newest
  <1>7. (\A i : ~ConfchgAt(<<>>, i)) /\ (\A n, j : ~StartAt(<<>>, n, j))
    BY <1>2 DEF ConfchgAt, StartAt
  <1>8. Sound(<<>>, ls, k, top)
    <2>1. 0 <= top
      BY <1>1, SMT
    <2>2. Numbered(ls, top)
      BY <1>5, <1>6, <2>1 DEF Numbered
    <2>3. Ordered(<<>>, ls, top) /\ Own(<<>>, ls, k)
      BY <1>6, <1>7, <2>2 DEF Ordered, Own
    <2> QED BY <1>2, <2>3 DEF Sound
  <1>9. \A w : Knows(<<>>, ls, k, w) /\ \A n : ~Heard(<<>>, ls, n, w)
    BY <1>5, <1>6, <1>7 DEF Knows, Heard
  <1>10. ASSUME NEW n \in Nodes PROVE Sound(next[n], new[n], n, top)
    <2>1. CASE n = k
      BY <1>4, <1>8, <2>1
    <2>2. CASE n # k
      BY <1>1, <1>4, <2>2
    <2> QED BY <2>1, <2>2
  <1>11. ASSUME NEW n \in Nodes, NEW m \in Nodes, NEW w \in Nat, <<n, m>> \in still, Has(next[m], new[m], w)
         PROVE  Reaches(next[n], new[n], w)
    <2>1. n # k /\ m # k
      BY <1>11
    <2> QED BY <1>4, <1>11, <2>1 DEF Told
  <1>12. ASSUME NEW n \in Nodes, NEW m \in Nodes, NEW w \in Nat, Heard(next[m], new[m], n, w)
         PROVE  Knows(next[n], new[n], n, w)
    <2>1. m # k
      BY <1>4, <1>9, <1>12
    <2>2. CASE n = k
      BY <1>4, <1>9, <2>2
    <2>3. CASE n # k
      BY <1>4, <1>12, <2>1, <2>3 DEF Told
    <2> QED BY <2>2, <2>3
  <1>13. Told(next, new, still, top)
    BY <1>1, <1>3, <1>10, <1>11, <1>12 DEF Told
  <1> QED BY <1>13 DEF next, new

\* out is sent to T, to whom k is paired and who are in the lockspace.
SentTo(box, T, out, next) ==
    \A m \in Nodes : IF m \in T THEN Ends(box[m], out, next[m]) ELSE next[m] = box[m]

PairedTo(rec, pairs, k, T) == \A m \in T : rec[m].present /\ <<k, m>> \in pairs

OwnStarts(q, ls, k) == \A j : StartAt(q, k, j) => OwnStart(q, ls, k, j)

\* k sends a start message to the nodes T of its part of the group, itself included: it
\* reaches what they have.
LEMMA SendTold ==
    ASSUME NEW box, NEW rec, NEW pairs, NEW top, Told(box, rec, pairs, top),
           NEW k \in Nodes, NEW T \in SUBSET Nodes, k \in T,
           PairedTo(rec, pairs, k, T),
           NEW msg \in Message, msg.type = "start", msg.from = k,
           NEW next \in [Nodes -> Seq(Events)],
           SentTo(box, T, <<msg>>, next), OwnStarts(next[k], rec[k], k)
    PROVE  Told(next, rec, pairs, top)
  <1> USE DEF SentTo, PairedTo, OwnStarts
  <1>1. /\ box \in [Nodes -> Seq(Events)] /\ rec \in [Nodes -> Lockspace] /\ top \in Nat
        /\ \A n \in Nodes : Sound(box[n], rec[n], n, top)
    BY DEF Told
  <1>2. ASSUME NEW m \in T
        PROVE  /\ Sound(next[m], rec[m], m, top) /\ Keeps(box[m], rec[m], m, next[m])
               /\ \A n : \A w \in Nat : Heard(next[m], rec[m], n, w) =>
                     Heard(box[m], rec[m], n, w)
                     \/ (n = k /\ \E v \in Nat : Has(box[m], rec[m], v) /\ w <= v)
               /\ m = k => \A w \in Nat : Reaches(box[m], rec[m], w) => Knows(next[m], rec[m], m, w)
    <2> DEFINE q == box[m]
               p == next[m]
               ls == rec[m]
    <2>1. Sound(q, ls, m, top) /\ ls.present /\ Ends(q, <<msg>>, p)
      BY <1>1
    <2>2. \A j : StartAt(p, m, j) => OwnStart(p, ls, m, j)
      <3>1. CASE m = k
        BY <3>1
      <3>2. CASE m # k
        <4>1. \A i : ~StartAt(<<msg>>, m, i)
          <5>1. DOMAIN <<msg>> = {1} /\ <<msg>>[1] = msg
            BY SMT
          <5> QED BY <3>2, <5>1 DEF StartAt
        <4> HIDE DEF q, p, ls
        <4> QED BY <2>1, <4>1, OthersEnd
      <3> QED BY <3>1, <3>2
    <2> HIDE DEF q, p, ls
    <2>3. /\ Sound(p, ls, m, top) /\ Keeps(q, ls, m, p)
          /\ \A n : \A w \in Nat : Heard(p, ls, n, w) =>
                Heard(q, ls, n, w) \/ (n = msg.from /\ \E v \in Nat : Has(q, ls, v) /\ w <= v)
          /\ m = msg.from => \A w \in Nat : Reaches(q, ls, w) => Knows(p, ls, m, w)
      BY <2>1, <2>2, StartEnd
    <2> QED BY <2>3 DEF q, p, ls
  <1>3. ASSUME NEW n \in Nodes
        PROVE  Sound(next[n], rec[n], n, top) /\ Keeps(box[n], rec[n], n, next[n])
    <2>1. CASE n \in T
      BY <1>2, <2>1
    <2>2. CASE n \notin T
      BY <1>1, <2>2 DEF Keeps
    <2> QED BY <2>1, <2>2
  <1>4. ASSUME NEW n \in Nodes, NEW m \in Nodes, NEW w \in Nat, <<n, m>> \in pairs, Has(next[m], rec[m], w)
        PROVE  Reaches(next[n], rec[n], w)
    <2>1. Keeps(box[n], rec[n], n, next[n]) /\ Keeps(box[m], rec[m], m, next[m])
      BY <1>3
    <2>2. Has(box[m], rec[m], w)
      BY <1>4, <2>1 DEF Keeps
    <2>3. Reaches(box[n], rec[n], w)
      BY <1>4, <2>2 DEF Told
    <2> QED BY <2>1, <2>3 DEF Keeps
  <1>5. ASSUME NEW n \in Nodes, NEW m \in Nodes, NEW w \in Nat, Heard(next[m], rec[m], n, w)
        PROVE  Knows(next[n], rec[n], n, w)
    <2>1. CASE Heard(box[m], rec[m], n, w)
      <3>1. Knows(box[n], rec[n], n, w)
        BY <2>1 DEF Told
      <3>2. Keeps(box[n], rec[n], n, next[n])
        BY <1>3
      <3> QED BY <3>1, <3>2 DEF Keeps
    <2>2. CASE ~Heard(box[m], rec[m], n, w)
      <3>1. m \in T
        BY <1>5, <2>2
      <3>2. n = k /\ \E v \in Nat : Has(box[m], rec[m], v) /\ w <= v
        BY <1>2, <1>5, <2>2, <3>1
      <3>3. PICK v \in Nat : Has(box[m], rec[m], v) /\ w <= v
        BY <3>2
      <3>4. Reaches(box[k], rec[k], v)
        BY <3>1, <3>3 DEF Told
      <3>5. Reaches(box[k], rec[k], w)
        <4>1. Newest(rec[k]) \in Nat /\ \A i : ConfchgAt(box[k], i) => box[k][i].view \in Nat
          BY <1>1, EventFields, ChangeFields
        <4>2. \A u \in Nat : u >= v => u >= w
          BY <3>3, SMT
        <4> QED BY <3>4, <4>1, <4>2 DEF Reaches
      <3>6. Knows(next[k], rec[k], k, w)
        BY <1>2, <3>5
      <3> QED BY <3>2, <3>6
    <2> QED BY <2>1, <2>2
  <1> QED BY <1>1, <1>3, <1>4, <1>5 DEF Told

\* The confchgs ev[m], numbered high, are queued to the nodes m of T, and none else.
Posted(box, rec, T, ev, high, next) ==
    /\ \A m \in T : /\ rec[m].present /\ ev[m] \in Confchg /\ ev[m].view = high
                    /\ m \in ev[m].members \/ (m \in ev[m].left /\ rec[m].leaving)
    /\ \A m \in Nodes : next[m] = IF m \in T THEN Append(box[m], ev[m]) ELSE box[m]

\* Who is paired with one of T is one of T.
PairsLeft(pairs, T, still) ==
    \A n, m \in Nodes : <<n, m>> \in still => n \in T \/ (m \notin T /\ <<n, m>> \in pairs)

\* CPG delivers the confchg number high to the nodes T; whoever is in one part of the group
\* with one of them gets it, too.
LEMMA PostTold ==
    ASSUME NEW box, NEW rec, NEW pairs, NEW top, Told(box, rec, pairs, top),
           NEW T \in SUBSET Nodes, NEW ev, NEW high \in Nat, top < high,
           NEW next \in [Nodes -> Seq(Events)], Posted(box, rec, T, ev, high, next),
           NEW still, PairsLeft(pairs, T, still)
    PROVE  Told(next, rec, still, high)
  <1> USE DEF Posted, PairsLeft
  <1>1. /\ box \in [Nodes -> Seq(Events)] /\ rec \in [Nodes -> Lockspace] /\ top \in Nat
        /\ \A n \in Nodes : Sound(box[n], rec[n], n, top)
    BY DEF Told
  <1>0. top <= high /\ high <= high
    BY <1>1, SMT
  <1>2. ASSUME NEW m \in T
        PROVE  /\ Sound(next[m], rec[m], m, high)
               /\ \A w \in Nat : w <= top /\ Knows(box[m], rec[m], m, w) => Knows(next[m], rec[m], m, w)
               /\ \A n : \A w \in Nat : Heard(next[m], rec[m], n, w) => Heard(box[m], rec[m], n, w)
               /\ \A w \in Nat : w <= high => Reaches(next[m], rec[m], w)
               /\ \A w \in Nat : Has(next[m], rec[m], w) => w <= high
    <2> DEFINE q == box[m]
               p == next[m]
               ls == rec[m]
               cc == ev[m]
    <2>1. /\ Sound(q, ls, m, top) /\ ls.present /\ cc \in Confchg /\ cc.view = high
          /\ m \in cc.members \/ (m \in cc.left /\ ls.leaving)
          /\ p = Append(q, cc)
      BY <1>1
    <2> HIDE DEF q, p, ls, cc
    <2>2. top < cc.view /\ cc.view <= high
      BY <1>0, <2>1
    <2>3. /\ Sound(p, ls, m, high)
          /\ \A w \in Nat : w <= top /\ Knows(q, ls, m, w) => Knows(p, ls, m, w)
          /\ \A n : \A w \in Nat : Heard(p, ls, n, w) => Heard(q, ls, n, w)
          /\ \A w \in Nat : w <= cc.view => Reaches(p, ls, w)
          /\ \A w \in Nat : Has(p, ls, w) => w <= cc.view
      BY <1>1, <2>1, <2>2, ConfchgEnd
    <2> QED BY <2>1, <2>3 DEF q, p, ls
  <1>3. ASSUME NEW n \in Nodes PROVE Sound(next[n], rec[n], n, high)
    <2>1. CASE n \in T
      BY <1>2, <2>1
    <2>2. CASE n \notin T
      BY <1>0, <1>1, <2>2, Raise
    <2> QED BY <2>1, <2>2
  <1>4. ASSUME NEW n \in Nodes, NEW m \in Nodes, NEW w \in Nat, <<n, m>> \in still, Has(next[m], rec[m], w)
        PROVE  Reaches(next[n], rec[n], w)
    <2>1. CASE n \in T
      <3>1. w <= high
        <4>1. Sound(next[m], rec[m], m, high)
          BY <1>3
        <4> QED BY <1>4, <4>1, Bounds
      <3> QED BY <1>2, <2>1, <3>1
    <2>2. CASE n \notin T
      <3>1. m \notin T /\ <<n, m>> \in pairs
        BY <1>4, <2>2
      <3> QED BY <1>4, <2>2, <3>1 DEF Told
    <2> QED BY <2>1, <2>2
  <1>5. ASSUME NEW n \in Nodes, NEW m \in Nodes, NEW w \in Nat, Heard(next[m], rec[m], n, w)
        PROVE  Knows(next[n], rec[n], n, w)
    <2>1. Heard(box[m], rec[m], n, w)
      BY <1>2, <1>5
    <2>2. w <= top
      <3>1. Sound(box[m], rec[m], m, top)
        BY <1>1
      <3> QED BY <1>1, <2>1, <3>1, Bounds
    <2>3. Knows(box[n], rec[n], n, w)
      BY <2>1 DEF Told
    <2> QED BY <1>2, <2>2, <2>3
  <1> QED BY <1>1, <1>3, <1>4, <1>5 DEF Told

-----------------------------------------------------------------------------
(* The steps of the system *)

\* n sends the start message of its newest change: the first one for it, so that its own
\* copy is behind those of older changes.
LEMMA SendOwn ==
    ASSUME NEW q, NEW ls, NEW new, NEW n \in Nodes, NEW top, NEW out, Sound(q, ls, n, top),
           Sound(q, new, n, top), SendsStart(n, ls, new, out),
           NEW msg, msg = send_info(n, ls, "start"), NEW p, Ends(q, <<msg>>, p),
           NEW j, StartAt(p, n, j)
    PROVE  OwnStart(p, new, n, j)
  <1> DEFINE e == Len(q) + 1
  <1>0. /\ q \in Seq(Events) /\ ls \in Lockspace /\ Own(q, ls, n) /\ Numbered(ls, top)
        /\ new \in Lockspace /\ Own(q, new, n) /\ Numbered(new, top)
    BY DEF Sound, Ordered
  <1>1. /\ ls.changes # <<>> /\ ls.changes[1].state = "conditions" /\ 1 \in DOMAIN ls.changes
        /\ new.changes[1].state = "messages" /\ new.changes[1].view = ls.changes[1].view
        /\ new.changes[1].members = ls.changes[1].members
        /\ Counts(new.changes[1]) = Counts(ls.changes[1])
        /\ new.changes[1].start = ls.changes[1].start
        /\ 1 \in DOMAIN new.changes /\ ls.changes[1].view \in Nat
    <2>1. /\ ls.changes # <<>> /\ ls.changes[1].state = "conditions"
          /\ new.changes[1].state = "messages" /\ Len(new.changes) = Len(ls.changes)
      BY DEF SendsStart, SameList
    <2>2. /\ 1 \in DOMAIN ls.changes /\ DOMAIN ls.changes = 1 .. Len(ls.changes)
          /\ DOMAIN new.changes = 1 .. Len(new.changes) /\ ls.changes[1].view \in Nat
      BY <1>0, <2>1, ChangeFields
    <2> QED BY <2>1, <2>2 DEF SendsStart, SameList, SameStarts
  <1>2. /\ msg.type = "start" /\ msg.from = n /\ msg.ids = ls.changes[1].members
        /\ msg.counts = Counts(ls.changes[1]) /\ msg.view = ls.changes[1].view
    BY DEF send_info
  <1>3. /\ \A i \in DOMAIN q : i \in DOMAIN p /\ p[i] = q[i] /\ i < e /\ i \in Nat
        /\ \A i \in DOMAIN p : i \in DOMAIN q \/ i = e
        /\ e \in DOMAIN p /\ p[e] = msg /\ e \in Nat /\ ~(e < e)
    <2>1. DOMAIN <<msg>> = {1} /\ <<msg>>[1] = msg
      BY SMT
    <2>2. \A i \in DOMAIN q : i < e /\ i \in Nat /\ ~(e < i)
      BY <1>0, SMT
    <2>3. e \in Nat /\ ~(e < e)
      BY <1>0, SMT
    <2> QED BY <2>1, <2>2, <2>3 DEF Ends
  <1> HIDE DEF e
  <1>4. /\ \A l : StartAt(p, n, l) <=> l = e \/ StartAt(q, n, l)
        /\ \A l : StartAt(q, n, l) => p[l] = q[l] /\ l < e /\ l \in Nat
    BY <1>2, <1>3 DEF StartAt
  <1>5. CASE StartAt(q, n, j)
    <2>1. OwnStart(q, ls, n, j) /\ OwnStart(q, new, n, j) /\ p[j] = q[j]
      BY <1>0, <1>4, <1>5 DEF Own
    <2>2. q[j].view < msg.view
      <3>1. PICK k \in DOMAIN ls.changes : ls.changes[k].view = q[j].view
        BY <2>1 DEF OwnStart
      <3>2. q[j].view # ls.changes[1].view
        BY <1>1, <2>1 DEF OwnStart
      <3>3. q[j].view <= ls.changes[1].view /\ q[j].view \in Nat
        BY <1>0, <3>1, ListViews, ChangeFields
      <3> QED BY <1>1, <1>2, <3>2, <3>3, SMT
    <2>3. ASSUME NEW l, j < l, StartAt(p, n, l) PROVE p[j].view < p[l].view
      <3>1. CASE l = e
        BY <1>3, <2>1, <2>2, <3>1
      <3>2. CASE StartAt(q, n, l)
        BY <1>4, <2>1, <2>3, <3>2 DEF OwnStart
      <3> QED BY <1>4, <2>3, <3>1, <3>2
    <2> QED BY <2>1, <2>3 DEF OwnStart
  <1>6. CASE j = e
    <2>1. p[j] = msg
      BY <1>3, <1>6
    <2>2. n \in ls.changes[1].members /\ n \notin ls.changes[1].start
      BY <1>0, <1>1 DEF Own
    <2>3. match_change(n, new.changes[1], msg)
      BY <1>1, <1>2, <2>2 DEF match_change
    <2>4. ASSUME NEW k \in DOMAIN new.changes, n \in new.changes[k].start
          PROVE  new.changes[k].view < msg.view
      <3>1. k # 1 /\ k \in 1 .. Len(new.changes) /\ Len(new.changes) \in Nat
        BY <1>0, <1>1, <2>2, <2>4, ChangeFields
      <3>2. 1 < k
        BY <3>1, SMT
      <3> QED BY <1>0, <1>1, <1>2, <2>4, <3>2 DEF Numbered
    <2>5. ASSUME NEW l, j < l, StartAt(p, n, l) PROVE FALSE
      <3>1. CASE l = e
        BY <1>3, <1>6, <2>5, <3>1
      <3>2. CASE StartAt(q, n, l)
        <4>1. l < e /\ e < l /\ l \in Nat /\ e \in Nat
          BY <1>3, <1>4, <1>6, <2>5, <3>2
        <4> QED BY <4>1, SMT
      <3> QED BY <1>4, <2>5, <3>1, <3>2
    <2> QED BY <1>1, <1>2, <2>1, <2>3, <2>4, <2>5 DEF OwnStart
  <1> QED BY <1>4, <1>5, <1>6

\* n and m are in one part of the group.
Pairs == {p \in cpg \X cpg : (p[1] \in away) = (p[2] \in away)}

SameInv == Inv /\ Grouped /\ Told(inbox, lsp, Pairs, view)

\* Two nodes are a pair when they are in one part of the group.
LEMMA InPairs ==
    ASSUME NEW n, NEW m
    PROVE  /\ <<n, m>> \in Pairs <=> n \in cpg /\ m \in cpg /\ ((n \in away) = (m \in away))
           /\ <<n, m>> \in Pairs' <=> n \in cpg' /\ m \in cpg' /\ ((n \in away') = (m \in away'))
  BY SMT DEF Pairs

\* So are a node and those its messages reach, and these have a lockspace.
LEMMA GroupPairs ==
    ASSUME Inv, Grouped, NEW k \in Nodes
    PROVE  /\ \A m : m \in Group(k) <=> m \in cpg /\ ((m \in away) = (k \in away))
           /\ \A m \in Nodes : m \in cpg => lsp[m].present
           /\ Group(k) \in SUBSET Nodes
  BY DEF Group, SameSide, Inv, TypeOK, Grouped

\* What a run of apply_changes on k does with changes and start messages.
LEMMA ApplyMoves ==
    ASSUME Inv, NEW k \in Nodes, NEW ls \in Lockspace, NEW rest \in Seq(Events),
           ApplyChanges(k, ls, rest)
    PROVE  \E new \in Lockspace, out \in Seq(Events) :
              /\ lsp' = [lsp EXCEPT ![k] = new]
              /\ inbox' = Multicast([inbox EXCEPT ![k] = rest], k, out)
              /\ NoConfchg(out)
              /\ Waits(ls, new, out) \/ SendsStart(k, ls, new, out) \/ StartsNewest(ls, new, out)
  <1>1. PICK env \in Envs(k) :
            /\ lsp' = [lsp EXCEPT ![k] = apply_changes(k, ls, poll[k], env).ls]
            /\ inbox' = Multicast([inbox EXCEPT ![k] = rest], k,
                                  apply_changes(k, ls, poll[k], env).out)
    BY DEF ApplyChanges
  <1> DEFINE r == apply_changes(k, ls, poll[k], env)
  <1>2. poll[k] \in Poll /\ env \in Env
    BY <1>1, EnvType DEF Inv, TypeOK
  <1>3. r.ls \in Lockspace /\ r.out \in Seq(Message)
    BY <1>2, ApplyType
  <1>4. Waits(ls, r.ls, r.out) \/ SendsStart(k, ls, r.ls, r.out) \/ StartsNewest(ls, r.ls, r.out)
    BY <1>2, ApplySend
  <1> HIDE DEF r
  <1>5. r.out \in Seq(Events)
    BY <1>3, SMT DEF Events
  <1>6. NoConfchg(r.out)
    <2>1. \A i \in DOMAIN r.out : r.out[i] \in Message
      BY <1>3, SMT
    <2>2. \A msg \in Message : msg.type # "confchg"
      BY DEF Message
    <2> QED BY <2>1, <2>2 DEF NoConfchg
  <1>7. lsp' = [lsp EXCEPT ![k] = r.ls] /\ inbox' = Multicast([inbox EXCEPT ![k] = rest], k, r.out)
    BY <1>1 DEF r
  <1> QED BY <1>3, <1>4, <1>5, <1>6, <1>7

\* apply_changes on k, after k has taken an event from its queue.
LEMMA ApplyTold ==
    ASSUME Inv, Grouped, NEW k \in Nodes, NEW ls \in Lockspace, NEW rest \in Seq(Events),
           ApplyChanges(k, ls, rest), ls.present = lsp[k].present,
           Told([inbox EXCEPT ![k] = rest], [lsp EXCEPT ![k] = ls], Pairs, view)
    PROVE  Told(inbox', lsp', Pairs', view')
  <1>1. PICK new \in Lockspace, out \in Seq(Events) :
              /\ lsp' = [lsp EXCEPT ![k] = new]
              /\ inbox' = Multicast([inbox EXCEPT ![k] = rest], k, out)
              /\ NoConfchg(out)
              /\ Waits(ls, new, out) \/ SendsStart(k, ls, new, out) \/ StartsNewest(ls, new, out)
    BY ApplyMoves
  <1>2. UNCHANGED <<cpg, away, view>>
    BY DEF ApplyChanges, history
  <1>3. Pairs' = Pairs /\ view' = view
    BY <1>2 DEF Pairs
  <1> DEFINE box == [inbox EXCEPT ![k] = rest]
             old == [lsp EXCEPT ![k] = ls]
             rec == [lsp EXCEPT ![k] = new]
             next == Multicast(box, k, out)
  <1>4. /\ inbox \in [Nodes -> Seq(Events)] /\ lsp \in [Nodes -> Lockspace]
        /\ box \in [Nodes -> Seq(Events)] /\ view \in Nat
        /\ rec = [old EXCEPT ![k] = new] /\ box[k] = rest /\ old[k] = ls /\ rec[k] = new
        /\ box = [box EXCEPT ![k] = rest]
        /\ \A m \in Nodes : m # k => rec[m] = lsp[m]
    BY DEF Inv, TypeOK
  <1>5. new.present = ls.present
    BY <1>1 DEF Waits, SendsStart, StartsNewest, SameList
  <1>6. \A m \in Group(k) : m \in Nodes /\ m \in cpg /\ rec[m].present /\ ((m \in away) = (k \in away))
    <2>1. \A m \in Group(k) : m \in Nodes /\ m \in cpg /\ lsp[m].present /\ ((m \in away) = (k \in away))
      BY GroupPairs
    <2> QED BY <1>4, <1>5, <2>1
  <1>7. next \in [Nodes -> Seq(Events)]
    <2>1. \A m \in Nodes : box[m] \o out \in Seq(Events)
      <3> HIDE DEF box
      <3> QED BY <1>4, SMT
    <2> QED BY <1>4, <2>1 DEF Multicast
  <1> HIDE DEF box, old, rec, next
  <1>8. Told(box, old, Pairs, view)
    BY DEF box, old
  <1>9. Sound(rest, ls, k, view)
    <2>1. Sound(box[k], old[k], k, view)
      BY <1>8 DEF Told
    <2> QED BY <1>4, <2>1
  <1>10. Sound(rest, new, k, view) /\ Steady(rest, ls, k, rest, new)
    <2>1. CASE StartsNewest(ls, new, out)
      <3>1. StartedFrom(ls, new) /\ new.leaving = ls.leaving
        BY <2>1 DEF StartsNewest
      <3> QED BY <1>4, <1>5, <1>9, <3>1, StartSteady
    <2>2. CASE Waits(ls, new, out) \/ SendsStart(k, ls, new, out)
      <3>1. ls.changes # <<>> => 1 \in 1 .. Len(ls.changes)
        BY SMT DEF Lockspace
      <3>2. Flagged(ls, new)
        BY <2>2, <3>1 DEF Waits, SendsStart, SameList, SameStarts, SameStates, Flagged
      <3> QED BY <1>9, <3>2, FlaggedSteady
    <2> QED BY <1>1, <2>1, <2>2
  <1>11. Told(box, rec, Pairs, view)
    <2>1. Steady(box[k], old[k], k, rest, new)
      BY <1>4, <1>10
    <2>2. Told([box EXCEPT ![k] = rest], [old EXCEPT ![k] = new], Pairs, view)
      BY <1>8, <1>10, <2>1, OneTold
    <2> QED BY <1>4, <2>2
  <1>12. Told(next, rec, Pairs, view)
    <2>1. CASE k \notin cpg
      <3>1. next = box
        BY <1>4, <2>1 DEF next, Multicast
      <3> QED BY <1>11, <3>1
    <2>2. CASE k \in cpg
      <3>0. ASSUME NEW m \in Nodes
            PROVE  /\ m \in Group(k) => Ends(box[m], out, next[m])
                   /\ next[m] = IF m \in Group(k) THEN box[m] \o out ELSE box[m]
        <4>1. next[m] = IF m \in Group(k) THEN box[m] \o out ELSE box[m]
          BY <1>4, <2>2 DEF next, Multicast
        <4>2. Ends(box[m], out, box[m] \o out)
          BY <1>4, AtEnd
        <4> QED BY <4>1, <4>2
      <3>00. rec \in [Nodes -> Lockspace] /\ \A m \in Nodes : Sound(box[m], rec[m], m, view)
        BY <1>11 DEF Told
      <3>1. CASE NoStart(out)
        <4>1. ASSUME NEW m \in Nodes
              PROVE  Sound(next[m], rec[m], m, view) /\ Steady(box[m], rec[m], m, next[m], rec[m])
          <5>1. CASE m \in Group(k)
            <6>1. next[m] = box[m] \o out /\ rec[m].present /\ Sound(box[m], rec[m], m, view)
              BY <1>6, <3>0, <3>00, <5>1
            <6> QED BY <1>1, <3>1, <6>1, QuietEnd
          <5>2. CASE m \notin Group(k)
            BY <3>0, <3>00, <5>2, SteadySame
          <5> QED BY <5>1, <5>2
        <4> QED BY <1>7, <1>11, <3>00, <4>1, SteadyTold
      <3>2. CASE SendsStart(k, ls, new, out)
        <4> DEFINE msg == send_info(k, ls, "start")
        <4>1. out = <<msg>> /\ ls.changes # <<>>
          BY <3>2 DEF SendsStart
        <4>2. msg \in Message
          BY <4>1, MessageType
        <4>3. msg.type = "start" /\ msg.from = k
          BY DEF send_info
        <4>4. SentTo(box, Group(k), <<msg>>, next)
          BY <3>0, <4>1 DEF SentTo
        <4>5. k \in Group(k) /\ Group(k) \in SUBSET Nodes
          BY <2>2, GroupPairs
        <4>6. PairedTo(rec, Pairs, k, Group(k))
          BY <1>6, <2>2, InPairs DEF PairedTo
        <4>7. OwnStarts(next[k], rec[k], k)
          <5> SUFFICES ASSUME NEW j, StartAt(next[k], k, j) PROVE OwnStart(next[k], rec[k], k, j)
            BY DEF OwnStarts
          <5> DEFINE p == next[k]
          <5>1. Ends(rest, <<msg>>, p) /\ StartAt(p, k, j)
            BY <1>4, <4>4, <4>5 DEF SentTo
          <5> HIDE DEF p
          <5>2. OwnStart(p, new, k, j)
            BY <1>9, <1>10, <3>2, <5>1, SendOwn
          <5> QED BY <1>4, <5>2 DEF p
        <4> HIDE DEF msg
        <4> QED BY <1>7, <1>11, <4>2, <4>3, <4>4, <4>5, <4>6, <4>7, SendTold
      <3> QED BY <1>1, <3>1, <3>2 DEF Waits, StartsNewest
    <2> QED BY <2>1, <2>2
  <1>13. inbox' = next /\ lsp' = rec
    BY <1>1 DEF next, rec, box
  <1> QED BY <1>3, <1>12, <1>13

\* What one node does by itself keeps what the nodes were told.
LEMMA DaemonTold ==
    ASSUME SameInv, NEW k \in Nodes, DaemonStep(k)
    PROVE  Told(inbox', lsp', Pairs', view')
  <1>0. /\ Inv /\ Grouped /\ Told(inbox, lsp, Pairs, view)
        /\ lsp \in [Nodes -> Lockspace] /\ inbox \in [Nodes -> Seq(Events)] /\ now \in Nat
        /\ lsp[k] \in Lockspace /\ inbox[k] \in Seq(Events) /\ view \in Nat
    BY DEF SameInv, Inv, TypeOK
  <1>00. PICK q : q = inbox[k]
    OBVIOUS
  <1>01. PICK old : old = lsp[k]
    OBVIOUS
  <1>02. Sound(q, old, k, view) /\ q \in Seq(Events) /\ old \in Lockspace
    BY <1>0, <1>00, <1>01 DEF Told
  <1>03. ASSUME NEW p, NEW ls, Sound(p, ls, k, view), Steady(q, old, k, p, ls)
         PROVE  Told([inbox EXCEPT ![k] = p], [lsp EXCEPT ![k] = ls], Pairs, view)
    BY <1>0, <1>00, <1>01, <1>03, OneTold
  <1>1. CASE DeliverConfchg(k)
    <2>1. PICK ls : ls = confchg_cb(k, old, Head(q))
      OBVIOUS
    <2>2. /\ Head(q) \in Confchg /\ Tail(q) \in Seq(Events) /\ q # <<>>
          /\ Head(q).type = "confchg" /\ ~(old.leaving /\ k \in Head(q).left)
          /\ ApplyChanges(k, ls, Tail(q))
      BY <1>0, <1>00, <1>01, <1>1, <2>1, HeadType DEF DeliverConfchg, OurLeave, Inv
    <2>3. ls.present = old.present
      BY <1>02, <2>1, <2>2, ConfchgKeep, SMT
    <2>4. Sound(Tail(q), ls, k, view) /\ Steady(q, old, k, Tail(q), ls)
      BY <1>0, <1>02, <2>1, <2>2, ConfchgSteady
    <2>5. Told([inbox EXCEPT ![k] = Tail(q)], [lsp EXCEPT ![k] = ls], Pairs, view)
      BY <1>03, <2>4
    <2>6. ls \in Lockspace
      BY <2>4 DEF Sound
    <2> QED BY <1>0, <1>01, <2>2, <2>3, <2>5, <2>6, ApplyTold
  <1>2. CASE DeliverLeave(k)
    <2>1. /\ lsp' = [lsp EXCEPT ![k] = NoLockspace] /\ inbox' = [inbox EXCEPT ![k] = <<>>]
          /\ UNCHANGED <<cpg, away, view>> /\ lsp[k].leaving
      BY <1>2 DEF DeliverLeave, OurLeave
    <2>2. k \notin cpg
      BY <1>0, <2>1 DEF Grouped
    <2>3. \A n : <<n, k>> \notin Pairs /\ <<k, n>> \notin Pairs
      BY <2>2, InPairs
    <2>4. NoLockspace \in Lockspace /\ NoLockspace.changes = <<>> /\ NoLockspace.started_change = NoChange
      BY NoLockspaceType DEF NoLockspace
    <2>5. Told([inbox EXCEPT ![k] = <<>>], [lsp EXCEPT ![k] = NoLockspace], Pairs, view)
      BY <1>0, <2>3, <2>4, ResetTold
    <2> QED BY <2>1, <2>5 DEF Pairs
  <1>3. CASE DeliverMessage(k)
    <2>1. PICK ls : ls = deliver_cb(k, old, Head(q), now)
      OBVIOUS
    <2>2. /\ Head(q) \in Message /\ Tail(q) \in Seq(Events) /\ q # <<>>
          /\ Head(q).type # "confchg" /\ ApplyChanges(k, ls, Tail(q))
      BY <1>0, <1>00, <1>01, <1>3, <2>1, HeadType DEF DeliverMessage, Inv
    <2>3. /\ ls \in Lockspace /\ SameList(old, ls) /\ SameStates(old, ls)
          /\ Counted(k, old, Head(q), ls)
      BY <1>0, <1>02, <2>1, <2>2, DeliverList
    <2>4. Sound(Tail(q), ls, k, view) /\ Steady(q, old, k, Tail(q), ls)
      BY <1>0, <1>02, <2>2, <2>3, MessageSteady
    <2>5. Told([inbox EXCEPT ![k] = Tail(q)], [lsp EXCEPT ![k] = ls], Pairs, view)
      BY <1>03, <2>4
    <2>6. ls.present = old.present
      BY <2>3 DEF SameList
    <2> QED BY <1>0, <1>01, <2>2, <2>3, <2>5, <2>6, ApplyTold
  <1>4. CASE SkipGap(k)
    <2>1. /\ q # <<>> /\ Head(q).type # "confchg"
          /\ inbox' = [inbox EXCEPT ![k] = Tail(q)] /\ lsp' = [lsp EXCEPT ![k] = old]
          /\ UNCHANGED <<cpg, away, view>>
      BY <1>0, <1>00, <1>01, <1>4 DEF SkipGap, history
    <2>2. SameList(old, old) /\ SameStates(old, old) /\ Counted(k, old, Head(q), old)
      BY DEF SameList, SameStates, Counted
    <2>3. Sound(Tail(q), old, k, view) /\ Steady(q, old, k, Tail(q), old)
      BY <1>0, <1>02, <2>1, <2>2, MessageSteady
    <2>4. Told([inbox EXCEPT ![k] = Tail(q)], [lsp EXCEPT ![k] = old], Pairs, view)
      BY <1>03, <2>3
    <2> QED BY <2>1, <2>4 DEF Pairs
  <1>5. CASE ProcessLockspaceChanges(k)
    <2>1. ApplyChanges(k, old, q)
      BY <1>00, <1>01, <1>5 DEF ProcessLockspaceChanges
    <2>2. Told([inbox EXCEPT ![k] = q], [lsp EXCEPT ![k] = old], Pairs, view)
      BY <1>02, <1>03, SteadySame
    <2> QED BY <1>0, <1>01, <1>02, <2>1, <2>2, ApplyTold
  <1>6. CASE QuorumCallback(k)
    BY <1>0, <1>6 DEF QuorumCallback, Pairs, history
  <1>7. ASSUME NEW h \in Nodes, FsNotified(k, h) PROVE Told(inbox', lsp', Pairs', view')
    <2>1. PICK new : new = set_fs_notified(old, h)
      OBVIOUS
    <2>2. /\ lsp' = [lsp EXCEPT ![k] = new] /\ inbox' = [inbox EXCEPT ![k] = q]
          /\ UNCHANGED <<cpg, away, view>>
      BY <1>0, <1>00, <1>01, <1>7, <2>1 DEF FsNotified, history
    <2>3. new \in Lockspace
      BY <1>0, <1>01, <1>7, <2>1, FsType
    <2>4. /\ new.changes = old.changes /\ new.started_change = old.started_change
          /\ new.present = old.present /\ new.leaving = old.leaving
      BY <1>02, <2>1 DEF set_fs_notified, Lockspace
    <2>5. Flagged(old, new)
      BY <2>4 DEF Flagged
    <2>6. Sound(q, new, k, view) /\ Steady(q, old, k, q, new)
      BY <1>02, <2>3, <2>5, FlaggedSteady
    <2>7. Told([inbox EXCEPT ![k] = q], [lsp EXCEPT ![k] = new], Pairs, view)
      BY <1>03, <2>6
    <2> QED BY <2>2, <2>7 DEF Pairs
  <1> QED BY <1>1, <1>2, <1>3, <1>4, <1>5, <1>6, <1>7 DEF DaemonStep

\* Post queues a confchg with a new number to the nodes T.
LEMMA PostedTold ==
    ASSUME NEW box, NEW rec, NEW pairs, NEW top, Told(box, rec, pairs, top),
           NEW cc \in Confchg, top < cc.view, NEW extra,
           NEW T \in SUBSET Nodes, T = cc.members \cup extra,
           \A m \in T : rec[m].present /\ (m \in cc.members \/ (m \in cc.left /\ rec[m].leaving)),
           NEW still, PairsLeft(pairs, T, still)
    PROVE  Told(Post(box, cc, extra), rec, still, cc.view)
  <1> DEFINE next == Post(box, cc, extra)
             ev == [m \in T |-> cc]
  <1>1. \A m \in Nodes : next[m] = IF m \in T THEN Append(box[m], cc) ELSE box[m]
    BY DEF Post
  <1>2. \A m \in T : ev[m] = cc
    OBVIOUS
  <1>3. next \in [Nodes -> Seq(Events)] /\ cc.view \in Nat
    <2>1. box \in [Nodes -> Seq(Events)]
      BY DEF Told
    <2>2. cc.view \in Nat
      BY DEF Confchg
    <2> QED BY <2>1, <2>2, PostType
  <1> HIDE DEF next, ev
  <1>4. Posted(box, rec, T, ev, cc.view, next)
    BY <1>1, <1>2 DEF Posted
  <1>5. Told(next, rec, still, cc.view)
    BY <1>3, <1>4, PostTold
  <1> QED BY <1>5 DEF next

\* A node joins: the nodes of its part of the group get the confchg.
LEMMA JoinTold ==
    ASSUME SameInv, NEW k \in Nodes, Join(k)
    PROVE  Told(inbox', lsp', Pairs', view')
  <1>0. /\ Inv /\ Grouped /\ Told(inbox, lsp, Pairs, view)
        /\ lsp \in [Nodes -> Lockspace] /\ inbox \in [Nodes -> Seq(Events)] /\ view \in Nat
        /\ cpg \in SUBSET Nodes
    BY DEF SameInv, Inv, TypeOK
  <1>1. PICK cc : cc = Event((cpg \ away) \cup {k}, {k}, {}, {})
    OBVIOUS
  <1>2. PICK rec : rec = [lsp EXCEPT ![k] = dlm_join_lockspace(FsRegister)]
    OBVIOUS
  <1>3. PICK T : T = (cpg \ away) \cup {k}
    OBVIOUS
  <1>4. /\ ~lsp[k].present /\ k \notin away /\ lsp' = rec /\ cpg' = cpg \cup {k} /\ away' = away
        /\ view' = view + 1 /\ inbox' = Post(inbox, cc, {k})
    BY <1>1, <1>2 DEF Join
  <1>5. cc \in Confchg
    BY <1>0, <1>1, EventType DEF Inv, TypeOK
  <1>6. cc.members = T /\ cc.view = view + 1 /\ view < cc.view
    <2>1. cc.members = T /\ cc.view = view + 1
      BY <1>1, <1>3 DEF Event
    <2> QED BY <1>0, <2>1, SMT
  <1>7. /\ dlm_join_lockspace(FsRegister) \in Lockspace
        /\ dlm_join_lockspace(FsRegister).changes = <<>>
        /\ dlm_join_lockspace(FsRegister).started_change = NoChange
        /\ dlm_join_lockspace(FsRegister).present
    <2>1. dlm_join_lockspace(FsRegister) \in Lockspace
      BY JoinType, EnvAssumption
    <2> QED BY <2>1 DEF dlm_join_lockspace, NoLockspace
  <1>8. k \notin cpg /\ inbox[k] = <<>> /\ inbox = [inbox EXCEPT ![k] = <<>>]
    <2>1. Sound(inbox[k], lsp[k], k, view)
      BY <1>0 DEF Told
    <2>2. inbox[k] = <<>>
      BY <1>4, <2>1 DEF Sound
    <2> QED BY <1>0, <1>4, <2>2 DEF Grouped
  <1>9. Told(inbox, rec, Pairs, view)
    <2>1. \A n : <<n, k>> \notin Pairs /\ <<k, n>> \notin Pairs
      BY <1>8, InPairs
    <2>2. Told([inbox EXCEPT ![k] = <<>>], [lsp EXCEPT ![k] = dlm_join_lockspace(FsRegister)], Pairs, view)
      BY <1>0, <1>7, <2>1, ResetTold
    <2> QED BY <1>2, <1>8, <2>2
  <1>10. T \in SUBSET Nodes /\ T = cc.members \cup {k}
    BY <1>0, <1>3, <1>6
  <1>11. \A m \in T : rec[m].present /\ m \in cc.members
    BY <1>0, <1>2, <1>3, <1>6, <1>7 DEF Grouped
  <1>12. PairsLeft(Pairs, T, Pairs')
    <2> SUFFICES ASSUME NEW n \in Nodes, NEW m \in Nodes, <<n, m>> \in Pairs'
                 PROVE  n \in T \/ (m \notin T /\ <<n, m>> \in Pairs)
      BY DEF PairsLeft
    <2>1. n \in cpg \cup {k} /\ m \in cpg \cup {k} /\ ((n \in away) = (m \in away))
      BY <1>4, InPairs
    <2>2. CASE n \in away
      BY <1>3, <1>4, <2>1, <2>2, InPairs
    <2>3. CASE n \notin away
      BY <1>3, <2>1, <2>3
    <2> QED BY <2>2, <2>3
  <1>13. Told(Post(inbox, cc, {k}), rec, Pairs', cc.view)
    BY <1>5, <1>6, <1>9, <1>10, <1>11, <1>12, PostedTold
  <1> QED BY <1>4, <1>6, <1>13

\* A node asks to leave: it gets the confchg, too.
LEMMA LeaveTold ==
    ASSUME SameInv, NEW k \in Nodes, Leave(k)
    PROVE  Told(inbox', lsp', Pairs', view')
  <1>0. /\ Inv /\ Grouped /\ Told(inbox, lsp, Pairs, view)
        /\ lsp \in [Nodes -> Lockspace] /\ inbox \in [Nodes -> Seq(Events)] /\ view \in Nat
        /\ cpg \in SUBSET Nodes /\ lsp[k] \in Lockspace
    BY DEF SameInv, Inv, TypeOK
  <1>1. PICK cc : cc = Event(Group(k) \ {k}, {}, {k}, {})
    OBVIOUS
  <1>2. PICK new : new = [lsp[k] EXCEPT !.leaving = TRUE]
    OBVIOUS
  <1>3. PICK rec : rec = [lsp EXCEPT ![k] = new]
    OBVIOUS
  <1>4. PICK T : T = Group(k)
    OBVIOUS
  <1>5. /\ lsp[k].present /\ ~lsp[k].leaving /\ lsp' = rec /\ cpg' = cpg \ {k} /\ away' = away
        /\ view' = view + 1 /\ inbox' = Post(inbox, cc, {k})
    BY <1>1, <1>2, <1>3 DEF Leave
  <1>6. k \in cpg
    BY <1>0, <1>5 DEF Grouped
  <1>7. T \in SUBSET Nodes /\ k \in T /\ \A m : m \in T <=> m \in cpg /\ ((m \in away) = (k \in away))
    BY <1>0, <1>4, <1>6, GroupPairs
  <1>8. cc \in Confchg
    <2>1. Group(k) \ {k} \in SUBSET Nodes
      BY <1>4, <1>7
    <2> QED BY <1>0, <1>1, <2>1, EventType DEF Inv
  <1>9. cc.members = T \ {k} /\ cc.left = {k} /\ cc.view = view + 1 /\ view < cc.view
    <2>1. cc.members = T \ {k} /\ cc.left = {k} /\ cc.view = view + 1
      BY <1>1, <1>4 DEF Event
    <2> QED BY <1>0, <2>1, SMT
  <1>10. /\ new \in Lockspace /\ new.changes = lsp[k].changes /\ new.leaving
         /\ new.started_change = lsp[k].started_change /\ new.present = lsp[k].present
    <2>1. new \in Lockspace
      BY <1>0, <1>2 DEF Lockspace
    <2> QED BY <1>0, <1>2, <2>1 DEF Lockspace
  <1>11. Told(inbox, rec, Pairs, view)
    <2>1. Sound(inbox[k], lsp[k], k, view) /\ Flagged(lsp[k], new)
      BY <1>0, <1>10 DEF Told, Flagged
    <2>2. Sound(inbox[k], new, k, view) /\ Steady(inbox[k], lsp[k], k, inbox[k], new)
      BY <1>10, <2>1, FlaggedSteady
    <2>3. Told([inbox EXCEPT ![k] = inbox[k]], [lsp EXCEPT ![k] = new], Pairs, view)
      BY <1>0, <2>2, OneTold
    <2>4. inbox = [inbox EXCEPT ![k] = inbox[k]]
      BY <1>0
    <2> QED BY <1>3, <2>3, <2>4
  <1>12. T = cc.members \cup {k}
    BY <1>7, <1>9
  <1>13. \A m \in T : rec[m].present /\ (m \in cc.members \/ (m \in cc.left /\ rec[m].leaving))
    <2>1. \A m \in T : lsp[m].present
      BY <1>0, <1>7 DEF Grouped
    <2>2. \A m \in T : rec[m] = IF m = k THEN new ELSE lsp[m]
      BY <1>0, <1>3, <1>7
    <2> QED BY <1>9, <1>10, <2>1, <2>2
  <1>14. PairsLeft(Pairs, T, Pairs')
    <2> SUFFICES ASSUME NEW n \in Nodes, NEW m \in Nodes, <<n, m>> \in Pairs'
                 PROVE  n \in T \/ (m \notin T /\ <<n, m>> \in Pairs)
      BY DEF PairsLeft
    <2>1. n \in cpg /\ m \in cpg /\ ((n \in away) = (m \in away)) /\ <<n, m>> \in Pairs
      BY <1>5, InPairs
    <2> QED BY <1>7, <2>1
  <1>15. Told(Post(inbox, cc, {k}), rec, Pairs', cc.view)
    BY <1>7, <1>8, <1>9, <1>11, <1>12, <1>13, <1>14, PostedTold
  <1> QED BY <1>5, <1>9, <1>15

\* A node stops: the rest of its part of the group gets the confchg.
LEMMA StopTold ==
    ASSUME SameInv, NEW k \in Nodes, Stop(k), away' \in {away, away \ {k}}
    PROVE  Told(inbox', lsp', Pairs', view')
  <1>0. /\ Inv /\ Grouped /\ Told(inbox, lsp, Pairs, view)
        /\ lsp \in [Nodes -> Lockspace] /\ inbox \in [Nodes -> Seq(Events)] /\ view \in Nat
        /\ cpg \in SUBSET Nodes
    BY DEF SameInv, Inv, TypeOK
  <1>1. PICK cc : cc = Event(Group(k) \ {k}, {}, {k}, {k})
    OBVIOUS
  <1>2. PICK rec : rec = [lsp EXCEPT ![k] = NoLockspace]
    OBVIOUS
  <1>3. PICK box : box = [inbox EXCEPT ![k] = <<>>]
    OBVIOUS
  <1>4. PICK T : T = Group(k) \ {k}
    OBVIOUS
  <1>5. PICK still : still = Pairs'
    OBVIOUS
  <1>6. /\ lsp' = rec /\ cpg' = cpg \ {k}
        /\ view' = IF k \in cpg THEN view + 1 ELSE view
        /\ inbox' = IF k \in cpg THEN Post(box, cc, {}) ELSE box
    BY <1>1, <1>2, <1>3 DEF Stop
  <1>7. still \subseteq Pairs
    <2>1. \A n : n # k => (n \in away' <=> n \in away)
      OBVIOUS
    <2> QED BY <1>5, <1>6, <2>1, SMT DEF Pairs
  <1>8. \A n, m : <<n, m>> \in still => n # k /\ m # k /\ n \in cpg /\ m \in cpg /\ ((n \in away) = (m \in away))
    <2> SUFFICES ASSUME NEW n, NEW m, <<n, m>> \in still
                 PROVE  n # k /\ m # k /\ n \in cpg /\ m \in cpg /\ ((n \in away) = (m \in away))
      OBVIOUS
    <2>1. n \in cpg' /\ m \in cpg' /\ <<n, m>> \in Pairs
      BY <1>5, <1>7, InPairs
    <2>2. n \in cpg /\ m \in cpg /\ ((n \in away) = (m \in away))
      BY <2>1, InPairs
    <2> QED BY <1>6, <2>1, <2>2
  <1>9. Told(box, rec, still, view)
    <2>1. NoLockspace \in Lockspace /\ NoLockspace.changes = <<>> /\ NoLockspace.started_change = NoChange
      BY NoLockspaceType DEF NoLockspace
    <2>2. \A n : <<n, k>> \notin still /\ <<k, n>> \notin still
      BY <1>8
    <2> QED BY <1>0, <1>2, <1>3, <1>7, <2>1, <2>2, ResetTold
  <1>10. CASE k \notin cpg
    BY <1>5, <1>6, <1>9, <1>10
  <1>11. CASE k \in cpg
    <2>1. T \in SUBSET Nodes /\ \A m : m \in T <=> m # k /\ m \in cpg /\ ((m \in away) = (k \in away))
      BY <1>0, <1>4, GroupPairs
    <2>2. cc \in Confchg
      BY <1>0, <1>1, <1>4, <2>1, EventType DEF Inv
    <2>3. cc.members = T /\ cc.view = view + 1 /\ view < cc.view
      <3>1. cc.members = T /\ cc.view = view + 1
        BY <1>1, <1>4 DEF Event
      <3> QED BY <1>0, <3>1, SMT
    <2>4. T = cc.members \cup {}
      BY <2>3
    <2>5. \A m \in T : rec[m].present /\ m \in cc.members
      BY <1>0, <1>2, <2>1, <2>3 DEF Grouped
    <2>6. PairsLeft(still, T, still)
      <3>1. ASSUME NEW n \in Nodes, NEW m \in Nodes, <<n, m>> \in still
            PROVE  n \in T \/ (m \notin T /\ <<n, m>> \in still)
        BY <1>8, <2>1, <3>1
      <3> QED BY <3>1 DEF PairsLeft
    <2>7. Told(Post(box, cc, {}), rec, still, cc.view)
      BY <1>9, <2>1, <2>2, <2>3, <2>4, <2>5, <2>6, PostedTold
    <2> QED BY <1>5, <1>6, <1>11, <2>3, <2>7
  <1> QED BY <1>10, <1>11

\* Lose drops no start message of a node from its own queue.
LEMMA LoseTold ==
    ASSUME NEW box, NEW rec, NEW pairs, NEW top, Told(box, rec, pairs, top), NEW side, NEW lost
    PROVE  Told(Lose(box, side, lost), rec, pairs, top)
  <1>0. /\ box \in [Nodes -> Seq(Events)] /\ rec \in [Nodes -> Lockspace]
        /\ \A n \in Nodes : Sound(box[n], rec[n], n, top)
    BY DEF Told
  <1>1. PICK next : next = Lose(box, side, lost)
    OBVIOUS
  <1>2. next \in [Nodes -> Seq(Events)]
    BY <1>0, <1>1, LoseType
  <1>3. ASSUME NEW n \in Nodes
        PROVE  Sound(next[n], rec[n], n, top) /\ Steady(box[n], rec[n], n, next[n], rec[n])
    <2>1. Gapped(box[n], next[n])
      BY <1>0, <1>1, LoseIs
    <2>2. ASSUME NEW j, StartAt(box[n], n, j) PROVE next[n][j] = box[n][j]
      <3>1. j \in 1 .. Len(box[n]) /\ box[n][j].from = n
        BY <1>0, <2>2, EventFields DEF StartAt
      <3> QED BY <1>1, <3>1 DEF Lose
    <2>3. box[n] \in Seq(Events) /\ next[n] \in Seq(Events) /\ Sound(box[n], rec[n], n, top)
      BY <1>0, <1>2
    <2> QED BY <2>1, <2>2, <2>3, GapsSteady
  <1> QED BY <1>0, <1>1, <1>2, <1>3, SteadyTold

\* The network splits: each side gets its confchg.
LEMMA PartitionTold ==
    ASSUME SameInv, NEW S \in SUBSET Nodes, Partition(S)
    PROVE  Told(inbox', lsp', Pairs', view')
  <1>0. /\ Inv /\ Grouped /\ Told(inbox, lsp, Pairs, view) /\ view \in Nat /\ cpg \in SUBSET Nodes
    BY DEF SameInv, Inv, TypeOK
  <1>1. PICK lostStay, lostAway \in {FALSE, "loss" \in Allowed} :
            inbox' = Post(Post(Lose(Lose(inbox, cpg \ S, lostStay), cpg \cap S, lostAway),
                               Event(cpg \ S, {}, cpg \cap S, cpg \cap S), {}),
                          [Event(cpg \cap S, {}, cpg \ S, cpg \ S) EXCEPT !.view = view + 2], {})
    BY DEF Partition
  <1>2. PICK box : box = Lose(Lose(inbox, cpg \ S, lostStay), cpg \cap S, lostAway)
    OBVIOUS
  <1>3. PICK stay : stay = Event(cpg \ S, {}, cpg \cap S, cpg \cap S)
    OBVIOUS
  <1>4. PICK gone : gone = [Event(cpg \cap S, {}, cpg \ S, cpg \ S) EXCEPT !.view = view + 2]
    OBVIOUS
  <1>5. PICK still : still = Pairs'
    OBVIOUS
  <1>7. stay \in Confchg /\ stay.members = cpg \ S /\ stay.view = view + 1 /\ view < stay.view
    <2>1. stay \in Confchg
      BY <1>0, <1>3, EventType DEF Inv, TypeOK
    <2>2. stay.members = cpg \ S /\ stay.view = view + 1
      BY <1>3, <2>1 DEF Event
    <2> QED BY <1>0, <2>1, <2>2, SMT
  <1>8. gone \in Confchg /\ gone.members = cpg \cap S /\ gone.view = view + 2 /\ stay.view < gone.view
    <2>1. gone = [type |-> "confchg", members |-> cpg \cap S, joined |-> {},
                  left |-> cpg \ S, failed |-> cpg \ S, view |-> view + 2]
      BY <1>4, SMT DEF Event
    <2>2. view + 2 \in Nat
      BY <1>0, SMT
    <2>3. gone \in Confchg /\ gone.members = cpg \cap S /\ gone.view = view + 2
      BY <1>0, <2>1, <2>2 DEF Confchg
    <2> QED BY <1>0, <1>7, <2>3, SMT
  <1>9. /\ away = {} /\ away' = S /\ cpg' = cpg /\ lsp' = lsp /\ view' = gone.view
        /\ inbox' = Post(Post(box, stay, {}), gone, {})
    BY <1>1, <1>2, <1>3, <1>4, <1>8 DEF Partition
  <1>10. \A n, m : <<n, m>> \in still => n \in cpg /\ m \in cpg /\ (n \in S <=> m \in S) /\ <<n, m>> \in Pairs
    <2> SUFFICES ASSUME NEW n, NEW m, <<n, m>> \in still
                 PROVE  n \in cpg /\ m \in cpg /\ (n \in S <=> m \in S) /\ <<n, m>> \in Pairs
      OBVIOUS
    <2>1. n \in cpg /\ m \in cpg /\ (n \in S <=> m \in S)
      <3>1. n \in cpg' /\ m \in cpg' /\ ((n \in away') = (m \in away'))
        BY <1>5, InPairs
      <3> QED BY <1>9, <3>1, SMT
    <2>2. (n \in away) = (m \in away)
      BY <1>9, SMT
    <2> QED BY <2>1, <2>2, InPairs
  <1>11. Told(box, lsp, Pairs, view)
    <2>1. Told(Lose(inbox, cpg \ S, lostStay), lsp, Pairs, view)
      BY <1>0, LoseTold
    <2> QED BY <1>2, <2>1, LoseTold
  <1>12. \A m \in cpg : lsp[m].present
    BY <1>0 DEF Grouped
  <1>13. Told(Post(box, stay, {}), lsp, still, stay.view)
    <2>1. PairsLeft(Pairs, cpg \ S, still)
      <3>1. ASSUME NEW n \in Nodes, NEW m \in Nodes, <<n, m>> \in still
            PROVE  n \in cpg \ S \/ (m \notin cpg \ S /\ <<n, m>> \in Pairs)
        BY <1>10, <3>1
      <3> QED BY <3>1 DEF PairsLeft
    <2>2. cpg \ S \in SUBSET Nodes /\ cpg \ S = stay.members \cup {}
      BY <1>0, <1>7
    <2>3. \A m \in cpg \ S : lsp[m].present /\ m \in stay.members
      BY <1>7, <1>12
    <2> QED BY <1>7, <1>11, <2>1, <2>2, <2>3, PostedTold
  <1>14. Told(Post(Post(box, stay, {}), gone, {}), lsp, still, gone.view)
    <2>1. PairsLeft(still, cpg \cap S, still)
      <3>1. ASSUME NEW n \in Nodes, NEW m \in Nodes, <<n, m>> \in still
            PROVE  n \in cpg \cap S \/ (m \notin cpg \cap S /\ <<n, m>> \in still)
        BY <1>10, <3>1
      <3> QED BY <3>1 DEF PairsLeft
    <2>2. cpg \cap S \in SUBSET Nodes /\ cpg \cap S = gone.members \cup {}
      BY <1>0, <1>8
    <2>3. \A m \in cpg \cap S : lsp[m].present /\ m \in gone.members
      BY <1>8, <1>12
    <2> QED BY <1>8, <1>13, <2>1, <2>2, <2>3, PostedTold
  <1> QED BY <1>5, <1>9, <1>14

\* The network heals: everyone gets a confchg, or no pair is new.
LEMMA MergeTold ==
    ASSUME SameInv, Merge
    PROVE  Told(inbox', lsp', Pairs', view')
  <1>0. /\ Inv /\ Grouped /\ Told(inbox, lsp, Pairs, view) /\ view \in Nat /\ cpg \in SUBSET Nodes
        /\ inbox \in [Nodes -> Seq(Events)] /\ lsp \in [Nodes -> Lockspace]
        /\ \A n \in Nodes : Sound(inbox[n], lsp[n], n, view)
    BY DEF SameInv, Inv, TypeOK, Told
  <1>1. PICK still : still = Pairs'
    OBVIOUS
  <1>2. away' = {} /\ cpg' = cpg /\ lsp' = lsp
    BY DEF Merge
  <1>3. CASE ~(cpg \cap away # {} /\ cpg \ away # {})
    <2>1. view' = view /\ inbox' = inbox
      BY <1>3 DEF Merge
    <2>2. \A n, m \in cpg : (n \in away) = (m \in away)
      BY <1>3, SMT
    <2>3. still \subseteq Pairs
      BY <1>1, <1>2, <2>2, SMT DEF Pairs
    <2>4. \A n \in Nodes : Steady(inbox[n], lsp[n], n, inbox[n], lsp[n])
      BY SteadySame
    <2>5. Told(inbox, lsp, still, view)
      BY <1>0, <2>3, <2>4, SteadyTold
    <2> QED BY <1>1, <1>2, <2>1, <2>5
  <1>4. CASE cpg \cap away # {} /\ cpg \ away # {}
    <2>1. PICK ev : ev = [m \in Nodes |-> Event(cpg, cpg \ SameSide(m), {}, {})]
      OBVIOUS
    <2>2. PICK high \in Nat : high = view + 1 /\ view < high
      BY <1>0, SMT
    <2>3. \A m \in Nodes : ev[m] \in Confchg /\ ev[m].members = cpg /\ ev[m].view = high
      <3> SUFFICES ASSUME NEW m \in Nodes
                   PROVE  ev[m] \in Confchg /\ ev[m].members = cpg /\ ev[m].view = high
        OBVIOUS
      <3>1. ev[m] = Event(cpg, cpg \ SameSide(m), {}, {})
        BY <2>1
      <3>2. ev[m] \in Confchg
        <4>1. cpg \ SameSide(m) \in SUBSET cpg /\ {} \in SUBSET Nodes /\ {} \in SUBSET {} /\ cpg \cap {} = {}
          OBVIOUS
        <4>2. TypeOK
          BY <1>0 DEF Inv
        <4>3. Event(cpg, cpg \ SameSide(m), {}, {}) \in Confchg
          BY <1>0, <4>1, <4>2, EventType
        <4> QED BY <3>1, <4>3
      <3> QED BY <2>2, <3>1, <3>2, SMT DEF Event
    <2>4. PICK next : next = inbox'
      OBVIOUS
    <2>5. /\ view' = high
          /\ next = [m \in Nodes |-> IF m \in cpg THEN Append(inbox[m], ev[m]) ELSE inbox[m]]
      <3>1. view' = view + 1
            /\ inbox' = [m \in Nodes |->
                           IF m \in cpg THEN Append(inbox[m], Event(cpg, cpg \ SameSide(m), {}, {})) ELSE inbox[m]]
        BY <1>4 DEF Merge
      <3> QED BY <2>1, <2>2, <2>4, <3>1
    <2>6. next \in [Nodes -> Seq(Events)]
      <3>1. ASSUME NEW m \in Nodes PROVE Append(inbox[m], ev[m]) \in Seq(Events)
        BY <1>0, <2>3, SMT DEF Events
      <3> QED BY <1>0, <2>5, <3>1
    <2>7. Posted(inbox, lsp, cpg, ev, high, next)
      <3>1. \A m \in cpg : lsp[m].present /\ m \in Nodes
        BY <1>0 DEF Grouped
      <3>2. \A m \in Nodes : next[m] = IF m \in cpg THEN Append(inbox[m], ev[m]) ELSE inbox[m]
        BY <2>5
      <3> QED BY <2>3, <3>1, <3>2 DEF Posted
    <2>8. PairsLeft(Pairs, cpg, still)
      <3>1. ASSUME NEW n, NEW m, <<n, m>> \in still PROVE n \in cpg
        BY <1>1, <1>2, <3>1, InPairs
      <3> QED BY <3>1 DEF PairsLeft
    <2>9. Told(next, lsp, still, high)
      BY <1>0, <2>2, <2>6, <2>7, <2>8, PostTold
    <2> QED BY <1>1, <1>2, <2>4, <2>5, <2>9
  <1> QED BY <1>3, <1>4

\* Initially no node was told anything.
LEMMA InitSame == Init => SameInv
  <1> SUFFICES ASSUME Init PROVE SameInv
    OBVIOUS
  <1>1. Inv /\ Grouped
    <2>1. ~NoLockspace.present
      BY DEF NoLockspace
    <2>2. Grouped
      BY <2>1 DEF Init, Grouped
    <2> QED BY <2>2, InitInv
  <1>2. /\ inbox \in [Nodes -> Seq(Events)] /\ lsp \in [Nodes -> Lockspace] /\ view = 0 /\ view \in Nat
        /\ \A n \in Nodes : inbox[n] = <<>> /\ lsp[n] = NoLockspace
    BY <1>1 DEF Inv, TypeOK, Init
  <1>3. /\ NoLockspace \in Lockspace /\ NoLockspace.changes = <<>>
        /\ NoLockspace.started_change = NoChange /\ ~NoLockspace.present
    BY NoLockspaceType DEF NoLockspace
  <1>4. NoChange.members = {} /\ NoChange.view = 0 /\ NoChange.start = {} /\ 0 <= 0
    BY SMT DEF NoChange
  <1>5. DOMAIN <<>> = {} /\ <<>> \in Seq(Events)
    BY SMT
  <1>6. \A n \in Nodes : Sound(inbox[n], lsp[n], n, view)
    BY <1>2, <1>3, <1>4, <1>5
       DEF Sound, Ordered, Numbered, Newest, Own, ConfchgAt, StartAt
  <1>7. \A n, m \in Nodes : \A w \in Nat : Heard(inbox[m], lsp[m], n, w) => Knows(inbox[n], lsp[n], n, w)
    BY <1>2, <1>3 DEF Knows
  <1>8. \A n, m \in Nodes : <<n, m>> \notin Pairs
    <2>1. cpg = {}
      BY DEF Init
    <2> QED BY <2>1, InPairs
  <1>9. Told(inbox, lsp, Pairs, view)
    BY <1>2, <1>6, <1>7, <1>8 DEF Told
  <1> QED BY <1>1, <1>9 DEF SameInv

\* Every step keeps what the nodes were told.
LEMMA SameNext == SameInv /\ [Next]_vars => SameInv'
  <1> SUFFICES ASSUME SameInv, [Next]_vars PROVE SameInv'
    OBVIOUS
  <1>0. Inv /\ Grouped /\ Inv' /\ Grouped'
    BY NextInv, GroupedNext DEF SameInv
  <1>1. ASSUME NEW k \in Nodes, DaemonStep(k) PROVE Told(inbox', lsp', Pairs', view')
    BY <1>1, DaemonTold
  <1>2. ASSUME NEW k \in Nodes, Join(k) PROVE Told(inbox', lsp', Pairs', view')
    BY <1>2, JoinTold
  <1>3. ASSUME NEW k \in Nodes, Leave(k) PROVE Told(inbox', lsp', Pairs', view')
    BY <1>3, LeaveTold
  <1>4. ASSUME NEW k \in Nodes, Crash(k) PROVE Told(inbox', lsp', Pairs', view')
    <2>1. Stop(k) /\ away' \in {away, away \ {k}}
      BY <1>4 DEF Crash
    <2> QED BY <2>1, StopTold
  <1>5. ASSUME NEW k \in Nodes, Fence(k) PROVE Told(inbox', lsp', Pairs', view')
    <2>1. Stop(k) /\ away' \in {away, away \ {k}}
      BY <1>5 DEF Fence
    <2> QED BY <2>1, StopTold
  <1>6. ASSUME NEW S \in SUBSET Nodes, Partition(S) PROVE Told(inbox', lsp', Pairs', view')
    BY <1>6, PartitionTold
  <1>7. ASSUME Merge PROVE Told(inbox', lsp', Pairs', view')
    BY <1>7, MergeTold
  <1>8. ASSUME UNCHANGED <<lsp, inbox, cpg, away, view>> PROVE Told(inbox', lsp', Pairs', view')
    BY <1>8 DEF SameInv, Pairs
  <1>9. Told(inbox', lsp', Pairs', view')
    BY <1>1, <1>2, <1>3, <1>4, <1>5, <1>6, <1>7, <1>8 DEF Next, Tick, vars, history
  <1> QED BY <1>0, <1>9 DEF SameInv

\* A node m that runs with n on the change w has heard of n for w, so n's change is not
\* older.
LEMMA RunsNoOlder ==
    ASSUME SameInv, NEW n \in Nodes, NEW m \in Nodes, n \in Mates(m), m \in Mates(n)
    PROVE  /\ lsp[n].started_change.view \in Nat
           /\ lsp[n].started_change.view >= lsp[m].started_change.view
  <1>0. /\ Inv /\ Told(inbox, lsp, Pairs, view)
        /\ lsp[n] \in Lockspace /\ lsp[m] \in Lockspace /\ inbox[n] \in Seq(Events)
    BY DEF SameInv, Inv, TypeOK
  <1>1. /\ Running(lsp[n]) /\ Running(lsp[m])
        /\ n \in lsp[m].started_change.members /\ m \in lsp[n].started_change.members
    BY DEF Mates
  <1>2. /\ lsp[n].changes = <<>> /\ lsp[m].changes = <<>>
        /\ lsp[m].started_change.members \subseteq lsp[m].started_change.start
    BY <1>0, <1>1 DEF Inv, StartRules, Started, Running
  <1>3. PICK w \in Nat : w = lsp[m].started_change.view
    BY <1>0, ChangeFields
  <1>4. Newest(lsp[n]) = lsp[n].started_change.view /\ Newest(lsp[n]) \in Nat
    BY <1>0, <1>2, ChangeFields DEF Newest
  <1>5. Knows(inbox[n], lsp[n], n, w)
    <2>1. Heard(inbox[m], lsp[m], n, w)
      BY <1>1, <1>2, <1>3 DEF Heard
    <2> QED BY <1>0, <2>1 DEF Told
  <1>6. lsp[n].present
    BY <1>1 DEF Running
  <1>7. Sound(inbox[n], lsp[n], n, view)
    BY <1>0 DEF Told
  <1>8. Newest(lsp[n]) > 0
    BY <1>1, <1>4, <1>7 DEF Sound, Ordered, Numbered
  <1>9. \A j : ~StartAt(inbox[n], n, j)
    <2>1. DOMAIN lsp[n].changes = {}
      BY <1>0, <1>2, ChangeFields
    <2> QED BY <1>7, <2>1 DEF Sound, Own, OwnStart
  <1>10. Newest(lsp[n]) >= w
    <2>1. Newest(lsp[n]) # 0
      BY <1>4, <1>8, SMT
    <2> QED BY <1>5, <1>6, <1>9, <2>1 DEF Knows
  <1> QED BY <1>3, <1>4, <1>10

-----------------------------------------------------------------------------
(* The theorem *)

\* Two running kernels that count each other as members were started for the same
\* change, although a start message may be counted for another change than it was sent
\* for: a start waits for a start message of every member (start_kernel after
\* wait_messages_done), and a member's own change list is not worked off before it has
\* its own message back.
THEOREM StartedTogether == Spec => []SameChange
  <1>1. Init => SameInv
    BY InitSame
  <1>2. SameInv /\ [Next]_vars => SameInv'
    BY SameNext
  <1>3. SameInv => SameChange
    <2> SUFFICES ASSUME SameInv, NEW n \in Nodes, NEW m \in Nodes, n \in Mates(m), m \in Mates(n)
                 PROVE  lsp[n].started_change.view = lsp[m].started_change.view
      BY DEF SameChange
    <2>1. /\ lsp[n].started_change.view \in Nat
          /\ lsp[n].started_change.view >= lsp[m].started_change.view
      BY RunsNoOlder
    <2>2. /\ lsp[m].started_change.view \in Nat
          /\ lsp[m].started_change.view >= lsp[n].started_change.view
      BY RunsNoOlder
    <2> QED BY <2>1, <2>2, SMT
  <1> QED BY <1>1, <1>2, <1>3, PTL DEF Spec

=============================================================================
