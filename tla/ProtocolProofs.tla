--------------------------- MODULE ProtocolProofs ---------------------------
(***************************************************************************)
(* The safety of the negotiation for any nodes, versions, joins and        *)
(* failures.                                                               *)
(***************************************************************************)
EXTENDS Protocol, SequenceTheorems, WellFoundedInduction, TLAPS

-----------------------------------------------------------------------------
(* pick_min_protocol *)

\* A set of natural numbers that is not empty has a least element, which Least returns.
LEMMA LeastIsLeast ==
    ASSUME NEW S, S \subseteq Nat, S # {}
    PROVE  Least(S) \in S /\ \A j \in S : Least(S) <= j
<1> DEFINE R == {ss \in Nat \X Nat : ss[1] < ss[2]}
<1>1. IsWellFoundedOn(R, Nat)
  BY NatLessThanWellFounded DEF OpToRel
<1>2. \E x \in S : \A y \in S : <<y, x>> \notin R
  <2> HIDE DEF R
  <2> QED
    BY <1>1, WFMin
<1>3. PICK x \in S : \A y \in S : <<y, x>> \notin R
  BY <1>2
<1>4. ASSUME NEW y \in S
      PROVE  x <= y
  <2>1. x \in Nat /\ y \in Nat
    OBVIOUS
  <2>2. <<y, x>> \in Nat \X Nat /\ ~(<<y, x>>[1] < <<y, x>>[2])
    BY <1>3, <2>1
  <2> QED
    BY <2>1, <2>2
<1> QED
  BY <1>4 DEF Least

\* pick_min returns one of the versions, and when they have one major its minor is the
\* least: any of those who support one of them can run it.
LEMMA PickMinIsLeast ==
    ASSUME NEW S, S \subseteq Versions, S # {}
    PROVE  /\ pick_min(S) \in S
           /\ (\A v, w \in S : v[1] = w[1]) => \A v \in S : Compatible(pick_min(S), v)
<1> DEFINE major == Least({v[1] : v \in S})
           S1 == {w \in S : w[1] = major}
           minor == Least({v[2] : v \in S1})
           S2 == {w \in S : w[1] = major /\ w[2] = minor}
           patch == Least({v[3] : v \in S2})
<1>1. \A v \in S : v \in Nat \X Nat \X Nat
  BY ProtocolAssumption
<1>2. major \in {v[1] : v \in S}
  <2>1. {v[1] : v \in S} \subseteq Nat /\ {v[1] : v \in S} # {}
    BY <1>1
  <2> QED
    BY <2>1, LeastIsLeast
<1>3. minor \in {v[2] : v \in S1} /\ \A j \in {v[2] : v \in S1} : minor <= j
  <2>1. {v[2] : v \in S1} \subseteq Nat /\ {v[2] : v \in S1} # {}
    BY <1>1, <1>2
  <2> QED
    BY <2>1, LeastIsLeast
<1>4. patch \in {v[3] : v \in S2}
  <2>1. {v[3] : v \in S2} \subseteq Nat /\ {v[3] : v \in S2} # {}
    BY <1>1, <1>3
  <2> QED
    BY <2>1, LeastIsLeast
<1>5. pick_min(S) = <<major, minor, patch>>
  BY DEF pick_min
<1>6. PICK u \in S2 : patch = u[3]
  BY <1>4
<1>7. u = <<major, minor, patch>>
  BY <1>1, <1>6
<1>8. ASSUME \A v, w \in S : v[1] = w[1], NEW v \in S
      PROVE  Compatible(pick_min(S), v)
  <2>1. v[1] = major
    BY <1>2, <1>8
  <2>2. minor <= v[2]
    BY <1>3, <1>8, <2>1
  <2> QED
    BY <1>5, <2>1, <2>2 DEF Compatible
<1> QED
  BY <1>5, <1>6, <1>7, <1>8

-----------------------------------------------------------------------------
(* The inductive invariant *)

\* An event that brings versions to run
Carries(ev) == ev.type = "protocol" /\ ev.run # Unset

\* Who supports one of ps can run r, when there is one major.
Fits(r, ps) ==
    OneMajor(ps) => \A p \in ps : Compatible(r.daemon, p.daemon) /\ Compatible(r.kernel, p.kernel)

\* In the sequence s of events the first versions to run are r.
NextRun(s, r) == \E i \in DOMAIN s : /\ Carries(s[i]) /\ s[i].run = r
                                     /\ \A j \in 1 .. (i - 1) : ~Carries(s[j])

Silent(s) == \A i \in DOMAIN s : ~Carries(s[i])

AllFitIn(s) == \A i \in DOMAIN s : Carries(s[i]) => Fits(s[i].run, s[i].over)

\* Before the first proposal nobody has versions to run and no message carries any.
NoneYet == first = Unset => \A n \in Nodes : run[n] = Unset /\ Silent(inbox[n])

\* After it a founder has its versions, or will adopt them: no others are before them in
\* what it has yet to receive.
FoundersFollow == first # Unset =>
    \A n \in founders : run[n] = first \/ (run[n] = Unset /\ NextRun(inbox[n], first))

\* The versions that messages carry and that daemons run fit those they were chosen for.
AllFit == \A n \in Nodes : AllFitIn(inbox[n]) /\ (run[n] # Unset => Fits(run[n], over[n]))

\* Who has given up could not run what it had adopted.
FailedRightly == \A n \in Nodes : pc[n] = "failed" => run[n] # Unset /\ Incompatible(n, run[n])

Inv == TypeOK /\ NoneYet /\ FoundersFollow /\ AllFit /\ FailedRightly

-----------------------------------------------------------------------------
(* Sequences of events *)

\* What is appended comes after what there was.
LEMMA ConcatEvents ==
    ASSUME NEW s \in Seq(Events), NEW t \in Seq(Events), NEW r
    PROVE  /\ Silent(s) /\ Silent(t) => Silent(s \o t)
           /\ AllFitIn(s) /\ AllFitIn(t) => AllFitIn(s \o t)
           /\ NextRun(s, r) => NextRun(s \o t, r)
           /\ Silent(s) /\ NextRun(t, r) => NextRun(s \o t, r)
<1> DEFINE c == s \o t
<1>1. /\ Len(s) \in Nat /\ DOMAIN s = 1 .. Len(s)
      /\ Len(t) \in Nat /\ DOMAIN t = 1 .. Len(t)
  BY LenProperties
<1>2. /\ c \in Seq(Events) /\ Len(c) = Len(s) + Len(t)
      /\ \A i \in 1 .. Len(s) + Len(t) : c[i] = IF i <= Len(s) THEN s[i] ELSE t[i - Len(s)]
  BY ConcatProperties
<1>3. DOMAIN c = 1 .. Len(s) + Len(t)
  BY <1>2, LenProperties
<1>4. \A i \in DOMAIN s : i \in DOMAIN c /\ c[i] = s[i]
  BY <1>1, <1>2, <1>3
<1>5. \A i \in DOMAIN t : i + Len(s) \in DOMAIN c /\ c[i + Len(s)] = t[i]
  BY <1>1, <1>2, <1>3
<1>6. \A i \in DOMAIN c : \/ i \in DOMAIN s /\ c[i] = s[i]
                          \/ i - Len(s) \in DOMAIN t /\ c[i] = t[i - Len(s)]
  BY <1>1, <1>2, <1>3
<1> HIDE DEF c
<1>7. Silent(s) /\ Silent(t) => Silent(c)
  BY <1>6 DEF Silent
<1>8. AllFitIn(s) /\ AllFitIn(t) => AllFitIn(c)
  BY <1>6 DEF AllFitIn
<1>9. ASSUME NextRun(s, r)
      PROVE  NextRun(c, r)
  <2>1. PICK i \in DOMAIN s : /\ Carries(s[i]) /\ s[i].run = r
                              /\ \A j \in 1 .. (i - 1) : ~Carries(s[j])
    BY <1>9 DEF NextRun
  <2>2. \A j \in 1 .. (i - 1) : j \in DOMAIN s /\ c[j] = s[j]
    BY <1>1, <1>4
  <2> QED
    BY <1>4, <2>1, <2>2 DEF NextRun
<1>10. ASSUME Silent(s), NextRun(t, r)
       PROVE  NextRun(c, r)
  <2>1. PICK i \in DOMAIN t : /\ Carries(t[i]) /\ t[i].run = r
                              /\ \A j \in 1 .. (i - 1) : ~Carries(t[j])
    BY <1>10 DEF NextRun
  <2>2. i + Len(s) \in DOMAIN c /\ Carries(c[i + Len(s)]) /\ c[i + Len(s)].run = r
    BY <1>5, <2>1
  <2>3. ASSUME NEW j \in 1 .. (i + Len(s) - 1)
        PROVE  ~Carries(c[j])
    <3>1. j \in DOMAIN c /\ j - Len(s) < i
      BY <1>1, <1>3, <2>1
    <3>2. CASE j \in DOMAIN s /\ c[j] = s[j]
      BY <1>10, <3>2 DEF Silent
    <3>3. CASE j - Len(s) \in DOMAIN t /\ c[j] = t[j - Len(s)]
      <4>1. j - Len(s) \in 1 .. (i - 1)
        BY <1>1, <3>1, <3>3
      <4> QED
        BY <2>1, <3>3, <4>1
    <3> QED
      BY <1>6, <3>1, <3>2, <3>3
  <2> QED
    BY <2>2, <2>3 DEF NextRun
<1> QED
  BY <1>7, <1>8, <1>9, <1>10 DEF c

\* Taking the first event
LEMMA TakeEvent ==
    ASSUME NEW s \in Seq(Events), s # <<>>, NEW r
    PROVE  /\ Head(s) \in Events /\ Tail(s) \in Seq(Events)
           /\ Silent(s) => Silent(Tail(s)) /\ ~Carries(Head(s))
           /\ AllFitIn(s) => AllFitIn(Tail(s)) /\ (Carries(Head(s)) => Fits(Head(s).run, Head(s).over))
           /\ NextRun(s, r) => IF Carries(Head(s)) THEN Head(s).run = r ELSE NextRun(Tail(s), r)
<1> DEFINE t == Tail(s)
<1>1. /\ Head(s) \in Events /\ t \in Seq(Events) /\ Len(t) = Len(s) - 1
      /\ \A i \in 1 .. Len(t) : t[i] = s[i + 1]
  BY HeadTailProperties
<1>2. /\ Len(s) \in Nat /\ Len(s) > 0 /\ DOMAIN s = 1 .. Len(s)
      /\ Len(t) \in Nat /\ DOMAIN t = 1 .. Len(t)
  BY <1>1, LenProperties, EmptySeq
<1>3. 1 \in DOMAIN s /\ s[1] = Head(s)
  BY <1>2
<1>4. \A i \in DOMAIN t : i + 1 \in DOMAIN s /\ t[i] = s[i + 1]
  BY <1>1, <1>2
<1> HIDE DEF t
<1>5. Silent(s) => Silent(t) /\ ~Carries(Head(s))
  BY <1>3, <1>4 DEF Silent
<1>6. AllFitIn(s) => AllFitIn(t) /\ (Carries(Head(s)) => Fits(Head(s).run, Head(s).over))
  BY <1>3, <1>4 DEF AllFitIn
<1>7. ASSUME NextRun(s, r)
      PROVE  IF Carries(Head(s)) THEN Head(s).run = r ELSE NextRun(t, r)
  <2>1. PICK i \in DOMAIN s : /\ Carries(s[i]) /\ s[i].run = r
                              /\ \A j \in 1 .. (i - 1) : ~Carries(s[j])
    BY <1>7 DEF NextRun
  <2>2. CASE i = 1
    BY <1>3, <2>1, <2>2
  <2>3. CASE i # 1
    <3>1. i \in 2 .. Len(s) /\ i - 1 \in DOMAIN t /\ t[i - 1] = s[i]
      BY <1>1, <1>2, <2>3
    <3>2. ~Carries(Head(s))
      BY <1>3, <2>1, <3>1
    <3>3. ASSUME NEW j \in 1 .. (i - 1 - 1)
          PROVE  ~Carries(t[j])
      <4>1. j \in DOMAIN t /\ j + 1 \in 1 .. (i - 1)
        BY <1>1, <1>2, <3>1
      <4> QED
        BY <1>4, <2>1, <4>1
    <3> QED
      BY <2>1, <3>1, <3>2, <3>3 DEF NextRun
  <2> QED
    BY <2>2, <2>3
<1> QED
  BY <1>1, <1>5, <1>6, <1>7 DEF t

-----------------------------------------------------------------------------
(* Messages *)

\* A proposal has its type, and fits the max values that it was chosen for.
LEMMA ProposalFits ==
    ASSUME TypeOK, NEW n \in Nodes, NEW ps, ps \subseteq Pairs, ps # {}
    PROVE  LET m == ProtocolMsg(n, pick_min_protocol(ps), ps)
           IN  m \in Events /\ m.type = "protocol" /\ Fits(m.run, m.over)
<1> DEFINE ds == {p.daemon : p \in ps}
           ks == {p.kernel : p \in ps}
           r == pick_min_protocol(ps)
<1>1. ds \subseteq Versions /\ ds # {} /\ ks \subseteq Versions /\ ks # {}
  BY DEF Pairs
<1>2. r = [daemon |-> pick_min(ds), kernel |-> pick_min(ks)]
  BY DEF pick_min_protocol
<1>3. pick_min(ds) \in ds /\ pick_min(ks) \in ks
  BY <1>1, PickMinIsLeast
<1>4. r \in Known
  BY <1>1, <1>2, <1>3 DEF Known, Pairs
<1>5. ASSUME OneMajor(ps), NEW p \in ps
      PROVE  Compatible(r.daemon, p.daemon) /\ Compatible(r.kernel, p.kernel)
  <2>1. \A v, w \in ds : v[1] = w[1]
    BY <1>5 DEF OneMajor
  <2>2. \A v, w \in ks : v[1] = w[1]
    BY <1>5 DEF OneMajor
  <2>3. Compatible(pick_min(ds), p.daemon) /\ Compatible(pick_min(ks), p.kernel)
    BY <1>1, <2>1, <2>2, PickMinIsLeast
  <2> QED
    BY <1>2, <2>3
<1> HIDE DEF r
<1>6. ProtocolMsg(n, r, ps) \in Events
  BY <1>4 DEF ProtocolMsg, Events, TypeOK, Known
<1> QED
  BY <1>5, <1>6 DEF ProtocolMsg, Fits, r

\* What Proposal returns: nothing, or one message, from a daemon without versions to run.
LEMMA ProposalIsRight ==
    ASSUME TypeOK, NEW n \in Nodes, NEW p \in [Nodes -> Known], NEW ms \in SUBSET Nodes,
           NEW r, NEW last, NEW q, q = Proposal(n, r, p, ms, last)
    PROVE  /\ q \in Seq(Events) /\ AllFitIn(q)
           /\ q # <<>> => /\ r = Unset /\ q[1].run \in Known
                          /\ IF q[1].run = Unset THEN Silent(q) ELSE NextRun(q, q[1].run)
<1>1. CASE q = <<>>
  BY <1>1, EmptySeq DEF AllFitIn
<1>2. CASE q # <<>>
  <2> DEFINE ps == {p[m] : m \in ms}
             e == ProtocolMsg(n, pick_min_protocol(ps), ps)
  <2>1. q = <<e>> /\ Proposes(n, r, p, ms)
    BY <1>2 DEF Proposal
  <2>2. r = Unset /\ ps \subseteq Pairs /\ ps # {}
    BY <2>1 DEF Proposes, all_protocol_messages, Known
  <2>3. e \in Events /\ e.type = "protocol" /\ Fits(e.run, e.over)
    BY <2>2, ProposalFits
  <2>4. e.run \in Known
    BY <2>3 DEF Events
  <2> HIDE DEF e
  <2>5. q \in Seq(Events) /\ DOMAIN q = {1} /\ q[1] = e
    BY <2>1, <2>3
  <2> QED
    BY <2>2, <2>3, <2>4, <2>5 DEF AllFitIn, Silent, NextRun, Carries
<1> QED
  BY <1>1, <1>2

-----------------------------------------------------------------------------
(* One event of a dispatch *)

\* The new run values of n, and those they were chosen for, are the ones that the event
\* ev brings when n has none; otherwise they stay.
NewRun(n, ev, r, o) ==
    IF run[n] = Unset /\ Carries(ev) THEN r = ev.run /\ o = ev.over ELSE r = run[n] /\ o = over[n]

\* What one event does to the invariant, be it a message or a confchg: n takes it, has the
\* run values r afterwards, tells others what it has (greet) and makes its proposal.
LEMMA DispatchStep ==
    ASSUME Inv, NEW n \in Nodes, inbox[n] # <<>>, pc[n] \in {"negotiating", "up"},
           NEW last, NEW r, NEW o, NewRun(n, Head(inbox[n]), r, o),
           NEW p \in [Nodes -> Known], NEW ms \in SUBSET Nodes,
           NEW proposal, proposal = Proposal(n, r, p, ms, last),
           NEW greet, greet = <<>> \/ (greet = <<ProtocolMsg(n, run[n], over[n])>> /\ r = run[n]),
           run' = [run EXCEPT ![n] = r], over' = [over EXCEPT ![n] = o],
           set_protocol(n, r, last, proposal),
           NEW msgs, msgs = greet \o proposal, Send(n, msgs),
           UNCHANGED <<max, group>>
    PROVE  /\ NoneYet' /\ FoundersFollow' /\ AllFit' /\ FailedRightly'
           /\ pc' \in [Nodes -> {"off", "negotiating", "up", "failed"}]
           /\ run' \in [Nodes -> Known] /\ over' \in [Nodes -> SUBSET Known]
           /\ sent' \in [Nodes -> BOOLEAN] /\ inbox' \in [Nodes -> Seq(Events)]
           /\ group' = {m \in Nodes : pc'[m] # "off"}
           /\ first' \in Known /\ founders' \subseteq group'
<1> DEFINE ev == Head(inbox[n])
           base(m) == IF m = n THEN Tail(inbox[n]) ELSE inbox[m]
           out(m) == IF m \in group THEN msgs ELSE <<>>
<1>1. TypeOK
  BY DEF Inv
<1>2. /\ ev \in Events /\ Tail(inbox[n]) \in Seq(Events)
      /\ Silent(inbox[n]) => Silent(Tail(inbox[n])) /\ ~Carries(ev)
      /\ AllFitIn(inbox[n]) => AllFitIn(Tail(inbox[n])) /\ (Carries(ev) => Fits(ev.run, ev.over))
      /\ NextRun(inbox[n], first) => IF Carries(ev) THEN ev.run = first ELSE NextRun(Tail(inbox[n]), first)
  <2>1. inbox[n] \in Seq(Events)
    BY <1>1 DEF TypeOK
  <2> QED
    BY <2>1, TakeEvent
<1>3. /\ proposal \in Seq(Events) /\ AllFitIn(proposal)
      /\ proposal # <<>> => /\ r = Unset /\ proposal[1].run \in Known
                            /\ IF proposal[1].run = Unset THEN Silent(proposal)
                               ELSE NextRun(proposal, proposal[1].run)
  BY <1>1, ProposalIsRight
<1>4. r \in Known /\ o \in SUBSET Known /\ (r # Unset => Fits(r, o))
  <2>1. CASE run[n] = Unset /\ Carries(ev)
    <3>1. ev.run \in Known /\ ev.over \in SUBSET Known
      BY <1>2, <2>1, Zenon DEF Carries, Events
    <3>2. Fits(ev.run, ev.over)
      BY <1>2, <2>1, Zenon DEF Inv, AllFit
    <3> QED
      BY <2>1, <3>1, <3>2, Zenon DEF NewRun
  <2>2. CASE ~(run[n] = Unset /\ Carries(ev))
    BY <1>1, <2>2, Zenon DEF NewRun, Inv, AllFit, TypeOK
  <2> QED
    BY <2>1, <2>2, Zenon
<1>5. /\ greet \in Seq(Events) /\ AllFitIn(greet) /\ (run[n] = Unset => Silent(greet))
  <2>1. CASE greet = <<>>
    BY <2>1, EmptySeq DEF AllFitIn, Silent
  <2>2. CASE greet = <<ProtocolMsg(n, run[n], over[n])>>
    <3> DEFINE e == ProtocolMsg(n, run[n], over[n])
    <3>1. e \in Events /\ e.run = run[n] /\ e.over = over[n]
      BY <1>1, Zenon DEF ProtocolMsg, Events, TypeOK
    <3>2. e.run # Unset => Fits(e.run, e.over)
      BY <3>1, Zenon DEF Inv, AllFit
    <3> HIDE DEF e
    <3>3. greet \in Seq(Events) /\ DOMAIN greet = {1} /\ greet[1] = e
      BY <2>2, <3>1 DEF e
    <3> QED
      BY <3>1, <3>2, <3>3, Zenon DEF AllFitIn, Silent, Carries
  <2> QED
    BY <2>1, <2>2, Zenon
<1>6. /\ msgs \in Seq(Events) /\ AllFitIn(msgs)
      /\ run[n] = Unset /\ Silent(proposal) => Silent(msgs)
      /\ run[n] = Unset /\ NextRun(proposal, first') => NextRun(msgs, first')
  <2>1. msgs \in Seq(Events)
    BY <1>3, <1>5, ConcatProperties, Zenon
  <2> QED
    BY <1>3, <1>5, <2>1, ConcatEvents, Zenon
<1>7. ASSUME NEW m \in Nodes
      PROVE  /\ base(m) \in Seq(Events) /\ out(m) \in Seq(Events) /\ base(m) \o out(m) \in Seq(Events)
             /\ inbox'[m] = base(m) \o out(m)
             /\ AllFitIn(base(m)) /\ AllFitIn(out(m))
  <2>1. base(m) \in Seq(Events) /\ AllFitIn(base(m))
    BY <1>1, <1>2, Zenon DEF TypeOK, Inv, AllFit
  <2>2. out(m) \in Seq(Events) /\ AllFitIn(out(m))
    <3>1. <<>> \in Seq(Events) /\ AllFitIn(<<>>)
      BY EmptySeq DEF AllFitIn
    <3>2. out(m) = msgs \/ out(m) = <<>>
      BY Zenon
    <3> QED
      BY <1>6, <3>1, <3>2, Zenon
  <2>3. inbox'[m] = base(m) \o out(m)
    BY Zenon DEF Send
  <2> QED
    BY <2>1, <2>2, <2>3, ConcatProperties, Zenon
<1>8. inbox' \in [Nodes -> Seq(Events)]
  BY <1>7, Zenon DEF Send
<1> HIDE DEF base, out
<1>9. /\ run' \in [Nodes -> Known] /\ over' \in [Nodes -> SUBSET Known]
      /\ run'[n] = r /\ over'[n] = o
      /\ \A m \in Nodes \ {n} : run'[m] = run[m] /\ over'[m] = over[m]
  BY <1>1, <1>4, Zenon DEF TypeOK
<1>10. AllFit'
  <2>1. ASSUME NEW m \in Nodes
        PROVE  AllFitIn(inbox'[m])
    BY <1>7, ConcatEvents, ZenonT(30)
  <2>2. ASSUME NEW m \in Nodes, run'[m] # Unset
        PROVE  Fits(run'[m], over'[m])
    BY <1>4, <1>9, <2>2, Zenon DEF Inv, AllFit
  <2> QED
    BY <2>1, <2>2, Zenon DEF AllFit, AllFitIn, Fits, Carries
<1>11. ASSUME NEW m \in Nodes
       PROVE  /\ Silent(base(m)) /\ Silent(out(m)) => Silent(inbox'[m])
              /\ NextRun(base(m), first') => NextRun(inbox'[m], first')
              /\ Silent(base(m)) /\ NextRun(out(m), first') => NextRun(inbox'[m], first')
  <2>1. base(m) \in Seq(Events) /\ out(m) \in Seq(Events) /\ inbox'[m] = base(m) \o out(m)
    BY <1>7, Zenon
  <2> DEFINE b == base(m)
             c == out(m)
             f == first'
  <2>2. b \in Seq(Events) /\ c \in Seq(Events)
    BY <2>1, Zenon
  <2> HIDE DEF b, c, f
  <2>3. /\ Silent(b) /\ Silent(c) => Silent(b \o c)
        /\ NextRun(b, f) => NextRun(b \o c, f)
        /\ Silent(b) /\ NextRun(c, f) => NextRun(b \o c, f)
    BY <2>2, ConcatEvents, Zenon
  <2> QED
    BY <2>1, <2>3, Zenon DEF b, c, f
<1>12. first = Unset => /\ r = Unset /\ \A m \in Nodes : run'[m] = Unset /\ Silent(base(m))
                        /\ Silent(greet)
  <2> SUFFICES ASSUME first = Unset
               PROVE  /\ r = Unset /\ \A m \in Nodes : run'[m] = Unset /\ Silent(base(m))
                      /\ Silent(greet)
    BY Zenon
  <2>1. \A m \in Nodes : run[m] = Unset /\ Silent(inbox[m])
    BY Zenon DEF Inv, NoneYet
  <2>2. Silent(Tail(inbox[n])) /\ ~Carries(ev)
    BY <1>2, <2>1, Zenon
  <2>3. r = Unset
    BY <2>1, <2>2, Zenon DEF NewRun
  <2>4. \A m \in Nodes : Silent(base(m))
    BY <2>1, <2>2, Zenon DEF base
  <2> QED
    BY <1>5, <1>9, <2>1, <2>3, <2>4, Zenon
<1>13. \/ first = Unset /\ proposal = <<>> /\ first' = Unset /\ founders' = founders
       \/ first = Unset /\ proposal # <<>> /\ first' = proposal[1].run /\ founders' = group
       \/ first # Unset /\ first' = first /\ founders' = founders
  BY Zenon DEF set_protocol
<1>14. NoneYet'
  <2> SUFFICES ASSUME first' = Unset, NEW m \in Nodes
               PROVE  run'[m] = Unset /\ Silent(inbox'[m])
    BY Zenon DEF NoneYet, Silent, Carries
  <2>1. first = Unset /\ run[n] = Unset
    BY <1>13, Zenon DEF Inv, NoneYet
  <2>2. Silent(proposal)
    <3>1. CASE proposal = <<>>
      BY <3>1, EmptySeq DEF Silent
    <3>2. CASE proposal # <<>>
      BY <1>3, <1>13, <2>1, <3>2, Zenon
    <3> QED
      BY <3>1, <3>2, Zenon
  <2>3. Silent(out(m))
    BY <1>6, <2>1, <2>2, EmptySeq DEF out, Silent
  <2> QED
    BY <1>12, <1>11, <2>1, <2>3, Zenon
<1>15. FoundersFollow'
  <2> SUFFICES ASSUME first' # Unset, NEW m \in founders'
               PROVE  run'[m] = first' \/ (run'[m] = Unset /\ NextRun(inbox'[m], first'))
    BY Zenon DEF FoundersFollow, NextRun, Carries
  <2>1. m \in Nodes /\ m \in group
    BY <1>1, <1>13, Zenon DEF TypeOK
  <2>2. CASE first = Unset
    <3>1. proposal # <<>> /\ first' = proposal[1].run /\ run[n] = Unset
      BY <1>13, <2>2, Zenon DEF Inv, NoneYet
    <3>2. NextRun(out(m), first')
      BY <1>3, <1>6, <2>1, <3>1, Zenon DEF out
    <3> QED
      BY <1>12, <1>11, <2>1, <2>2, <3>2, Zenon
  <2>3. CASE first # Unset /\ first' = first /\ founders' = founders
    <3>1. run[m] = first \/ (run[m] = Unset /\ NextRun(inbox[m], first))
      BY <2>3, Zenon DEF Inv, FoundersFollow
    <3>2. CASE m # n
      BY <1>9, <1>11, <2>1, <2>3, <3>1, <3>2, Zenon DEF base
    <3>3. CASE m = n /\ run[n] = first
      BY <1>9, <2>3, <3>3, Zenon DEF NewRun
    <3>4. CASE m = n /\ run[n] = Unset /\ NextRun(inbox[n], first)
      <4>1. CASE Carries(ev)
        BY <1>2, <1>9, <2>3, <3>4, <4>1, Zenon DEF NewRun
      <4>2. CASE ~Carries(ev)
        <5>1. NextRun(base(n), first) /\ r = Unset
          BY <1>2, <3>4, <4>2, Zenon DEF NewRun, base
        <5> QED
          BY <1>9, <1>11, <2>3, <3>4, <5>1, Zenon
      <4> QED
        BY <4>1, <4>2, Zenon
    <3> QED
      BY <3>1, <3>2, <3>3, <3>4, Zenon
  <2> QED
    BY <1>13, <2>2, <2>3, Zenon
<1>16. /\ FailedRightly' /\ pc' \in [Nodes -> {"off", "negotiating", "up", "failed"}]
       /\ group' = {m \in Nodes : pc'[m] # "off"}
  <2>1. /\ pc \in [Nodes -> {"off", "negotiating", "up", "failed"}]
        /\ group = {m \in Nodes : pc[m] # "off"}
    BY <1>1, Zenon DEF TypeOK
  <2>2. /\ pc' \in [Nodes -> {"off", "negotiating", "up", "failed"}]
        /\ \A m \in Nodes \ {n} : pc'[m] = pc[m]
        /\ pc'[n] # "off"
        /\ pc'[n] = "failed" => r # Unset /\ Incompatible(n, r)
    BY <2>1, Zenon DEF set_protocol
  <2>3. group' = {m \in Nodes : pc'[m] # "off"}
    BY <2>1, <2>2, Zenon
  <2>4. ASSUME NEW m \in Nodes, pc'[m] = "failed"
        PROVE  run'[m] # Unset /\ Incompatible(m, run'[m])
    BY <1>9, <2>2, <2>4, Zenon DEF Inv, FailedRightly
  <2> QED
    BY <2>2, <2>3, <2>4, Zenon DEF FailedRightly, Incompatible
<1>17. first' \in Known /\ founders' \subseteq group' /\ sent' \in [Nodes -> BOOLEAN]
  BY <1>1, <1>3, <1>13, Zenon DEF TypeOK, set_protocol
<1> QED
  BY <1>8, <1>9, <1>10, <1>14, <1>15, <1>16, <1>17, Zenon

\* receive_protocol keeps the invariant.
LEMMA ReceiveStep ==
    ASSUME Inv, NEW n \in Nodes, NEW last \in BOOLEAN, receive_protocol(n, last)
    PROVE  Inv'
<1> DEFINE msg == Head(inbox[n])
           r == IF Adopts(n, msg) THEN msg.run ELSE run[n]
           o == IF Adopts(n, msg) THEN msg.over ELSE over[n]
           p == IF Saves(n, msg) THEN [proto[n] EXCEPT ![msg.from] = msg.max] ELSE proto[n]
           proposal == Proposal(n, r, p, member[n], last)
<1>1. TypeOK
  BY Zenon DEF Inv
<1>2. /\ inbox[n] # <<>> /\ pc[n] \in {"negotiating", "up"} /\ msg.type = "protocol"
      /\ run' = [run EXCEPT ![n] = r] /\ proto' = [proto EXCEPT ![n] = p]
      /\ over' = IF Adopts(n, msg) THEN [over EXCEPT ![n] = msg.over] ELSE over
      /\ set_protocol(n, r, last, proposal) /\ Send(n, proposal)
      /\ UNCHANGED <<max, nodes, member, group, joins, gone>>
  BY ZenonT(30) DEF receive_protocol, Event
<1>3. over' = [over EXCEPT ![n] = o]
  BY <1>1, <1>2, Zenon DEF TypeOK
<1>4. msg \in Events
  <2>1. inbox[n] \in Seq(Events)
    BY <1>1, Zenon DEF TypeOK
  <2> QED
    BY <1>2, <2>1, TakeEvent, Zenon
<1>5. msg.from \in Nodes /\ msg.max \in Known
  BY <1>2, <1>4, Zenon DEF Events
<1>6. p \in [Nodes -> Known] /\ member[n] \in SUBSET Nodes
  BY <1>1, <1>5, Zenon DEF TypeOK
<1>7. NewRun(n, msg, r, o)
  BY <1>2, Zenon DEF NewRun, Adopts, Carries
<1>8. proposal \in Seq(Events)
  BY <1>1, <1>6, ProposalIsRight, Zenon
<1> HIDE DEF msg, r, o, p, proposal
<1>9. proposal = <<>> \o proposal
  BY <1>8, ConcatEmptySeq, Zenon
<1>10. /\ NoneYet' /\ FoundersFollow' /\ AllFit' /\ FailedRightly'
       /\ pc' \in [Nodes -> {"off", "negotiating", "up", "failed"}]
       /\ run' \in [Nodes -> Known] /\ over' \in [Nodes -> SUBSET Known]
       /\ sent' \in [Nodes -> BOOLEAN] /\ inbox' \in [Nodes -> Seq(Events)]
       /\ group' = {m \in Nodes : pc'[m] # "off"}
       /\ first' \in Known /\ founders' \subseteq group'
  BY <1>2, <1>3, <1>6, <1>7, <1>9, DispatchStep, Zenon DEF msg, proposal
<1>11. proto' \in [Nodes -> [Nodes -> Known]]
  BY <1>1, <1>2, <1>6, Zenon DEF TypeOK
<1>12. TypeOK'
  BY <1>1, <1>2, <1>10, <1>11, Zenon DEF TypeOK, Events, Known, Pairs
<1> QED
  BY <1>10, <1>12, Zenon DEF Inv

\* confchg_cb_daemon keeps the invariant.
LEMMA ConfchgStep ==
    ASSUME Inv, NEW n \in Nodes, NEW last \in BOOLEAN, confchg_cb_daemon(n, last)
    PROVE  Inv'
<1> DEFINE ev == Head(inbox[n])
           proposal == Proposal(n, run[n], proto[n], ev.members, last)
           greet == IF Greets(n, ev) THEN <<ProtocolMsg(n, run[n], over[n])>> ELSE <<>>
<1>1. TypeOK
  BY Zenon DEF Inv
<1>2. /\ inbox[n] # <<>> /\ pc[n] \in {"negotiating", "up"} /\ ev.type = "confchg"
      /\ nodes' = [nodes EXCEPT ![n] = add_node_daemon(nodes[n], ev.members)]
      /\ member' = [member EXCEPT ![n] = ev.members]
      /\ set_protocol(n, run[n], last, proposal) /\ Send(n, greet \o proposal)
      /\ UNCHANGED <<max, run, proto, group, joins, gone, over>>
  BY Zenon DEF confchg_cb_daemon, Event
<1>3. ev \in Events
  <2>1. inbox[n] \in Seq(Events)
    BY <1>1, Zenon DEF TypeOK
  <2> QED
    BY <1>2, <2>1, TakeEvent, Zenon
<1>4. ev.members \in SUBSET Nodes
  BY <1>2, <1>3, Zenon DEF Events
<1>5. proto[n] \in [Nodes -> Known]
  BY <1>1, Zenon DEF TypeOK
<1>6. NewRun(n, ev, run[n], over[n])
  BY <1>2, Zenon DEF NewRun, Carries
<1>7. run' = [run EXCEPT ![n] = run[n]] /\ over' = [over EXCEPT ![n] = over[n]]
  BY <1>1, <1>2, Zenon DEF TypeOK
<1>8. greet = <<>> \/ greet = <<ProtocolMsg(n, run[n], over[n])>>
  BY Zenon
<1> DEFINE msgs == greet \o proposal
<1>9. Send(n, msgs) /\ set_protocol(n, run[n], last, proposal)
  BY <1>2, Zenon
<1>10. ev = Head(inbox[n]) /\ proposal = Proposal(n, run[n], proto[n], ev.members, last) /\ msgs = greet \o proposal
  BY Zenon
<1> HIDE DEF ev, greet, proposal, msgs
<1>11. /\ NoneYet' /\ FoundersFollow' /\ AllFit' /\ FailedRightly'
       /\ pc' \in [Nodes -> {"off", "negotiating", "up", "failed"}]
       /\ run' \in [Nodes -> Known] /\ over' \in [Nodes -> SUBSET Known]
       /\ sent' \in [Nodes -> BOOLEAN] /\ inbox' \in [Nodes -> Seq(Events)]
       /\ group' = {m \in Nodes : pc'[m] # "off"}
       /\ first' \in Known /\ founders' \subseteq group'
  <2> DEFINE rn == run[n]
             on == over[n]
  <2>1. /\ NewRun(n, Head(inbox[n]), rn, on) /\ run' = [run EXCEPT ![n] = rn]
        /\ over' = [over EXCEPT ![n] = on] /\ set_protocol(n, rn, last, proposal)
        /\ proposal = Proposal(n, rn, proto[n], ev.members, last)
        /\ greet = <<>> \/ (greet = <<ProtocolMsg(n, run[n], over[n])>> /\ rn = run[n])
    BY <1>6, <1>7, <1>8, <1>9, <1>10, Zenon
  <2> HIDE DEF rn, on
  <2> QED
    BY <1>2, <1>4, <1>5, <1>9, <1>10, <2>1, DispatchStep, ZenonT(30)
<1>12. /\ nodes' \in [Nodes -> SUBSET Nodes] /\ member' \in [Nodes -> SUBSET Nodes]
       /\ \A m \in Nodes : member'[m] \subseteq nodes'[m]
  BY <1>1, <1>2, <1>4, Zenon DEF TypeOK, add_node_daemon
<1>13. TypeOK'
  BY <1>1, <1>2, <1>11, <1>12, Zenon DEF TypeOK, Events, Known, Pairs
<1> QED
  BY <1>11, <1>13, Zenon DEF Inv

-----------------------------------------------------------------------------
(* Membership *)

\* A confchg brings no versions.
LEMMA ConfchgEvent ==
    ASSUME NEW s \in Seq(Events), NEW members \in SUBSET Nodes, NEW joined \in SUBSET Nodes, NEW r
    PROVE  LET t == Append(s, Confchg(members, joined))
           IN  /\ t \in Seq(Events)
               /\ Silent(s) => Silent(t)
               /\ AllFitIn(s) => AllFitIn(t)
               /\ NextRun(s, r) => NextRun(t, r)
<1> DEFINE e == Confchg(members, joined)
           t == Append(s, e)
<1>1. e \in Events /\ ~Carries(e)
  BY Zenon DEF Confchg, Events, Carries
<1> HIDE DEF e
<1>2. /\ t \in Seq(Events) /\ Len(t) = Len(s) + 1
      /\ \A i \in 1 .. Len(s) : t[i] = s[i]
      /\ t[Len(s) + 1] = e
  BY <1>1, AppendProperties
<1>3. /\ Len(s) \in Nat /\ DOMAIN s = 1 .. Len(s) /\ DOMAIN t = 1 .. Len(s) + 1
  BY <1>2, LenProperties, Zenon
<1> HIDE DEF t
<1>4. /\ \A i \in DOMAIN s : i \in DOMAIN t /\ t[i] = s[i]
      /\ \A i \in DOMAIN t : (i \in DOMAIN s /\ t[i] = s[i]) \/ t[i] = e
  BY <1>2, <1>3
<1>5. Silent(s) => Silent(t)
  BY <1>1, <1>4, Zenon DEF Silent
<1>6. AllFitIn(s) => AllFitIn(t)
  BY <1>1, <1>4, Zenon DEF AllFitIn
<1>7. ASSUME NextRun(s, r)
      PROVE  NextRun(t, r)
  <2>1. PICK i \in DOMAIN s : /\ Carries(s[i]) /\ s[i].run = r
                              /\ \A j \in 1 .. (i - 1) : ~Carries(s[j])
    BY <1>7, Zenon DEF NextRun
  <2>2. \A j \in 1 .. (i - 1) : t[j] = s[j]
    BY <1>3, <1>4
  <2> QED
    BY <1>4, <2>1, <2>2, Zenon DEF NextRun
<1> QED
  BY <1>2, <1>5, <1>6, <1>7, Zenon DEF t, e

\* A confchg to some members, put after what they have to receive
LEMMA PostKeeps ==
    ASSUME TypeOK, NEW members \in SUBSET Nodes, NEW joined \in SUBSET Nodes, NEW box,
           box = Post(inbox, members, joined)
    PROVE  /\ box \in [Nodes -> Seq(Events)]
           /\ \A m \in Nodes : /\ Silent(inbox[m]) => Silent(box[m])
                               /\ AllFitIn(inbox[m]) => AllFitIn(box[m])
                               /\ NextRun(inbox[m], first) => NextRun(box[m], first)
<1>1. ASSUME NEW m \in Nodes
      PROVE  /\ box[m] \in Seq(Events)
             /\ Silent(inbox[m]) => Silent(box[m])
             /\ AllFitIn(inbox[m]) => AllFitIn(box[m])
             /\ NextRun(inbox[m], first) => NextRun(box[m], first)
  <2>1. inbox[m] \in Seq(Events)
    BY Zenon DEF TypeOK
  <2>2. box[m] = inbox[m] \/ box[m] = Append(inbox[m], Confchg(members, joined))
    BY Zenon DEF Post
  <2> QED
    BY <2>1, <2>2, ConfchgEvent, Zenon
<1>2. box = [m \in Nodes |-> box[m]]
  BY Zenon DEF Post
<1> QED
  BY <1>1, <1>2, Zenon

\* setup_cpg keeps the invariant.
LEMMA SetupStep ==
    ASSUME Inv, NEW n \in Nodes, NEW v \in Supports[n], setup_cpg(n, v)
    PROVE  Inv'
<1>1. TypeOK
  BY Zenon DEF Inv
<1>2. /\ pc[n] = "off" /\ pc' = [pc EXCEPT ![n] = "negotiating"] /\ joins < MaxJoins /\ joins' = joins + 1
      /\ max' = [max EXCEPT ![n] = v] /\ group' = group \cup {n}
      /\ inbox' = Post(inbox, group \cup {n}, {n})
      /\ UNCHANGED <<run, nodes, proto, member, sent, gone, first, founders, over>>
  BY Zenon DEF setup_cpg, history
<1>3. group \cup {n} \in SUBSET Nodes /\ {n} \in SUBSET Nodes
  BY <1>1, Zenon DEF TypeOK
<1>4. /\ inbox' \in [Nodes -> Seq(Events)]
      /\ \A m \in Nodes : /\ Silent(inbox[m]) => Silent(inbox'[m])
                          /\ AllFitIn(inbox[m]) => AllFitIn(inbox'[m])
                          /\ NextRun(inbox[m], first) => NextRun(inbox'[m], first)
  BY <1>1, <1>2, <1>3, PostKeeps, Zenon
<1>5. TypeOK'
  <2>1. v \in Known
    BY ProtocolAssumption, Zenon DEF Known
  <2>2. pc' \in [Nodes -> {"off", "negotiating", "up", "failed"}] /\ max' \in [Nodes -> Known]
    BY <1>1, <1>2, <2>1, Zenon DEF TypeOK
  <2>3. group' = {m \in Nodes : pc'[m] # "off"}
    BY <1>1, <1>2 DEF TypeOK
  <2>4. joins' \in 0 .. MaxJoins
    BY <1>1, <1>2, ProtocolAssumption DEF TypeOK
  <2> QED
    BY <1>1, <1>2, <1>4, <2>2, <2>3, <2>4, Zenon DEF TypeOK, Events, Known, Pairs
<1>6. NoneYet'
  BY <1>2, <1>4, Zenon DEF Inv, NoneYet, Silent, Carries
<1>7. FoundersFollow'
  <2> SUFFICES ASSUME first # Unset, NEW m \in founders
               PROVE  run[m] = first \/ (run[m] = Unset /\ NextRun(inbox'[m], first))
    BY <1>2, Zenon DEF FoundersFollow, NextRun, Carries
  <2>1. m \in Nodes
    BY <1>1, Zenon DEF TypeOK
  <2> QED
    BY <1>4, <2>1, Zenon DEF Inv, FoundersFollow
<1>8. AllFit'
  <2>1. \A m \in Nodes : AllFitIn(inbox'[m]) /\ (run[m] # Unset => Fits(run[m], over[m]))
    BY <1>4, Zenon DEF Inv, AllFit
  <2> QED
    BY <1>2, <2>1, Zenon DEF AllFit, AllFitIn, Fits, Carries
<1>9. FailedRightly'
  <2> SUFFICES ASSUME NEW m \in Nodes, pc'[m] = "failed"
               PROVE  run[m] # Unset /\ Incompatible(m, run[m])'
    BY <1>2, Zenon DEF FailedRightly, Incompatible
  <2>1. m # n /\ pc[m] = "failed" /\ max'[m] = max[m]
    BY <1>1, <1>2, Zenon DEF TypeOK
  <2> QED
    BY <1>2, <2>1, Zenon DEF Inv, FailedRightly, Incompatible
<1> QED
  BY <1>5, <1>6, <1>7, <1>8, <1>9, Zenon DEF Inv

\* A daemon that leaves, or exits, keeps the invariant.
LEMMA LeaveStep ==
    ASSUME Inv, NEW n \in Nodes, Leave(n), gone' \in 0 .. MaxGone
    PROVE  Inv'
<1> DEFINE box == Post(inbox, group \ {n}, {})
<1>1. TypeOK
  BY Zenon DEF Inv
<1>2. /\ pc' = [pc EXCEPT ![n] = "off"] /\ max' = [max EXCEPT ![n] = Unset]
      /\ run' = [run EXCEPT ![n] = Unset] /\ nodes' = [nodes EXCEPT ![n] = {}]
      /\ proto' = [proto EXCEPT ![n] = [m \in Nodes |-> Unset]]
      /\ member' = [member EXCEPT ![n] = {}] /\ sent' = [sent EXCEPT ![n] = FALSE]
      /\ over' = [over EXCEPT ![n] = {}]
      /\ group' = group \ {n} /\ founders' = founders \ {n}
      /\ inbox' = [box EXCEPT ![n] = <<>>]
      /\ UNCHANGED <<joins, first>>
  BY Zenon DEF Leave
<1>3. group \ {n} \in SUBSET Nodes /\ {} \in SUBSET Nodes
  BY <1>1, Zenon DEF TypeOK
<1>4. /\ box \in [Nodes -> Seq(Events)]
      /\ \A m \in Nodes : /\ Silent(inbox[m]) => Silent(box[m])
                          /\ AllFitIn(inbox[m]) => AllFitIn(box[m])
                          /\ NextRun(inbox[m], first) => NextRun(box[m], first)
  BY <1>1, <1>3, PostKeeps, Zenon
<1> HIDE DEF box
<1>5. /\ inbox' \in [Nodes -> Seq(Events)] /\ inbox'[n] = <<>>
      /\ \A m \in Nodes \ {n} : inbox'[m] = box[m]
  BY <1>2, <1>4, EmptySeq, Zenon
<1>6. Silent(inbox'[n]) /\ AllFitIn(inbox'[n])
  BY <1>5, EmptySeq DEF Silent, AllFitIn
<1>7. run'[n] = Unset /\ \A m \in Nodes \ {n} : run'[m] = run[m] /\ over'[m] = over[m]
  BY <1>1, <1>2, Zenon DEF TypeOK
<1>8. TypeOK'
  <2>1. Unset \in Known
    BY Zenon DEF Known
  <2>2. /\ pc' \in [Nodes -> {"off", "negotiating", "up", "failed"}]
        /\ max' \in [Nodes -> Known] /\ run' \in [Nodes -> Known]
        /\ sent' \in [Nodes -> BOOLEAN] /\ over' \in [Nodes -> SUBSET Known]
    BY <1>1, <1>2, <2>1, Zenon DEF TypeOK
  <2>3. proto' \in [Nodes -> [Nodes -> Known]]
    BY <1>1, <1>2, <2>1, Zenon DEF TypeOK
  <2>4. /\ nodes' \in [Nodes -> SUBSET Nodes] /\ member' \in [Nodes -> SUBSET Nodes]
        /\ \A m \in Nodes : member'[m] \subseteq nodes'[m]
    BY <1>1, <1>2, Zenon DEF TypeOK
  <2>5. group' = {m \in Nodes : pc'[m] # "off"} /\ founders' \subseteq group'
    BY <1>1, <1>2, Zenon DEF TypeOK
  <2> QED
    BY <1>1, <1>2, <1>5, <2>2, <2>3, <2>4, <2>5, Zenon DEF TypeOK, Events, Known, Pairs
<1>9. NoneYet'
  <2> SUFFICES ASSUME first = Unset, NEW m \in Nodes
               PROVE  run'[m] = Unset /\ Silent(inbox'[m])
    BY <1>2, Zenon DEF NoneYet, Silent, Carries
  <2>1. run[m] = Unset /\ Silent(inbox[m])
    BY Zenon DEF Inv, NoneYet
  <2>2. CASE m = n
    BY <1>6, <1>7, <2>2, Zenon
  <2>3. CASE m # n
    BY <1>4, <1>5, <1>7, <2>1, <2>3, Zenon
  <2> QED
    BY <2>2, <2>3, Zenon
<1>10. FoundersFollow'
  <2> SUFFICES ASSUME first # Unset, NEW m \in founders \ {n}
               PROVE  run'[m] = first \/ (run'[m] = Unset /\ NextRun(inbox'[m], first))
    BY <1>2, Zenon DEF FoundersFollow, NextRun, Carries
  <2>1. m \in Nodes \ {n}
    BY <1>1, Zenon DEF TypeOK
  <2> QED
    BY <1>4, <1>5, <1>7, <2>1, Zenon DEF Inv, FoundersFollow
<1>11. AllFit'
  <2>1. \A m \in Nodes : AllFitIn(inbox'[m]) /\ (run'[m] # Unset => Fits(run'[m], over'[m]))
    BY <1>4, <1>5, <1>6, <1>7, Zenon DEF Inv, AllFit
  <2> QED
    BY <2>1, Zenon DEF AllFit, AllFitIn, Fits, Carries
<1>12. FailedRightly'
  <2> SUFFICES ASSUME NEW m \in Nodes, pc'[m] = "failed"
               PROVE  run'[m] # Unset /\ Incompatible(m, run[m])'
    BY Zenon DEF FailedRightly, Incompatible
  <2>1. m # n /\ pc[m] = "failed" /\ max'[m] = max[m]
    BY <1>1, <1>2, Zenon DEF TypeOK
  <2> QED
    BY <1>7, <2>1, Zenon DEF Inv, FailedRightly, Incompatible
<1> QED
  BY <1>8, <1>9, <1>10, <1>11, <1>12, Zenon DEF Inv

-----------------------------------------------------------------------------
(* The theorems *)

\* Before a daemon has started nothing has been sent.
LEMMA InitInv == Init => Inv
<1> SUFFICES ASSUME Init PROVE Inv
  BY Zenon
<1>1. Unset \in Known
  BY Zenon DEF Known
<1>2. inbox \in [Nodes -> Seq(Events)]
  BY EmptySeq, Zenon DEF Init
<1>3. TypeOK
  BY <1>1, <1>2, ProtocolAssumption DEF Init, TypeOK
<1>4. \A n \in Nodes : Silent(inbox[n]) /\ AllFitIn(inbox[n]) /\ run[n] = Unset /\ pc[n] = "off"
  BY EmptySeq DEF Init, Silent, AllFitIn
<1> QED
  BY <1>3, <1>4, Zenon DEF Init, Inv, NoneYet, FoundersFollow, AllFit, FailedRightly

\* Every step of a daemon, and every change of the members, keeps the invariant.
LEMMA NextInv == Inv /\ [Next]_vars => Inv'
<1> SUFFICES ASSUME Inv, [Next]_vars PROVE Inv'
  BY Zenon
<1>1. ASSUME NEW n \in Nodes, NEW v \in Supports[n], setup_cpg(n, v)
      PROVE  Inv'
  BY <1>1, SetupStep, Zenon
<1>2. ASSUME NEW n \in Nodes, Dispatch(n)
      PROVE  Inv'
  BY <1>2, ReceiveStep, ConfchgStep, Zenon DEF Dispatch
<1>3. ASSUME NEW n \in Nodes, Exit(n)
      PROVE  Inv'
  <2>1. Leave(n) /\ gone' \in 0 .. MaxGone
    BY <1>3, Zenon DEF Exit, Inv, TypeOK
  <2> QED
    BY <2>1, LeaveStep, Zenon
<1>4. ASSUME NEW n \in Nodes, Depart(n)
      PROVE  Inv'
  <2>1. Leave(n) /\ gone' \in 0 .. MaxGone
    BY <1>4, ProtocolAssumption DEF Depart, Inv, TypeOK
  <2> QED
    BY <2>1, LeaveStep, Zenon
<1>5. CASE UNCHANGED vars
  <2> USE <1>5 DEF vars, daemonVars, history
  <2>1. TypeOK'
    BY Zenon DEF Inv, TypeOK, Events, Known, Pairs
  <2>2. NoneYet'
    BY Zenon DEF Inv, NoneYet, Silent, Carries
  <2>3. FoundersFollow'
    BY Zenon DEF Inv, FoundersFollow, NextRun, Carries
  <2>4. AllFit'
    BY Zenon DEF Inv, AllFit, AllFitIn, Fits, Carries
  <2>5. FailedRightly'
    BY Zenon DEF Inv, FailedRightly, Incompatible
  <2> QED
    BY <2>1, <2>2, <2>3, <2>4, <2>5, Zenon DEF Inv
<1> QED
  BY <1>1, <1>2, <1>3, <1>4, <1>5, Zenon DEF Next

\* The invariant holds for any number of daemons that support any versions, start in any
\* order and leave at any time.
THEOREM ProtocolInvariant == Spec => []Inv
  BY InitInv, NextInv, PTL DEF Spec

\* The state of the negotiation is well-formed.
THEOREM ProtocolTypes == Spec => []TypeOK
<1>1. Inv => TypeOK
  BY Zenon DEF Inv
<1> QED
  BY <1>1, ProtocolInvariant, PTL

\* The daemons that were members when the first proposal of versions was made never run
\* others than those it proposed: set_protocol and receive_protocol let them agree.
THEOREM FoundersRunTheSame == Spec => []FoundersAgree
<1>1. Inv => FoundersAgree
  <2> SUFFICES ASSUME Inv, NEW n \in founders
               PROVE  run[n] \in {Unset, first}
    BY Zenon DEF FoundersAgree
  <2>1. n \in Nodes
    BY Zenon DEF Inv, TypeOK
  <2> QED
    BY <2>1, Zenon DEF Inv, NoneYet, FoundersFollow
<1> QED
  BY <1>1, ProtocolInvariant, PTL

\* A daemon that was asked before the versions were chosen is not turned away by
\* set_protocol, unless the majors differ: pick_min_protocol chooses what all of them have.
THEOREM AskedCanRun == Spec => []NoFounderExcluded
<1>1. Inv => NoFounderExcluded
  <2> SUFFICES ASSUME Inv, NEW n \in Nodes, pc[n] = "failed", max[n] \in over[n], OneMajor(over[n])
               PROVE  FALSE
    BY Zenon DEF NoFounderExcluded
  <2>1. run[n] # Unset /\ Incompatible(n, run[n])
    BY Zenon DEF Inv, FailedRightly
  <2>2. Fits(run[n], over[n])
    BY <2>1, Zenon DEF Inv, AllFit
  <2> QED
    BY <2>1, <2>2, Zenon DEF Fits, Incompatible
<1> QED
  BY <1>1, ProtocolInvariant, PTL
=============================================================================
