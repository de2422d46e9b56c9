----------------------------- MODULE MCProtocol -----------------------------
(***************************************************************************)
(* Protocol for TLC.                                                       *)
(***************************************************************************)
EXTENDS Protocol

V == {<<1, 1, 1>>, <<1, 2, 1>>, <<1, 2, 2>>, <<2, 1, 1>>}

Pair(d, k) == [daemon |-> d, kernel |-> k]

\* The least of what they support is different for each set of members; the third one has
\* an older daemon and a kernel of the next major.
SupportsOf == <<{Pair(<<1, 2, 2>>, <<1, 2, 1>>)}, {Pair(<<1, 2, 1>>, <<1, 1, 1>>)},
                {Pair(<<1, 1, 1>>, <<2, 1, 1>>)}>>

\* The daemons start in the order of their ids; later any of them may start again.
InOrder == \A n \in group' \ group : \A m \in Nodes : m < n => pc[m] # "off" \/ gone > 0

\* An event that does not make the daemon send anything: its delivery commutes with the
\* steps of the other daemons, and is done at once.
Silent(n, ev) ==
    IF ev.type = "confchg" THEN ev.joined = {} /\ ~Proposes(n, run[n], proto[n], ev.members)
    ELSE ~(Saves(n, ev) /\ Proposes(n, run[n], [proto[n] EXCEPT ![ev.from] = ev.max], member[n]))

Local == {n \in Nodes : pc[n] \in {"negotiating", "up"} /\ inbox[n] # <<>> /\ Silent(n, Head(inbox[n]))}

LocalFirst == Local # {} => \E n \in Local : /\ \A m \in Local : n <= m
                                             /\ inbox' = [inbox EXCEPT ![n] = Tail(@)]

Reduced == InOrder /\ LocalFirst

=============================================================================
