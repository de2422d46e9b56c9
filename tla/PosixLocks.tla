----------------------------- MODULE PosixLocks -----------------------------
(***************************************************************************)
(* What posix locks on a file promise: which holder has locked which byte, *)
(* exclusively or not, and which holder waits for which bytes.  Ranges,    *)
(* lists and their order do not appear.                                    *)
(***************************************************************************)
EXTENDS Integers

CONSTANTS Holders, Bytes, NodeOf(_)

VARIABLES held,   \* the set of [holder, byte, ex]
          want    \* the set of [holder, bytes, ex] that wait

pvars == <<held, want>>

Init == held = {} /\ want = {}

Compatible(H) ==
    \A x, y \in H : x.byte = y.byte /\ x.holder # y.holder => ~x.ex /\ ~y.ex

Release(H, h, bytes) == {x \in H : x.holder # h \/ x.byte \notin bytes}

Take(H, w) == Release(H, w.holder, w.bytes)
                \cup {[holder |-> w.holder, byte |-> b, ex |-> w.ex] : b \in w.bytes}

\* From H some of the requests W that wait are granted.
Grant(H, W) ==
    /\ want' \subseteq W
    /\ LET G == W \ want'
           Of(h) == {w \in G : w.holder = h}
       IN  held' = {x \in H : \A w \in Of(x.holder) : x.byte \notin w.bytes}
                     \cup UNION {Take({}, w) : w \in G}
    /\ Compatible(held')

Waits(h) == \E w \in want : w.holder = h

\* A holder gets a lock only if it conflicts with nobody's, and is made to wait
\* or is refused only if it does.
Lock(w) ==
    /\ ~Waits(w.holder)
    /\ IF Compatible(Take(held, w))
       THEN Grant(Take(held, w), want)
       ELSE Grant(held, want \cup {w}) \/ Grant(held, want)

Unlock(h, bytes) == ~Waits(h) /\ Grant(Release(held, h, bytes), want)

\* All holders of a node lose their locks and their requests.
Purge(n) == Grant({x \in held : NodeOf(x.holder) # n}, {w \in want : NodeOf(w.holder) # n})

Next == \/ \E h \in Holders, bytes \in SUBSET Bytes :
              \/ Unlock(h, bytes)
              \/ \E ex \in BOOLEAN : Lock([holder |-> h, bytes |-> bytes, ex |-> ex])
        \/ \E n \in {NodeOf(h) : h \in Holders} : Purge(n)

Spec == Init /\ [][Next]_pvars
=============================================================================
