---------------------------- MODULE MCPlockFile ----------------------------
(***************************************************************************)
(* PlockFile for TLC: two nodes lock ranges of all the bytes, which allows *)
(* a lock to be split in the middle; or three nodes queue up for the first *)
(* two bytes, which allows a pass over several waiters.                    *)
(***************************************************************************)
EXTENDS PlockFile

Present == res.locks \cup {res.waiters[i] : i \in DOMAIN res.waiters}

Wide == Request({1, 2}, Owners, Offsets)
Narrow == Request({1, 2}, Owners, 0 .. 1)
Third == Request({3}, Owners, 0 .. 1)

\* As long as the third node has nothing all bytes are used, and it comes in as long as
\* the third byte is not.
Requests ==
    (IF \A po \in Present : po.node \in {1, 2} THEN Wide ELSE Narrow)
    \cup (IF \A po \in Present : po.end <= 1 THEN Third ELSE {})

MCNext == \/ \E in \in Requests : Receive(in)
          \/ \E n \in Nodes : Purge(n)

MCSpec == Init /\ [][MCNext]_vars
=============================================================================
