---------------------------- MODULE MCPlockGroup ----------------------------
(***************************************************************************)
(* PlockGroup for TLC.  The run plock_group begins in three kinds of       *)
(* states, and used.kind says in which:                                    *)
(*   pair   the founders alone, whose resource is dropped and one of which *)
(*          fails;                                                         *)
(*   three  all the nodes are members, and one fails;                      *)
(*   join   a node may join, nothing fails and flags happen to be zero.    *)
(* Under the action constraint Lighter the last two have one owner on a    *)
(* node, and no get and no drop.  It ends a behaviour when a drop has      *)
(* crossed another message, of which the properties say nothing.           *)
(***************************************************************************)
EXTENDS PlockGroup

Req(op, ex, wait) == [op |-> op, ex |-> ex, wait |-> wait]

\* Exclusive locks, and a request that changes nothing
GetOps == {Req("lock", TRUE, TRUE), Req("unlock", FALSE, FALSE), Req("get", TRUE, FALSE)}

\* The members have plock state.  A node that is not to join has been started before.
InitWith(k, ownership, members, ops) ==
    /\ daemon = [n \in Nodes |-> [NewDaemon(ownership) EXCEPT
                                     !.need = n \notin members,
                                     !.started = IF k = "join" THEN 0 ELSE 1]]
    /\ inbox = [n \in Nodes |-> <<>>]
    /\ group = members /\ ckpt = <<>> /\ starts = 0
    /\ claim = [h \in Holders |-> "none"] /\ busy = [h \in Holders |-> NoRequest]
    /\ crossed = FALSE
    /\ used = [ops |-> MaxOps - ops, drops |-> 0, fails |-> 0, kind |-> k]

MCInit == \/ \E ownership \in Ownership : \/ InitWith("pair", ownership, Founders, MaxOps)
                                          \/ InitWith("three", ownership, Nodes, 3)
          \/ InitWith("join", TRUE, Founders, 3)

MCSpec == MCInit /\ [][Next]_vars

Present(r) == r.locks \cup {r.waiters[i] : i \in DOMAIN r.waiters}

\* No lock or waiter of node n comes with a flag.
NoJunk(n) ==
    \A i \in DOMAIN daemon'[n].res : \A po \in Present(daemon'[n].res[i]) :
        po.syncing => Found(daemon[n]) /\ \E x \in Present(R(daemon[n])) : SameOwner(x, po)

Lighter ==
    /\ ~crossed
    /\ used.kind # "pair" =>
         /\ used'.drops = 0
         /\ \A h \in Holders : busy'[h].op # "get" /\ (busy'[h] # NoRequest => h[2] = 1)
    /\ used.kind = "join" => used'.fails = 0 /\ \A n \in Nodes : NoJunk(n)
=============================================================================
