----------------------------- MODULE PlockGroup -----------------------------
(***************************************************************************)
(* The daemons of a lockspace and the posix locks on one byte of a file.   *)
(* CPG delivers requests (plock), changes of owner (own), the locks of a   *)
(* former owner (sync), drops, membership changes and the two messages of  *)
(* the start protocol to all members in the same order (inbox, as in       *)
(* LockspaceGroup).  The start protocol itself is the subject of           *)
(* LockspaceGroup; here the last start message of a change is one event,   *)
(* put into the queues when all members have seen the change.              *)
(***************************************************************************)
EXTENDS PlockDaemon

CONSTANTS
    Ownership, \* the possible settings of cfgd_plock_ownership
    Founders,  \* the members to begin with, which have plock state
    Joiners,   \* nodes that may join
    Owners,    \* posix lock owners on a node
    Ops,       \* the requests the kernel may make: [op, ex, wait]
    Junk,      \* what uninitialized flags may hold
    MaxOps, MaxDrops, MaxFails   \* bounds

Nodes == Founders \cup Joiners
Holders == Nodes \X Owners

ASSUME PlockGroupAssumption ==
    /\ Nodes \subseteq Nat \ {0} /\ Founders # {} /\ Founders \cap Joiners = {}
    /\ Ops \subseteq [op : {"lock", "unlock", "get"}, ex : BOOLEAN, wait : BOOLEAN]
    /\ Ownership \subseteq BOOLEAN
    /\ Junk \subseteq BOOLEAN /\ Junk # {}
    /\ MaxOps \in Nat /\ MaxDrops \in Nat /\ MaxFails \in Nat

VARIABLES
    daemon,    \* daemon[n], see PlockDaemon
    inbox,     \* inbox[n]: what CPG has yet to deliver to n
    group,     \* members of the group
    ckpt,      \* the sections of the checkpoint
    starts,    \* number of starts so far
    claim,     \* claim[h]: the lock holder h may rely on (history)
    busy,      \* busy[h]: the request h waits for an answer to
    crossed,   \* whether a drop has been on its way with another message (history)
    used       \* numbers of requests, drops and failures so far

vars == <<daemon, inbox, group, ckpt, starts, claim, busy, crossed, used>>

NoRequest == [op |-> "none", ex |-> FALSE, wait |-> FALSE]

Init == /\ \E ownership \in Ownership :
             daemon = [n \in Nodes |-> [NewDaemon(ownership) EXCEPT !.need = n \in Joiners]]
        /\ inbox = [n \in Nodes |-> <<>>]
        /\ group = Founders
        /\ ckpt = <<>>
        /\ starts = 0
        /\ claim = [h \in Holders |-> "none"]
        /\ busy = [h \in Holders |-> NoRequest] /\ crossed = FALSE
        /\ used = [ops |-> 0, drops |-> 0, fails |-> 0]

Mode(in) == IF in.op = "unlock" THEN "none" ELSE IF in.ex THEN "wr" ELSE "rd"

\* A holder that asks for less may be taken at its word at once.
Lowered(old, in) == IF in.op = "get" THEN old
                    ELSE IF old = "wr" THEN Mode(in) ELSE IF in.op = "unlock" THEN "none" ELSE old

\* The results d.done reach the kernel of node n.
Answered(n, d, c, b) ==
    LET Of(h) == {x \in d.done : h = <<n, x.owner>>}
        Gets(h) == \E x \in Of(h) : x.rv = "ok" /\ b[h].op = "lock"
    IN  /\ claim' = [h \in Holders |-> IF Gets(h) THEN Mode(b[h]) ELSE c[h]]
        /\ busy' = [h \in Holders |-> IF Of(h) # {} THEN NoRequest ELSE b[h]]

Multicast(box, msgs) == [m \in Nodes |-> IF m \in group THEN box[m] \o msgs ELSE box[m]]

PlockTypes == {"plock", "own", "drop", "sync_lock", "sync_waiter"}

\* A message of one of the types is in box, in the queue of a node of S.
InFlight(box, S, types) == \E m \in S : \E i \in DOMAIN box[m] : box[m][i].type \in types

\* A drop and another message are on their way.
Crossing(box) ==
    InFlight(box, group, {"drop"}) /\ InFlight(box, group, PlockTypes \ {"drop"})

\* The end of a callback on node n: d is the new state, rest its queue.
EndCallback(n, d, rest, c, b) ==
    /\ daemon' = [daemon EXCEPT ![n] = [d EXCEPT !.send = <<>>, !.done = {}]]
    /\ inbox' = Multicast([inbox EXCEPT ![n] = rest], d.send)
    /\ crossed' = (crossed \/ Crossing(inbox'))
    /\ Answered(n, d, c, b)

Callback(n, d) == EndCallback(n, d, Tail(inbox[n]), claim, busy)

NextEvent(n) == Head(inbox[n])

-----------------------------------------------------------------------------
(* The kernel and time *)

Pending(S, types) == InFlight(inbox, S, types)

\* No plock messages are sent that a new member would receive before it saves them, and
\* it makes no requests before it has its state: the code relies on both.
Quiet == \A m \in group : daemon[m].need => daemon[m].save \/ Pending({m}, {"start"})

MayAsk(n) == Quiet /\ ~daemon[n].need

\* process_plocks; a holder has one request at a time, and unlocks what it has
ProcessPlocks(n, who, op) ==
    LET h  == <<n, who>>
        in == [op |-> op.op, node |-> n, owner |-> who, ex |-> op.ex, wait |-> op.wait,
               start |-> 0, end |-> 0]
    IN  /\ n \in group /\ used.ops < MaxOps
        /\ MayAsk(n) /\ busy[h] = NoRequest
        /\ op.op = "unlock" => claim[h] # "none"
        /\ used' = [used EXCEPT !.ops = @ + 1]
        /\ \E d \in {process_plocks(daemon[n], n, in, junk) : junk \in Junk} :
             EndCallback(n, d, inbox[n],
                         [claim EXCEPT ![h] = Lowered(@, in)], [busy EXCEPT ![h] = op])
        /\ UNCHANGED <<group, ckpt, starts>>

\* drop_resources at the end of process_plocks for another file
DropResources(n) ==
    /\ n \in group /\ used.drops < MaxDrops /\ MayAsk(n)
    /\ daemon[n].ownership /\ Found(daemon[n]) /\ Unused(R(daemon[n]))
    /\ used' = [used EXCEPT !.drops = @ + 1]
    /\ \E d \in {drop_resources(daemon[n], n)} \ {daemon[n]} :
         EndCallback(n, d, inbox[n], claim, busy)
    /\ UNCHANGED <<group, ckpt, starts>>

-----------------------------------------------------------------------------
(* CPG callbacks *)

DeliverPlock(n) ==
    /\ inbox[n] # <<>> /\ NextEvent(n).type \in PlockTypes
    /\ \E d \in {Receive(daemon[n], n, NextEvent(n), junk) : junk \in Junk} : Callback(n, d)
    /\ UNCHANGED <<group, ckpt, starts, used>>

DeliverConfchg(n) ==
    /\ inbox[n] # <<>> /\ NextEvent(n).type = "confchg"
    /\ \E d \in {Confchg(daemon[n], n, NextEvent(n).joined, NextEvent(n).removed)} :
         Callback(n, d)
    /\ UNCHANGED <<group, ckpt, starts, used>>

\* The last start message of a change
DeliverStart(n) ==
    /\ inbox[n] # <<>> /\ NextEvent(n).type = "start"
    /\ \E o \in prepare_plocks(daemon[n], n, NextEvent(n), ckpt) :
         /\ Callback(n, [o.d EXCEPT !.changing = FALSE, !.added = FALSE,
                                    !.started = NextEvent(n).no])
         /\ ckpt' = o.ckpt
    /\ UNCHANGED <<group, starts, used>>

DeliverStored(n) ==
    /\ inbox[n] # <<>> /\ NextEvent(n).type = "stored"
    /\ \E d \in {receive_plocks_stored(daemon[n], n, NextEvent(n), ckpt, junk) : junk \in Junk} :
         Callback(n, d)
    /\ UNCHANGED <<group, ckpt, starts, used>>

-----------------------------------------------------------------------------
(* The group *)

Post(S, ev) == inbox' = [m \in Nodes |-> IF m \in S THEN Append(inbox[m], ev) ELSE inbox[m]]

\* All members have seen the last change and sent their start messages.
Start ==
    /\ \A m \in group : daemon[m].changing
    /\ ~Pending(group, {"confchg", "start"})
    /\ LET have == {m \in group : ~daemon[m].need}
       IN  Post(group, [type |-> "start", members |-> group, no |-> starts + 1,
                        low |-> IF have = {} THEN 0 ELSE Min(have)])
    /\ starts' = starts + 1
    /\ UNCHANGED <<daemon, group, ckpt, claim, busy, crossed, used>>

Join(n) ==
    /\ n \in Joiners \ group /\ daemon[n].started = 0 /\ inbox[n] = <<>>
    /\ ~Pending(group, PlockTypes)
    /\ group' = group \cup {n}
    /\ Post(group', [type |-> "confchg", joined |-> {n}, removed |-> {}])
    /\ UNCHANGED <<daemon, ckpt, starts, claim, busy, crossed, used>>

\* A node leaves or fails; its processes are gone.
Fail(n) ==
    /\ n \in group /\ used.fails < MaxFails /\ group # {n}
    /\ used' = [used EXCEPT !.fails = @ + 1]
    /\ group' = group \ {n}
    /\ inbox' = [m \in Nodes |->
                    IF m = n THEN <<>>
                    ELSE IF m \in group'
                    THEN Append(inbox[m], [type |-> "confchg", joined |-> {}, removed |-> {n}])
                    ELSE inbox[m]]
    /\ daemon' = [daemon EXCEPT ![n] = [NewDaemon(daemon[n].ownership) EXCEPT !.started = starts + 1]]
    /\ claim' = [h \in Holders |-> IF h[1] = n THEN "none" ELSE claim[h]]
    /\ busy' = [h \in Holders |-> IF h[1] = n THEN NoRequest ELSE busy[h]]
    /\ UNCHANGED <<ckpt, starts, crossed>>

Deliver(n) == DeliverPlock(n) \/ DeliverConfchg(n) \/ DeliverStart(n) \/ DeliverStored(n)

Next == \/ \E n \in Nodes : \/ Deliver(n) \/ DropResources(n) \/ Join(n) \/ Fail(n)
                            \/ \E who \in Owners, op \in Ops : ProcessPlocks(n, who, op)
        \/ Start

Spec == Init /\ [][Next]_vars

-----------------------------------------------------------------------------
(* Properties *)

\* What the kernels have been told does not conflict: no two holders, on whatever
\* nodes, have the byte locked if one of them has it exclusively, however requests
\* cross changes of owner, failures and joins, and whatever is dropped when nothing
\* else is on its way.  A drop that crosses other messages can break it, with two
\* nodes: see UnownedIsReplicated.
MutualExclusion ==
    ~crossed => \A g, h \in Holders : g # h /\ claim[g] = "wr" => claim[h] = "none"

\* Nothing is on its way.
AtRest == /\ \A n \in group : inbox[n] = <<>> /\ ~daemon[n].changing
          /\ \A n \in group : ~daemon[n].need /\ ~daemon[n].save

Plain(r) == [locks |-> {[po EXCEPT !.syncing = FALSE] : po \in r.locks},
             waiters |-> [i \in DOMAIN r.waiters |-> [r.waiters[i] EXCEPT !.syncing = FALSE]]]

\* The resource as node n sees it; none is the same as a fresh one.
Replica(n) == R(find_resource(daemon[n]))

\* When nothing is on its way, and no drop has crossed another message, all nodes
\* agree on the owner of the resource; if it has none they have the same locks and
\* waiters, and if it has one the others have none.
Agreement ==
    AtRest /\ ~crossed => \A n, m \in group :
        /\ Replica(n).owner = Replica(m).owner
        /\ Replica(n).owner = 0 => Plain(Replica(n)) = Plain(Replica(m))
        /\ Replica(n).owner = n /\ n # m => Unused(Replica(m))

\* When nothing is on its way, and no drop has crossed another message, every request
\* has been answered, except those that wait for a lock that somebody else does hold.
NothingStuck ==
    AtRest /\ ~crossed => \A h \in Holders :
        busy[h] # NoRequest => /\ busy[h].wait
                               /\ \E g \in Holders \ {h} : /\ claim[g] # "none"
                                                           /\ claim[g] = "wr" \/ busy[h].ex

\* The messages that "should not happen" according to _receive_own, _receive_sync,
\* clear_syncing_flag and _receive_drop do not: a relinquished resource is known to
\* all, syncs arrive before the owner is 0 and add no lock twice, as long as no drop
\* has crossed another message.
NothingUnexpected ==
    ~crossed => \A n \in group : inbox[n] # <<>> /\ ~daemon[n].save =>
        LET msg == NextEvent(n)
            d   == daemon[n]
        IN  /\ msg.type = "own" => ~ShouldNotHappen(d, n, msg)
            /\ msg.type \in {"sync_lock", "sync_waiter"} => Found(d)
            /\ msg.type = "sync_lock" =>
                 \A po \in R(d).locks : SameOwner(po, msg.lock) => msg.from = n /\ po.syncing
            /\ msg.type = "drop" /\ Found(d) /\ R(d).owner = 0 => R(d).pending = <<>>

-----------------------------------------------------------------------------
(* What a comment of plock.c says and the code does not do *)

\* "plock state replicated on all nodes" (process_plocks, owner 0): when nothing is
\* on its way and one node thinks that the resource has no owner, all nodes have
\* the locks and waiters it has.
UnownedIsReplicated ==
    AtRest => \A n, m \in group :
        Replica(n).owner = 0 => Replica(m).owner = 0 /\ Plain(Replica(n)) = Plain(Replica(m))

=============================================================================
