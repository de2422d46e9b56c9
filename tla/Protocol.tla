------------------------------ MODULE Protocol ------------------------------
(***************************************************************************)
(* How the dlm_controlds of a cluster agree on the versions of the daemon  *)
(* and of the kernel protocol they run: set_protocol in cpg.c, over the    *)
(* CPG group dlm:controld.  A daemon sends what it supports whenever one   *)
(* joins; one that has this from all the members proposes the least of     *)
(* them; who has no versions to run yet takes those of the first message   *)
(* that carries some.  A daemon that cannot run them gives up.             *)
(*                                                                         *)
(* CPG is modelled as in LockspaceGroup: one order of messages and         *)
(* confchgs, a message in it when it is sent.  A network that splits is    *)
(* left out.                                                               *)
(***************************************************************************)
EXTENDS Integers, Sequences, FiniteSets

CONSTANTS
    Nodes,
    Versions,  \* versions <<major, minor, patch>>
    Supports,  \* Supports[n]: what the daemon of n may support, as pairs [daemon, kernel]
    MaxJoins,  \* bound on starts of a daemon
    MaxGone    \* bound on daemons that leave or fail while they negotiate or run

Pairs == [daemon : Versions, kernel : Versions]

\* Zero is an invalid version value.
ASSUME ProtocolAssumption ==
    /\ IsFiniteSet(Nodes)
    /\ Versions \subseteq (Nat \ {0}) \X (Nat \ {0}) \X (Nat \ {0})
    /\ Supports \in [Nodes -> SUBSET Pairs]
    /\ MaxJoins \in Nat /\ MaxGone \in Nat

\* run values before a version is set; the proto of a node of which we have no message
Unset == [daemon |-> <<0, 0, 0>>, kernel |-> <<0, 0, 0>>]

VARIABLES
    pc,       \* pc[n]: "off", "negotiating" (in set_protocol), "up" or "failed"
    max,      \* max[n]: our_protocol.daemon_max and kernel_max
    run,      \* run[n]: our_protocol.daemon_run and kernel_run
    nodes,    \* nodes[n]: daemon_nodes, nodes that n has heard of
    proto,    \* proto[n][m]: the max values that n has saved of m
    member,   \* member[n]: daemon_member
    sent,     \* sent[n]: sent_proposal
    group,    \* the nodes in the CPG group
    inbox,    \* inbox[n]: what CPG has yet to deliver to n
    joins,    \* number of joins so far
    gone,     \* number of departures so far
    first,    \* the run values of the first proposal, Unset if there was none (history)
    founders, \* the nodes that were in the group when it was sent, and still are (history)
    over      \* over[n]: the max values of which n's run values are the least (history)

daemonVars == <<pc, max, run, nodes, proto, member, sent>>
history == <<first, founders, over>>
vars == <<daemonVars, group, inbox, joins, gone, history>>

Init == /\ pc = [n \in Nodes |-> "off"]
        /\ max = [n \in Nodes |-> Unset] /\ run = [n \in Nodes |-> Unset]
        /\ nodes = [n \in Nodes |-> {}]
        /\ proto = [n \in Nodes |-> [m \in Nodes |-> Unset]]
        /\ member = [n \in Nodes |-> {}]
        /\ sent = [n \in Nodes |-> FALSE]
        /\ group = {} /\ inbox = [n \in Nodes |-> <<>>] /\ joins = 0 /\ gone = 0
        /\ first = Unset /\ founders = {} /\ over = [n \in Nodes |-> {}]

-----------------------------------------------------------------------------
(* pick_min_protocol *)

Least(S) == CHOOSE i \in S : \A j \in S : i <= j

\* Mutant: the minimum of each number by itself, but the newest minor.
pick_min_Newest(S) ==
    LET major == Least({v[1] : v \in S})
        minor == -Least({-v[2] : v \in {w \in S : w[1] = major}})
    IN  <<major, minor, Least({v[3] : v \in {w \in S : w[1] = major /\ w[2] = minor}})>>

\* The minimum major, the minimum minor with that major, the minimum patch with those
pick_min(S) ==
    LET major == Least({v[1] : v \in S})
        minor == Least({v[2] : v \in {w \in S : w[1] = major}})
    IN  <<major, minor, Least({v[3] : v \in {w \in S : w[1] = major /\ w[2] = minor}})>>

pick_min_protocol(ps) == [daemon |-> pick_min({p.daemon : p \in ps}),
                          kernel |-> pick_min({p.kernel : p \in ps})]

\* The versions ver can be run by one who supports sup.
Compatible(ver, sup) == ver[1] = sup[1] /\ ver[2] <= sup[2]

Incompatible(n, r) == ~(Compatible(r.daemon, max[n].daemon) /\ Compatible(r.kernel, max[n].kernel))

-----------------------------------------------------------------------------
(* Messages *)

Confchg(members, joined) == [type |-> "confchg", members |-> members, joined |-> joined]

\* The field over is history: the max values that went into r.
ProtocolMsg(n, r, o) == [type |-> "protocol", from |-> n, max |-> max[n], run |-> r, over |-> o]

\* send_protocol: msgs go to the members, g, after the head of n's inbox has been taken.
Send(n, msgs) ==
    inbox' = [m \in Nodes |-> (IF m = n THEN Tail(inbox[n]) ELSE inbox[m])
                                \o (IF m \in group THEN msgs ELSE <<>>)]

\* n's next event, and whether its dispatch ends with it: cpg_dispatch goes on as long as
\* there are events, set_protocol looks at the result only then.
Event(n, type, last) ==
    /\ pc[n] \in {"negotiating", "up"} /\ inbox[n] # <<>> /\ Head(inbox[n]).type = type
    /\ last \/ Tail(inbox[n]) # <<>>

-----------------------------------------------------------------------------
(* set_protocol, after a dispatch: the daemon has the run values r, the saved protos p and
   the members ms *)

all_protocol_messages(n, p, ms) == ms # {} /\ \A m \in ms : p[m] # Unset

Proposes(n, r, p, ms) == /\ pc[n] = "negotiating" /\ r = Unset /\ ~sent[n]
                         /\ all_protocol_messages(n, p, ms)

\* The proposals that n sends: none, or one
Proposal(n, r, p, ms, last) ==
    IF last /\ Proposes(n, r, p, ms)
    THEN LET ps == {p[m] : m \in ms} IN <<ProtocolMsg(n, pick_min_protocol(ps), ps)>>
    ELSE <<>>

\* pc, sent and the history after it
set_protocol(n, r, last, proposal) ==
    /\ pc' = IF last /\ pc[n] = "negotiating" /\ r # Unset
             THEN [pc EXCEPT ![n] = IF Incompatible(n, r) THEN "failed" ELSE "up"] ELSE pc
    /\ sent' = IF proposal = <<>> THEN sent ELSE [sent EXCEPT ![n] = TRUE]
    /\ IF proposal = <<>> \/ first # Unset THEN UNCHANGED <<first, founders>>
       ELSE first' = proposal[1].run /\ founders' = group

-----------------------------------------------------------------------------
(* Callbacks *)

\* Mutant: the newest versions win.
Adopts_Newest(n, msg) == msg.run # Unset

\* receive_protocol: versions to run are taken over once
Adopts(n, msg) == run[n] = Unset /\ msg.run # Unset
Saves(n, msg) == run[n] = Unset /\ msg.run = Unset /\ msg.from \in nodes[n]

receive_protocol(n, last) ==
    /\ Event(n, "protocol", last)
    /\ \E msg \in {Head(inbox[n])} :
         \E r \in {IF Adopts(n, msg) THEN msg.run ELSE run[n]},
            p \in {IF Saves(n, msg) THEN [proto[n] EXCEPT ![msg.from] = msg.max] ELSE proto[n]} :
           \E proposal \in {Proposal(n, r, p, member[n], last)} :
             /\ run' = [run EXCEPT ![n] = r]
             /\ proto' = [proto EXCEPT ![n] = p]
             /\ over' = IF Adopts(n, msg) THEN [over EXCEPT ![n] = msg.over] ELSE over
             /\ set_protocol(n, r, last, proposal)
             /\ Send(n, proposal)
    /\ UNCHANGED <<max, nodes, member, group, joins, gone>>

\* Mutant: a daemon that has its versions does not tell those who join.
Greets_Undecided(n, ev) == ev.joined # {} /\ run[n] = Unset

Greets(n, ev) == ev.joined # {}

\* Mutant: a new member is not put on the list.
add_node_daemon_None(list, members) == list

add_node_daemon(list, members) == list \cup members

confchg_cb_daemon(n, last) ==
    /\ Event(n, "confchg", last)
    /\ \E ev \in {Head(inbox[n])} :
         \E proposal \in {Proposal(n, run[n], proto[n], ev.members, last)} :
           /\ nodes' = [nodes EXCEPT ![n] = add_node_daemon(@, ev.members)]
           /\ member' = [member EXCEPT ![n] = ev.members]
           /\ set_protocol(n, run[n], last, proposal)
           /\ Send(n, (IF Greets(n, ev) THEN <<ProtocolMsg(n, run[n], over[n])>> ELSE <<>>) \o proposal)
    /\ UNCHANGED <<max, run, proto, group, joins, gone, over>>

-----------------------------------------------------------------------------
(* Membership *)

Post(box, members, joined) ==
    [m \in Nodes |-> IF m \in members THEN Append(box[m], Confchg(members, joined)) ELSE box[m]]

\* setup_cpg: a daemon starts with the max values v and joins.
setup_cpg(n, v) ==
    /\ pc[n] = "off" /\ joins < MaxJoins
    /\ joins' = joins + 1
    /\ pc' = [pc EXCEPT ![n] = "negotiating"]
    /\ max' = [max EXCEPT ![n] = v]
    /\ group' = group \cup {n}
    /\ inbox' = Post(inbox, group \cup {n}, {n})
    /\ UNCHANGED <<run, nodes, proto, member, sent, gone, history>>

\* close_cpg, or the end of the process: its memory is gone.
Leave(n) ==
    /\ pc' = [pc EXCEPT ![n] = "off"]
    /\ max' = [max EXCEPT ![n] = Unset] /\ run' = [run EXCEPT ![n] = Unset]
    /\ nodes' = [nodes EXCEPT ![n] = {}]
    /\ proto' = [proto EXCEPT ![n] = [m \in Nodes |-> Unset]]
    /\ member' = [member EXCEPT ![n] = {}]
    /\ sent' = [sent EXCEPT ![n] = FALSE]
    /\ over' = [over EXCEPT ![n] = {}]
    /\ group' = group \ {n} /\ founders' = founders \ {n}
    /\ inbox' = [Post(inbox, group \ {n}, {}) EXCEPT ![n] = <<>>]
    /\ UNCHANGED <<joins, first>>

\* set_protocol has returned an error.
Exit(n) == pc[n] = "failed" /\ Leave(n) /\ UNCHANGED gone

\* A daemon is stopped, or fails.
Depart(n) == pc[n] \in {"negotiating", "up"} /\ gone < MaxGone /\ gone' = gone + 1 /\ Leave(n)

Dispatch(n) == \E last \in BOOLEAN : receive_protocol(n, last) \/ confchg_cb_daemon(n, last)

Next == \/ \E n \in Nodes : \E v \in Supports[n] : setup_cpg(n, v)
        \/ \E n \in Nodes : Dispatch(n)
        \/ \E n \in Nodes : Exit(n)
        \/ \E n \in Nodes : Depart(n)

\* The daemons poll and dispatch; one that has given up exits.
Fairness == WF_vars(\E n \in Nodes : Dispatch(n)) /\ WF_vars(\E n \in Nodes : Exit(n))

Spec == Init /\ [][Next]_vars /\ Fairness

-----------------------------------------------------------------------------
Known == Pairs \cup {Unset}

Events == [type : {"confchg"}, members : SUBSET Nodes, joined : SUBSET Nodes]
            \cup [type : {"protocol"}, from : Nodes, max : Known, run : Known, over : SUBSET Known]

\* The state has its types; the members are nodes that the daemon has heard of.
TypeOK ==
    /\ pc \in [Nodes -> {"off", "negotiating", "up", "failed"}]
    /\ max \in [Nodes -> Known] /\ run \in [Nodes -> Known]
    /\ nodes \in [Nodes -> SUBSET Nodes] /\ proto \in [Nodes -> [Nodes -> Known]]
    /\ member \in [Nodes -> SUBSET Nodes] /\ \A n \in Nodes : member[n] \subseteq nodes[n]
    /\ sent \in [Nodes -> BOOLEAN]
    /\ group = {n \in Nodes : pc[n] # "off"}
    /\ inbox \in [Nodes -> Seq(Events)]
    /\ joins \in 0 .. MaxJoins /\ gone \in 0 .. MaxGone
    /\ first \in Known /\ founders \subseteq group /\ over \in [Nodes -> SUBSET Known]

\* The daemons that were there when the first proposal was made run the same versions,
\* whoever else has made a proposal, joined or failed: receive_protocol takes the first
\* versions in an order of messages that is the same for all.
FoundersAgree == \A n \in founders : run[n] \in {Unset, first}

OneMajor(ps) == \A p, q \in ps : p.daemon[1] = q.daemon[1] /\ p.kernel[1] = q.kernel[1]

\* A daemon whose max values have gone into the versions chosen can run them: it gives
\* up only when the majors differ.
NoFounderExcluded ==
    \A n \in Nodes : pc[n] = "failed" /\ max[n] \in over[n] => ~OneMajor(over[n])

\* Every daemon comes to run a protocol, gives up or leaves: nobody waits for the message
\* of one that has failed, or for a proposal that nobody will make.
Negotiated ==
    (\E n \in Nodes : pc[n] = "negotiating") ~> (\A n \in Nodes : pc[n] # "negotiating")
=============================================================================
