----------------------------- MODULE MCDeadlock -----------------------------
(***************************************************************************)
(* DeadlockGroup for TLC.  Nodes 2 and 3 have the transactions and master  *)
(* the resources; node 1 may join them and is then the lowest one.         *)
(***************************************************************************)
EXTENDS DeadlockGroup

HomeOf == [x \in 1 .. 3 |-> IF x = 1 THEN 2 ELSE 3]
MasterOf == [r \in {"r1", "r2"} |-> IF r = "r1" THEN 2 ELSE 3]

\* What a transaction may have of a resource: nothing, or a lock
Entries(x, r) ==
    {{}} \cup {{Lock(x, r, GRANTED, EX, IV)}, {Lock(x, r, WAITING, IV, EX)},
               {Lock(x, r, GRANTED, PR, IV)}, {Lock(x, r, CONVERT, PR, EX)}}

\* Granted modes are compatible, and who waits has to.
Consistent(S) ==
    /\ \A a, b \in S : a.xid # b.xid => dlm_modes_compat(a.grmode, b.grmode)
    /\ \A a \in S : a.status # GRANTED =>
           \E b \in S : b.xid # a.xid /\ ~dlm_modes_compat(b.grmode, a.rqmode)

LocksOf(r) == {S \in {a \cup b \cup c : a \in Entries(1, r), b \in Entries(2, r), c \in Entries(3, r)} : Consistent(S)}

\* The third transaction is on one resource only.
AllTables == {T \in {a \cup b : a \in LocksOf("r1"), b \in LocksOf("r2")} :
                  Cardinality({l \in T : l.xid = 3}) <= 1}

G(x, r) == Lock(x, r, GRANTED, EX, IV)
W(x, r) == Lock(x, r, WAITING, IV, EX)

\* Two transactions of different nodes wait for each other and a third one for them; a
\* chain that one more request closes.
LivelyTables == {{G(1, "r1"), G(2, "r2"), W(1, "r2"), W(2, "r1"), W(3, "r1")},
                 {G(1, "r1"), G(2, "r2"), W(2, "r1"), W(3, "r2")}}

\* The first one, without the third transaction
KnotTable == {G(1, "r1"), G(2, "r2"), W(1, "r2"), W(2, "r1")}

\* One quiet cycle of nodes 2 and 3 on any table; one cycle with a lock operation or a
\* failure to read debugfs, a join and a node's failure; two cycles with a join and a
\* node's failure.
MCInit == \/ InitWith(AllTables, 1, MaxOps, {1})
          \/ InitWith(LivelyTables, 1, 0, {})
          \/ InitWith({KnotTable}, 0, MaxOps, {})

MCSpec == MCInit /\ [][Next]_vars /\ Fairness
=============================================================================
