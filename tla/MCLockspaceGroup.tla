------------------------- MODULE MCLockspaceGroup -------------------------
(***************************************************************************)
(* LockspaceGroup for TLC.  Under the action constraint FormationFirst the *)
(* nodes 1 .. Formed join first, each one when the lockspace runs on the   *)
(* earlier ones, in one fixed order of steps, and then everything may      *)
(* happen: the runs that use it look at the behaviours that begin with an  *)
(* undisturbed formation.                                                  *)
(***************************************************************************)
EXTENDS LockspaceGroup

CONSTANT Formed

ASSUME FormedAssumption == 1 .. Formed \subseteq Nodes

Pending == {n \in Nodes : inbox[n] # <<>>}

Forming == view < Formed \/ (view = Formed /\ Pending # {})

FormationStep ==
    IF Pending = {}
    THEN Join(view + 1)
    ELSE LET n == CHOOSE n \in Pending : \A m \in Pending : n <= m
         IN  DeliverConfchg(n) \/ DeliverMessage(n)

FormationFirst == Forming => FormationStep
=============================================================================
