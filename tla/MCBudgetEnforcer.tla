-------------------------- MODULE MCBudgetEnforcer --------------------------
(***************************************************************************)
(* Instances of BudgetEnforcer for TLC.                                    *)
(***************************************************************************)
EXTENDS BudgetEnforcer, TLC

CONSTANTS p1, p2, p3, i1, i2, class

\* Turn i1 runs a root agent and a sub-agent that charge the class; turn i2
\* charges it too: two students of one class.
ClassInvocationOf == p1 :> i1 @@ p2 :> i1 @@ p3 :> i2
ClassIdentityOf == p1 :> class @@ p2 :> class @@ p3 :> class

\* A calendar of two periods.
Calendar == [t \in Time |-> IF t < 2 THEN "p0" ELSE "p1"]
=============================================================================
