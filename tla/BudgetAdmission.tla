--------------------------- MODULE BudgetAdmission ---------------------------
(***************************************************************************)
(* What a budget enforcer promises, apart from how the in-memory one keeps *)
(* its books.  An account (one identity in one accounting period) has a    *)
(* committed amount: what was admitted and is still outstanding, at its    *)
(* projected cost, plus what was admitted and settled, at its real cost.   *)
(* A call is admitted only when it fits under the cap together with all    *)
(* that is committed already; settling it replaces its projection by its   *)
(* real cost.                                                              *)
(***************************************************************************)
EXTENDS Integers

CONSTANTS
    Account,    \* the accounts: an identity in a period
    Projected,  \* the projected costs a consultation may carry
    Actual,     \* the real costs a model call may have
    Cap         \* the cap of an account in one period

VARIABLE committed  \* committed[a]: the amount of account a spoken for

Init == committed = [a \in Account |-> 0]

Admit(a, x) ==
    /\ committed[a] + x < Cap
    /\ committed' = [committed EXCEPT ![a] = @ + x]

Settle(a, x, y) ==
    committed' = [committed EXCEPT ![a] = @ + y - x]

\* The process restarts: an in-memory enforcer starts from nothing.
Forget == committed' = [a \in Account |-> 0]

Next ==
    \/ \E a \in Account, x \in Projected : Admit(a, x)
    \/ \E a \in Account, x \in Projected, y \in Actual : Settle(a, x, y)
    \/ Forget

Spec == Init /\ [][Next]_committed
=============================================================================
