------------------------------ MODULE Workload ------------------------------
(***************************************************************************)
(* What a behaviour is asked to do, so many requests of each kind, and how *)
(* often the clock ticks in it.                                            *)
(***************************************************************************)
EXTENDS Naturals

CONSTANTS
    Thread,  \* what works at requests at once: threads of a pool, tasks of an event loop
    Loads,   \* bounds: how many requests of each kind a behaviour has
    None

ASSUME LoadsAssumption ==
    \A ops \in Loads : DOMAIN ops \subseteq STRING /\ \A op \in DOMAIN ops : ops[op] \in Nat

VARIABLE load  \* the requests to come, by their kind

Issues(op) ==
    /\ op \in DOMAIN load /\ load[op] > 0
    /\ load' = [load EXCEPT ![op] = @ - 1]
=============================================================================
