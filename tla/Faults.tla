------------------------------- MODULE Faults -------------------------------
(***************************************************************************)
(* The failures a run allows: how many SQL statements may return an error, *)
(* how many listening connections may break, how often the process may     *)
(* crash.  The code has no such counter; it bounds what TLC explores.      *)
(***************************************************************************)
EXTENDS Naturals

FaultKinds == {"error", "disconnect", "crash"}

CONSTANT Budget \* [FaultKinds -> Nat]

VARIABLE budget \* what is left of it

ASSUME BudgetAssumption == Budget \in [FaultKinds -> Nat]

Fault(kind) == budget[kind] > 0 /\ budget' = [budget EXCEPT ![kind] = @ - 1]

NoFault == UNCHANGED budget

FaultsInit == budget = Budget

FaultsTypeOK == budget \in [FaultKinds -> Nat]

=============================================================================
