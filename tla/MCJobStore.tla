----------------------------- MODULE MCJobStore -----------------------------
(***************************************************************************)
(* The job store on a small instance: budgets and usages.                  *)
(***************************************************************************)
EXTENDS JobStore

MCBudgets == {[calls |-> 2, tokens |-> 1]}
MCUsages == {[calls |-> 1, tokens |-> 0], [calls |-> 1, tokens |-> 1]}
=============================================================================
