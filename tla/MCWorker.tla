------------------------------ MODULE MCWorker ------------------------------
(***************************************************************************)
(* Constants for model checking the workers on the job store.              *)
(***************************************************************************)
EXTENDS Worker, TLC

CONSTANTS p1, p2, w1, w2

\* Two processes with ids of their own, or the same script started twice.
DistinctIds == {p1 :> w1 @@ p2 :> w2}
AnyIds == DistinctIds \cup {p1 :> w1 @@ p2 :> w1}

\* A rejected result is also the more expensive one: two of them do not fit.
MCBudgets == {[calls |-> 3]}
MCUsages == {[calls |-> 1], [calls |-> 2]}
MCUsageOf == [r \in Results |-> [calls |-> IF r \in Rejected THEN 2 ELSE 1]]
MCCheckpointKeys == Stage
MCChargeKeys == EXECUTION_STAGES
MCErrorCodes == Codes
=============================================================================
