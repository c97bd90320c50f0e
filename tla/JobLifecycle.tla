---------------------------- MODULE JobLifecycle ----------------------------
(***************************************************************************)
(* What a submitter of a job is promised, without leases, workers, retries *)
(* or crashes: an open job advances through its stages one at a time, never *)
(* loses a finished stage, and closes exactly once; it closes as succeeded *)
(* only when all its stages are finished.                                  *)
(***************************************************************************)
EXTENDS Naturals

CONSTANTS Jobs, StageCount

VARIABLES
    phase,   \* what the submitter sees of each job
    done     \* how many stages are finished for good

vars == <<phase, done>>

Closed == {"succeeded", "failed", "cancelled"}

Init ==
    /\ phase = [j \in Jobs |-> "none"]
    /\ done = [j \in Jobs |-> 0]

Submit(j) ==
    /\ phase[j] = "none"
    /\ phase' = [phase EXCEPT ![j] = "open"]
    /\ UNCHANGED done

FinishStage(j) ==
    /\ phase[j] = "open"
    /\ done[j] < StageCount
    /\ done' = [done EXCEPT ![j] = @ + 1]
    /\ UNCHANGED phase

Succeed(j) ==
    /\ phase[j] = "open"
    /\ done[j] = StageCount
    /\ phase' = [phase EXCEPT ![j] = "succeeded"]
    /\ UNCHANGED done

GiveUp(j) ==
    /\ phase[j] = "open"
    /\ \E outcome \in {"failed", "cancelled"} :
            phase' = [phase EXCEPT ![j] = outcome]
    /\ UNCHANGED done

Next == \E j \in Jobs : Submit(j) \/ FinishStage(j) \/ Succeed(j) \/ GiveUp(j)

Spec == Init /\ [][Next]_vars
=============================================================================
