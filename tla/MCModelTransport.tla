-------------------------- MODULE MCModelTransport --------------------------
(***************************************************************************)
(* Constants for model checking paid calls.                                *)
(***************************************************************************)
EXTENDS ModelTransport, TLC

CONSTANTS o1, o2, h1, h2

UnitCost == [o \in Operations |-> 1]

\* One operation id is reused for another request, the other one is not.
MCRequests == [o \in Operations |-> IF o = o1 THEN {h1, h2} ELSE {h1}]
OneRequest == [o \in Operations |-> {h1}]

CallerSymmetry == Permutations(Callers)
=============================================================================
