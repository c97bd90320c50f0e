--------------------------- MODULE MCOrderedRunner ---------------------------
(***************************************************************************)
(* Constants for model checking ordered runs with policy memory.           *)
(***************************************************************************)
EXTENDS OrderedRunner, TLC

CONSTANT s1

TwoTasks == 1 .. 2
FamilyOf == 1 :> "alloys" @@ 2 :> "oxides"

\* _wilson_lower of the code for up to three trials, rounded down.
WilsonTable == <<0, 1>> :> 0   @@ <<1, 1>> :> 206 @@ <<0, 2>> :> 0   @@ <<1, 2>> :> 94
            @@ <<2, 2>> :> 342 @@ <<0, 3>> :> 0   @@ <<1, 3>> :> 61  @@ <<2, 3>> :> 207
            @@ <<3, 3>> :> 438

\* A right decision with a strategy to propose, and a wrong one.
MCAnswers == {[good |-> TRUE, candidates |-> {s1}], [good |-> FALSE, candidates |-> {}]}
=============================================================================
