----------------------------- MODULE MCSemifinal -----------------------------
(***************************************************************************)
(* Two papers of the discovery window that disagree, a later one, and an   *)
(* index and a model that may answer in two ways.                          *)
(***************************************************************************)
EXTENDS Semifinal, TLC

CONSTANTS full, thin

MCPassages == 1 .. 4
MCDocOf == 1 :> 1 @@ 2 :> 2 @@ 3 :> 3 @@ 4 :> 2
MCSays == 1 :> {"a"} @@ 2 :> {"b"} @@ 3 :> {"a", "b"} @@ 4 :> {"b"}
MCNumbers == "a" :> {26} @@ "b" :> {} @@ "c" :> {}
MCHolds == full :> 1 .. 4 @@ thin :> {2, 3}

cell == <<"SnSe", "vacancy", "ZT">>
other == <<"PbTe", "vacancy", "ZT">>
Relation(p, k, d, q, v, method) ==
    [passage |-> p, cell |-> k, direction |-> d, quote |-> q, value |-> v, temperature |-> 0,
     sound |-> TRUE, method |-> method]

\* The full index is read into an increase and a decrease (and a claim of a
\* passage that was not shown); the thin one proposes a fabricated quote, a
\* number the quote does not contain and one calculated relation.
MCProposals ==
    full :> << Relation(1, cell, "increase", "a", 26, "experiment"),
               Relation(2, cell, "decrease", "b", 0, "experiment") >>
    @@ thin :> << Relation(1, cell, "increase", "c", 0, "experiment"),
                  Relation(2, cell, "decrease", "b", 31, "experiment"),
                  Relation(2, other, "increase", "b", 0, "dft") >>

MCDigest == <<cell, "increase">> :> 1 @@ <<cell, "decrease">> :> 3 @@ <<other, "increase">> :> 2

MCVerdict ==
    full :> [parsed |-> TRUE, verdict |-> "contradicted", scope |-> FALSE, quote |-> "a",
             addresses |-> TRUE]
    @@ thin :> [parsed |-> TRUE, verdict |-> "supported", scope |-> TRUE, quote |-> "b",
                addresses |-> FALSE]

MCNarration ==
    full :> [parsed |-> TRUE, verdict |-> "gap", statement |-> 1, novelty |-> "new",
             quote |-> NoQuote]
    @@ thin :> [parsed |-> TRUE, verdict |-> "gap", statement |-> 2, novelty |-> "known",
                quote |-> "a"]

MCMethods == <<"V1-dual-retrieval", "V3-full">>
=============================================================================
