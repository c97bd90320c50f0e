------------------------------- MODULE Survey -------------------------------
(***************************************************************************)
(* The pure parts of the survey pipeline of src/src/survey and             *)
(* src/src/experiments: what a corpus is built from, which proposals of a  *)
(* model become relations, claims and gaps, and which label or oracle      *)
(* state follows from quote-gated verdicts.  Every operator is a function  *)
(* of the answers `got' already received, a partial function from requests *)
(* (searches and paid calls) to answers; what is still to be asked next is *)
(* the request returned with it, or NoRequest.                             *)
(*                                                                         *)
(* Documents and passages are numbers in the order of their identifiers.   *)
(* A quote occurs in a passage when it is a member of Says: the whitespace *)
(* and case folding of normalise_quote happens in that relation.           *)
(***************************************************************************)
EXTENDS Naturals, FiniteSets, Sequences, FiniteSetsExt

CONSTANTS
    Refused,         \* the outcome of a request whose exception was swallowed
    NoQuote,         \* an empty novelty_quote
    Passages, DocOf, \* passage -> document
    Later,           \* passages of the validation window
    Long,            \* passages of at least min_passage_chars
    Seminal,         \* documents above the citation floor
    Says,            \* passage -> quotes that occur in it
    Numbers,         \* quote -> numbers that occur in it
    PageSize, MaxCandidates, ShardSize, BatchSize, MaxClaims, MaxPerKind, MaxExposed, MaxRead,
    Digest           \* (cell, direction) -> its place in the order of claim_id

\* Identifiers are ordered, and no two claims have the same one.
ASSUME SurveyAssumption ==
    /\ IsFiniteSet(Passages) /\ Passages \subseteq Nat /\ Long \subseteq Passages
    /\ BatchSize \in Nat \ {0} /\ MaxClaims \in Nat /\ MaxPerKind \in Nat
    /\ \A i \in DOMAIN Digest : Digest[i] \in Nat
    /\ \A i, j \in DOMAIN Digest : Digest[i] = Digest[j] => i = j

Documents == {DocOf[p] : p \in Passages}

\* The n least members of a set of numbers, and a set cut into slices of n.
Least(S, n) == {x \in S : Cardinality({y \in S : y < x}) < n}
Slice(S, n, k) == {x \in S : Cardinality({y \in S : y < x}) \div n = k}
Slices(S, n) == {Slice(S, n, k) : k \in 0 .. Cardinality(S)} \ {{}}

\* Requests are tuples; NoRequest says that there is nothing left to ask.
NoRequest == <<"none">>
Pick(S) == IF S = {} THEN NoRequest ELSE CHOOSE x \in S : TRUE

-----------------------------------------------------------------------------
(* corpus.py: CorpusBuilder.build.                                         *)

\* One metadata pass: the page asked for is no larger than what is left of
\* the scope, rows already known are skipped and the scope is never exceeded.
MetaQuery(intent, docs) == <<"meta", intent, Min({PageSize, MaxCandidates - Cardinality(docs)})>>

Pass(got, acc, intent) ==
    LET q == MetaQuery(intent, acc.docs) IN
    IF acc.next # NoRequest \/ Cardinality(acc.docs) >= MaxCandidates THEN acc
    ELSE IF q \notin DOMAIN got THEN [acc EXCEPT !.next = q]
    ELSE [acc EXCEPT !.docs = @ \cup Least(got[q] \ @, MaxCandidates - Cardinality(@))]

\* _candidate_stage: the coverage pass, then the seminal pass.
Candidates(got) ==
    Pass(got, Pass(got, [docs |-> {}, next |-> NoRequest], "coverage"), "seminal")

\* _evidence_stage and _document_probe_stage.
EvidenceQueries(docs) == {<<"semantic", s>> : s \in Slices(docs, ShardSize)}
ProbeQueries(docs) == {<<"probe", {d}>> : d \in docs}

\* A hit becomes a passage if its document is in scope and its text long
\* enough; a document probe also insists on its own document.
Anchored(q, hits, docs) ==
    {p \in hits : p \in Long /\ DocOf[p] \in (IF q[1] = "probe" THEN q[2] ELSE docs)}

NextQuery(got) ==
    LET c == Candidates(got)
        asked(Q) == {q \in Q : q \notin DOMAIN got}
    IN  IF c.next # NoRequest THEN c.next
        ELSE IF asked(EvidenceQueries(c.docs)) # {} THEN Pick(asked(EvidenceQueries(c.docs)))
        ELSE Pick(asked(ProbeQueries(c.docs)))

\* What the snapshot freezes once NextQuery is NoRequest.
CorpusOf(got) ==
    LET docs == Candidates(got).docs IN
    [docs |-> docs,
     passages |-> UNION {Anchored(q, got[q], docs) :
                            q \in EvidenceQueries(docs) \cup ProbeQueries(docs)}]

-----------------------------------------------------------------------------
(* extraction.py: RelationExtractor.                                       *)

\* The batches in the order of their passages; the operation identifier is
\* derived from the passages of the batch.
Batches(passages) ==
    [k \in 1 .. (Cardinality(passages) + BatchSize - 1) \div BatchSize |->
        <<"extract", Slice(passages, BatchSize, k - 1)>>]

Backed(number, quote) == number # 0 => number \in Numbers[quote]
SameRelation(r, s) == r.passage = s.passage /\ r.cell = s.cell /\ r.direction = s.direction

\* Mutant: the quote is not looked for in the passage.
AdmissibleUnquoted(r, exposed, relations) ==
    /\ r.passage \in exposed
    /\ Backed(r.value, r.quote)
    /\ Backed(r.temperature, r.quote)
    /\ r.sound
    /\ \A k \in 1 .. Len(relations) : ~SameRelation(relations[k], r)

\* _admit: exposed passage, quote in it, numbers in the quote, contract, no
\* repetition.  A number 0 is an empty field; `sound' is what validate()
\* asks of the closed vocabularies and of a value's unit.
Admissible(r, exposed, relations) ==
    /\ r.passage \in exposed
    /\ r.quote \in Says[r.passage]
    /\ Backed(r.value, r.quote)
    /\ Backed(r.temperature, r.quote)
    /\ r.sound
    /\ \A k \in 1 .. Len(relations) : ~SameRelation(relations[k], r)

Admit(relations, r, exposed) ==
    IF Admissible(r, exposed, relations) THEN Append(relations, r) ELSE relations

\* The proposals of a batch are taken in their order, and so are the batches:
\* admitted[k] is what the first k of them leave.
AdmitAll(relations, proposals, exposed) ==
    LET admitted[k \in 0 .. Len(proposals)] ==
            IF k = 0 THEN relations ELSE Admit(admitted[k - 1], proposals[k], exposed)
    IN  admitted[Len(proposals)]

AdmitBatches(batches, proposals) ==
    LET admitted[k \in 0 .. Len(batches)] ==
            IF k = 0 THEN <<>> ELSE AdmitAll(admitted[k - 1], proposals[k], batches[k][2])
    IN  admitted[Len(batches)]

Extracted(got, passages) ==
    LET batches == Batches(passages) IN
    AdmitBatches(batches, [k \in 1 .. Len(batches) |-> got[batches[k]].relations])

-----------------------------------------------------------------------------
(* claims.py and stage_claims: one claim per (cell, direction), made from  *)
(* the first relation that states it, in the order of claim_id, capped.    *)

ClaimId(r) == <<r.cell, r.direction>>

Firsts(relations) ==
    {relations[k] : k \in {i \in 1 .. Len(relations) :
        \A j \in 1 .. i - 1 : ClaimId(relations[j]) # ClaimId(relations[i])}}

\* The k-th of a set of relations in that order.
Nth(firsts, k) ==
    CHOOSE r \in firsts :
        Cardinality({s \in firsts : Digest[ClaimId(s)] < Digest[ClaimId(r)]}) = k - 1

Claim(r) == [id |-> ClaimId(r), passage |-> r.passage, quote |-> r.quote]

Claims(relations) ==
    LET firsts == Firsts(relations)
        n == Cardinality(firsts)
    IN  [k \in 1 .. (IF n < MaxClaims THEN n ELSE MaxClaims) |-> Claim(Nth(firsts, k))]

-----------------------------------------------------------------------------
(* methods.py: verification of one claim inside the discovery window.      *)

\* A failed search is an empty result; at most MaxRead passages are judged.
CounterQuery(c) == <<"counter", c.id>>
Hits(answer) == IF answer = Refused THEN {} ELSE answer
Read(got, c) == Least(Hits(got[CounterQuery(c)]), MaxRead)
JudgeOp(c, p) == <<"verify", c.id, p>>
RefineOp(c) == <<"refine", c.id>>

\* A verdict counts if the call succeeded, its JSON parsed and its quote is
\* in the passage it was asked about.
Counts(answer, p) == answer # Refused /\ answer.parsed /\ answer.quote \in Says[p]
Verdicts(got, c) ==
    {got[JudgeOp(c, p)] : p \in {x \in Read(got, c) : Counts(got[JudgeOp(c, x)], x)}}

\* The requests of one method for one claim: V0 asks nothing.
MethodRequest(method, got, c) ==
    IF method = "V0-vanilla-rag" THEN NoRequest
    ELSE IF CounterQuery(c) \notin DOMAIN got THEN CounterQuery(c)
    ELSE LET due == {JudgeOp(c, p) : p \in Read(got, c)}
                    \cup (IF method = "V3-full" THEN {RefineOp(c)} ELSE {})
             left == {op \in due : op \notin DOMAIN got}
             judges == {op \in left : op[1] = "verify"}
         IN  IF judges # {} THEN Pick(judges) ELSE Pick(left)

cedg_label(verdicts) ==
    IF \E v \in verdicts : v.verdict = "contradicted" THEN "REFUTED"
    ELSE IF \E v \in verdicts : v.verdict = "supported" /\ v.scope THEN "NARROWED"
    ELSE IF \E v \in verdicts : v.verdict = "supported" THEN "ACCEPTED"
    ELSE "UNRESOLVED"

\* run_method; the database step is off in this experiment (db_provider is
\* None) and the tree search only rewords the boundary.
Label(method, got, c) ==
    CASE method = "V0-vanilla-rag" -> "ACCEPTED"
      [] method = "V1-dual-retrieval" ->
            IF \E v \in Verdicts(got, c) : v.verdict = "contradicted"
            THEN "REFUTED" ELSE "ACCEPTED"
      [] OTHER -> cedg_label(Verdicts(got, c))

Prediction(method, got, c) ==
    [claim |-> c, label |-> Label(method, got, c),
     read |-> IF method = "V0-vanilla-rag" THEN {} ELSE Read(got, c)]

-----------------------------------------------------------------------------
(* gaps.py: the detectors over the coverage matrix, and the narrator.      *)

Cell(relations, k) == {i \in 1 .. Len(relations) : relations[i].cell = k}
CellsOf(relations) == {relations[i].cell : i \in 1 .. Len(relations)}
CellDocs(relations, I, passages) ==
    {DocOf[relations[i].passage] : i \in {j \in I : relations[j].passage \in passages}}

Candidate(kind, subject, relations, I, passages) ==
    [kind |-> kind, subject |-> subject,
     passages |-> {relations[i].passage : i \in I},
     documents |-> Cardinality(CellDocs(relations, I, passages))]

\* The rules on one cell: opposed directions in two papers, one paper only,
\* numbers without a temperature, asserted but never measured.
Fires(kind, relations, I, passages) ==
    LET docs == Cardinality(CellDocs(relations, I, passages))
        methods == {relations[i].method : i \in I}
    IN  CASE kind = "contradictory_evidence" ->
                /\ {"increase", "decrease"} \subseteq {relations[i].direction : i \in I}
                /\ docs >= 2
          [] kind = "single_source" -> docs = 1
          [] kind = "missing_condition" ->
                /\ \E i \in I : relations[i].value # 0
                /\ \A i \in I : relations[i].temperature = 0
          [] kind = "unvalidated_mechanism" ->
                /\ "experiment" \notin methods
                /\ methods \cap {"dft", "simulation", "review"} # {}

CellKinds ==
    {"contradictory_evidence", "single_source", "missing_condition", "unvalidated_mechanism"}

\* _unexplored_combinations: a cell is <<material, feature, property>>.
Holes(relations) ==
    LET C == CellsOf(relations)
        studied(m, q) == {k[2] : k \in {x \in C : x[1] = m /\ x[3] = q}}
        owners(f, q) == {k[1] : k \in {x \in C : x[2] = f /\ x[3] = q}}
    IN  {k \in {<<a[1], b[2], a[3]>> : a, b \in C} :
            /\ k \notin C
            /\ Cardinality(studied(k[1], k[3])) >= 2
            /\ Cardinality(owners(k[2], k[3])) >= 2}

Axes(relations, k) ==
    {i \in 1 .. Len(relations) : /\ relations[i].cell[3] = k[3]
                                 /\ relations[i].cell[1] = k[1] \/ relations[i].cell[2] = k[2]}

Detected(kind, relations, passages) ==
    IF kind = "unexplored_combination"
    THEN {Candidate(kind, k, relations, Axes(relations, k), passages) : k \in Holes(relations)}
    ELSE {Candidate(kind, k, relations, Cell(relations, k), passages) :
            k \in {c \in CellsOf(relations) : Fires(kind, relations, Cell(relations, c), passages)}}

\* find_candidates: at most MaxPerKind of each kind, best supported first.
Best(found) ==
    CHOOSE S \in SUBSET found :
        /\ Cardinality(S) = (IF Cardinality(found) < MaxPerKind
                             THEN Cardinality(found) ELSE MaxPerKind)
        /\ \A x \in S, y \in found \ S : x.documents >= y.documents

find_candidates(relations, passages) ==
    UNION {Best(Detected(kind, relations, passages)) :
              kind \in CellKinds \cup {"unexplored_combination"}}

\* GapNarrator._exposed: the first passages of the candidate the corpus has.
Exposed(c, passages) == Least(c.passages \cap passages, MaxExposed)
NarrateOp(c) == <<"narrate", c>>
Narrated(relations, passages) ==
    {NarrateOp(c) : c \in {x \in find_candidates(relations, passages) :
                              Exposed(x, passages) # {}}}

\* Mutant: the label is kept when its quote is in no passage.
GapAdmissibleUnquoted(answer, exposed) ==
    /\ answer.parsed
    /\ answer.verdict = "gap"
    /\ (answer.novelty = "known") <=> (answer.quote # NoQuote)

\* _admit and ResearchGap.validate: "known" needs a quote one exposed passage
\* contains, "new" must not carry one.
GapAdmissible(answer, exposed) ==
    /\ answer.parsed
    /\ answer.verdict = "gap"
    /\ answer.quote # NoQuote => \E p \in exposed : answer.quote \in Says[p]
    /\ (answer.novelty = "known") <=> (answer.quote # NoQuote)

Gap(c, answer) ==
    [kind |-> c.kind, statement |-> answer.statement, passages |-> c.passages,
     novelty |-> answer.novelty, quote |-> answer.quote]
GapId(g) == <<g.kind, g.statement, g.passages>>

\* narrate: one gap per identifier, the first one narrated.
Gaps(got, relations, passages) ==
    LET cs == {c \in find_candidates(relations, passages) :
                  /\ Exposed(c, passages) # {}
                  /\ GapAdmissible(got[NarrateOp(c)], Exposed(c, passages))}
        all == {Gap(c, got[NarrateOp(c)]) : c \in cs}
    IN  {CHOOSE g \in all : GapId(g) = i : i \in {GapId(g) : g \in all}}

-----------------------------------------------------------------------------
(* oracle.py: TimeSplitOracle over the validation window.                  *)

OracleQuery(c) == <<"later", c.id>>
OracleOp(c, p) == <<"judge", c.id, p>>
OracleRead(got, c) == Hits(got[OracleQuery(c)])

OracleRequest(got, c) ==
    IF OracleQuery(c) \notin DOMAIN got THEN OracleQuery(c)
    ELSE Pick({op \in {OracleOp(c, p) : p \in OracleRead(got, c)} : op \notin DOMAIN got})

\* oracle_state: one contradiction dominates, then scope, then support.
oracle_state(verdicts) ==
    IF \E v \in verdicts : v.verdict = "contradicted" THEN "contradicted"
    ELSE IF \E v \in verdicts : v.verdict = "supported" /\ v.scope THEN "narrowed"
    ELSE IF \E v \in verdicts : v.verdict = "supported" THEN "supported"
    ELSE "unresolved"

ClaimState(got, c) ==
    oracle_state({got[OracleOp(c, p)] :
        p \in {x \in OracleRead(got, c) : Counts(got[OracleOp(c, x)], x)}})

GapQuery(g) == <<"gap-later", GapId(g)>>
GapOp(g, p) == <<"gap-judge", GapId(g), p>>
Addresses(got, g, p) == Counts(got[GapOp(g, p)], p) /\ got[GapOp(g, p)].addresses

\* judge_gap stops at the first passage that addresses the gap.
GapRequest(got, g) ==
    IF GapQuery(g) \notin DOMAIN got THEN GapQuery(g)
    ELSE LET hits == Least(Hits(got[GapQuery(g)]), 3)
             asked == {p \in hits : GapOp(g, p) \in DOMAIN got}
         IN  IF asked = hits \/ \E p \in asked : Addresses(got, g, p) THEN NoRequest
             ELSE GapOp(g, Min(hits \ asked))

Addressed(got, g) ==
    \E p \in Least(Hits(got[GapQuery(g)]), 3) :
        GapOp(g, p) \in DOMAIN got /\ Addresses(got, g, p)

-----------------------------------------------------------------------------
(* discovery_pack.py: build_packages, from the V3 predictions.             *)

PackOp(c) == <<"pack", c.id>>
Surviving(predictions, passages) ==
    {predictions[k] : k \in {i \in 1 .. Len(predictions) :
        /\ predictions[i].label \in {"ACCEPTED", "NARROWED"}
        /\ predictions[i].claim.passage \in passages}}
Packages(got, predictions, passages) ==
    {p \in Surviving(predictions, passages) :
        got[PackOp(p.claim)] # Refused /\ got[PackOp(p.claim)].parsed}
=============================================================================
