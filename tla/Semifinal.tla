------------------------------ MODULE Semifinal ------------------------------
(***************************************************************************)
(* The closed-loop experiment of src/experiments/run_semifinal_v1.py, run  *)
(* with `--stage all' by one process that may be killed anywhere and is    *)
(* started again by its operator.  The stages communicate through files.   *)
(* A file is written by write_text, which truncates it before it writes:   *)
(* a kill in between leaves it empty (Cut).  Searches of the freeze and    *)
(* verify stages go through a cache file, paid calls through one operation *)
(* database per stage (see ModelTransport), so what a rerun asks again is  *)
(* answered as before -- except what was pending when the process died.    *)
(*                                                                         *)
(* The search index and the model are external: `world' says how they      *)
(* answer at the moment, and may change between two calls (Drift).         *)
(***************************************************************************)
EXTENDS Survey

CONSTANTS
    Nothing,          \* no file open, no call in flight
    Methods,          \* sequence of the preregistered methods
    Skip,             \* skip_passages.json
    Worlds,
    Holds,            \* world -> passages in the index
    Proposals,        \* world -> relations proposed for a batch
    Verdict,          \* world -> verdict on a passage
    Narration,        \* world -> narration of a gap candidate
    Cost, Budget,     \* tokens of one call, max_tokens_per_method
    MaxTries, MaxFaults, MaxDrift

VARIABLES
    file,             \* <<name, owner>> -> content
    cache,            \* retrieval_cache.jsonl: query -> answer
    ops,              \* <<stage, operation>> -> [status, answer]
    proc,             \* the running process
    world, drifts, faults,
    settled           \* history: the first complete content of each file

svars == <<file, cache, ops, proc, world, drifts, faults, settled>>

\* A file that does not exist, one cut to nothing, and one with content c.
Absent == <<>>
Cut == <<"cut">>
Whole(c) == <<"whole", c>>

MethodSet == Range(Methods)
Proposable == UNION {Range(Proposals[w]) : w \in Worlds}

Stages == <<"freeze", "extract", "claims">> \o Methods
            \o <<"gaps", "oracle", "packs", "score", "report">>

Of(name) == <<name, "run">>
Predictions(m) == <<"predictions", m>>
Usage(m) == <<"usage", m>>
Files == {Of(n) : n \in {"snapshot", "relations", "claims", "gaps", "oracle_cache",
                         "oracle_claims", "oracle_gaps", "packages", "summary", "report"}}
         \cup {Predictions(m) : m \in MethodSet} \cup {Usage(m) : m \in MethodSet}

\* The preregistered methods are no stages, and the packages are made from
\* the predictions of V3-full.
ASSUME SemifinalAssumption ==
    /\ Methods \in Seq(MethodSet)
    /\ MethodSet \cap {"freeze", "extract", "claims", "gaps", "oracle", "packs", "score",
                       "report"} = {}
    /\ "V3-full" \in MethodSet
    /\ \A w \in Worlds : Proposals[w] \in Seq(Proposable)
    /\ \A r \in Proposable : ClaimId(r) \in DOMAIN Digest
    /\ Nothing \notin Files

Complete(f) == file[f] \notin {Absent, Cut}
Data(f) == file[f][2]
Lines(f) == IF file[f] = Cut THEN <<>> ELSE Data(f)

EmptyMap == [x \in {} |-> x]
EmptyOracle == [claims |-> EmptyMap, gaps |-> EmptyMap]
Down == [at |-> 0, skip |-> FALSE, got |-> EmptyMap, wrote |-> {}, open |-> Nothing,
         call |-> Nothing, tries |-> 0, memo |-> EmptyOracle]

SInit ==
    /\ file = [f \in Files |-> Absent]
    /\ cache = EmptyMap
    /\ ops = EmptyMap
    /\ proc = Down
    /\ world \in Worlds
    /\ drifts = 0
    /\ faults = 0
    /\ settled = [f \in Files |-> Absent]

With(f, x, v) == [y \in DOMAIN f \cup {x} |-> IF y = x THEN v ELSE f[y]]

Running == proc.at # 0
Stage == Stages[proc.at]
Verifying == Stage \in MethodSet

-----------------------------------------------------------------------------
(* The outside: the search index and the model.                            *)

SearchAnswer(q, w) ==
    LET here == Holds[w] IN
    CASE q[1] = "meta" ->
            Least({DocOf[p] : p \in here \ Later}
                    \cap (IF q[2] = "seminal" THEN Seminal ELSE Documents), q[3])
      [] q[1] \in {"semantic", "probe"} -> {p \in here : DocOf[p] \in q[2]}
      [] q[1] = "counter" -> here \ Later
      [] q[1] \in {"later", "gap-later"} -> here \cap Later

ModelAnswer(op, w) ==
    CASE op[1] = "extract" -> [parsed |-> TRUE, relations |-> Proposals[w]]
      [] op[1] \in {"verify", "judge", "gap-judge"} -> Verdict[w]
      [] op[1] = "narrate" -> Narration[w]
      [] op[1] \in {"refine", "pack"} -> [parsed |-> TRUE]

IsSearch(r) == r[1] \in {"meta", "semantic", "probe", "counter", "later", "gap-later"}

Drift ==
    /\ drifts < MaxDrift
    /\ world' \in Worlds \ {world}
    /\ drifts' = drifts + 1
    /\ UNCHANGED <<file, cache, ops, proc, faults, settled>>

-----------------------------------------------------------------------------
(* What a stage still has to ask, given the files it reads.                *)

Corpus == Data(Of("snapshot"))
Relations == Lines(Of("relations"))
ClaimList == Lines(Of("claims"))
NewGaps == {g \in (IF file[Of("gaps")] = Cut THEN {} ELSE Data(Of("gaps"))) : g.novelty = "new"}

Unjudged == {k \in 1 .. Len(ClaimList) : ClaimList[k].id \notin DOMAIN proc.memo.claims}
NextClaim == ClaimList[Min(Unjudged)]
UnjudgedGaps == {g \in NewGaps : GapId(g) \notin DOMAIN proc.memo.gaps}
NextGap == CHOOSE g \in UnjudgedGaps : TRUE

FirstOf(requests) ==
    LET due == {k \in 1 .. Len(requests) : requests[k] # NoRequest} IN
    IF due = {} THEN NoRequest ELSE requests[Min(due)]

Unless(done, r) == IF r \in done THEN NoRequest ELSE r
Unasked(requests) == {r \in requests : r \notin DOMAIN proc.got}

NextRequest ==
    IF proc.skip THEN NoRequest ELSE
    CASE Stage = "freeze" -> NextQuery(proc.got)
      [] Stage = "extract" ->
            LET batches == Batches(Corpus.passages \ Skip) IN
            FirstOf([k \in 1 .. Len(batches) |-> Unless(DOMAIN proc.got, batches[k])])
      [] Verifying -> FirstOf([k \in 1 .. Len(ClaimList) |->
                                  MethodRequest(Stage, proc.got, ClaimList[k])])
      [] Stage = "gaps" -> Pick(Unasked(Narrated(Relations, Corpus.passages)))
      [] Stage = "oracle" ->
            IF Unjudged # {} THEN OracleRequest(proc.got, NextClaim)
            ELSE IF Of("oracle_claims") \in proc.wrote /\ UnjudgedGaps # {}
            THEN GapRequest(proc.got, NextGap)
            ELSE NoRequest
      [] Stage = "packs" ->
            Pick(Unasked({PackOp(p.claim) :
                    p \in Surviving(Lines(Predictions("V3-full")), Corpus.passages)}))
      [] OTHER -> NoRequest

-----------------------------------------------------------------------------
(* What a stage writes, and the content.                                   *)

Writes ==
    CASE Verifying -> <<Predictions(Stage), Usage(Stage)>>
      [] Stage = "freeze" -> <<Of("snapshot")>>
      [] Stage = "extract" -> <<Of("relations")>>
      [] Stage = "claims" -> <<Of("claims")>>
      [] Stage = "gaps" -> <<Of("gaps")>>
      [] Stage = "packs" -> <<Of("packages")>>
      [] Stage = "score" -> <<Of("summary")>>
      [] Stage = "report" -> <<Of("report")>>
      [] Stage = "oracle" ->
            <<IF Unjudged # {} THEN Of("oracle_cache") ELSE Of("oracle_claims"),
              IF UnjudgedGaps # {} THEN Of("oracle_cache") ELSE Of("oracle_gaps")>>

\* judge_claim and judge_gap flush the whole cache after each verdict.
DueFile ==
    LET left == {k \in 1 .. Len(Writes) : Writes[k] \notin proc.wrote} IN
    IF proc.skip \/ left = {} THEN Nothing ELSE Writes[Min(left)]

Judged ==
    LET memo == proc.memo IN
    IF Unjudged # {}
    THEN [claims |-> With(memo.claims, NextClaim.id, ClaimState(proc.got, NextClaim)),
          gaps |-> memo.gaps]
    ELSE [claims |-> memo.claims,
          gaps |-> With(memo.gaps, GapId(NextGap), Addressed(proc.got, NextGap))]

\* Points of agreement, in halves.
agreement_score(label, state) ==
    CASE <<label, state>> \in {<<"ACCEPTED", "supported">>, <<"REFUTED", "contradicted">>,
                               <<"NARROWED", "narrowed">>, <<"UNRESOLVED", "unresolved">>} -> 2
      [] <<label, state>> = <<"NARROWED", "supported">> -> 1
      [] OTHER -> 0

score_method(m) ==
    [k \in 1 .. Len(Data(Predictions(m))) |->
        LET p == Data(Predictions(m))[k] IN
        agreement_score(p.label, Data(Of("oracle_claims"))[p.claim.id])]

Spent(stage) ==
    Cost * Cardinality({k \in DOMAIN ops : k[1] = stage /\ ops[k].status = "COMPLETED"})

Content(f) ==
    CASE f[1] = "snapshot" -> CorpusOf(proc.got)
      [] f[1] = "relations" -> Extracted(proc.got, Corpus.passages \ Skip)
      [] f[1] = "claims" -> Claims(Relations)
      [] f[1] = "predictions" ->
            [k \in 1 .. Len(ClaimList) |-> Prediction(Stage, proc.got, ClaimList[k])]
      [] f[1] = "usage" -> [spent |-> Spent(Stage)]
      [] f[1] = "gaps" -> Gaps(proc.got, Relations, Corpus.passages)
      [] f[1] = "oracle_cache" -> Judged
      [] f[1] = "oracle_claims" ->
            [i \in {ClaimList[k].id : k \in 1 .. Len(ClaimList)} |-> proc.memo.claims[i]]
      [] f[1] = "oracle_gaps" ->
            [i \in {GapId(g) : g \in NewGaps} |-> proc.memo.gaps[i]]
      [] f[1] = "packages" ->
            Packages(proc.got, Lines(Predictions("V3-full")), Corpus.passages)
      [] f[1] = "summary" ->
            [methods |-> [m \in MethodSet |-> score_method(m)],
             novel |-> Cardinality(NewGaps),
             false_gaps |-> {i \in DOMAIN Data(Of("oracle_gaps")) : Data(Of("oracle_gaps"))[i]}]
      [] f[1] = "report" -> Data(Of("summary"))

-----------------------------------------------------------------------------
(* Control.                                                                *)

\* Entering a stage: verify skips a method, and gaps the stage, whose file
\* exists already, whatever is in it; the oracle loads its cache.
Entered(n, tries) ==
    LET s == Stages[n]
        f == IF s \in MethodSet THEN Predictions(s) ELSE Of("gaps")
    IN  [Down EXCEPT !.at = n, !.tries = tries,
            !.skip = s \in MethodSet \cup {"gaps"} /\ file[f] # Absent,
            !.memo = IF s = "oracle" /\ Complete(Of("oracle_cache"))
                     THEN Data(Of("oracle_cache")) ELSE EmptyOracle]

Start ==
    /\ ~Running
    /\ proc' = Entered(1, 0)
    /\ UNCHANGED <<file, cache, ops, world, drifts, faults, settled>>

\* An exception that leaves the stage: main retries extract, gaps and oracle
\* after reconcile() made the pending operations of that database retryable,
\* MaxTries times in all; any other stage ends the process.
Supervised == Stage \in {"extract", "gaps", "oracle"}

\* Mutant: the supervisor retries without reconciling.
reconcile_not == UNCHANGED ops

reconcile ==
    ops' = [k \in DOMAIN ops |->
              IF k[1] = Stage /\ ops[k].status = "PENDING"
              THEN [ops[k] EXCEPT !.status = "RETRY"] ELSE ops[k]]

Raise ==
    IF Supervised
    THEN /\ reconcile
         /\ proc' = IF proc.tries + 1 = MaxTries THEN Down ELSE Entered(proc.at, proc.tries + 1)
    ELSE proc' = Down /\ UNCHANGED ops

\* A failed request: verify, oracle and packs note it and go on without it.
Swallows == Verifying \/ Stage \in {"oracle", "packs"}
Got(r, a) == proc' = [proc EXCEPT !.got = With(@, r, a), !.call = Nothing]
Fails(r) == IF Swallows THEN Got(r, Refused) /\ UNCHANGED ops ELSE Raise

\* stage_score reads every prediction and usage file and refuses a method
\* without predictions; the oracle cannot load a cache that was cut.
Unreadable ==
    \/ Stage = "oracle" /\ file[Of("oracle_cache")] = Cut
    \/ /\ Stage = "score"
       /\ \E m \in MethodSet : Lines(Predictions(m)) = <<>> \/ ~Complete(Usage(m))

\* Between two requests and two writes; Asks holds the request to make next,
\* or NoRequest when the stage has asked all it needs.
Idle == Running /\ proc.open = Nothing /\ proc.call = Nothing
Asks == IF Idle /\ ~Unreadable THEN {NextRequest} ELSE {}

-----------------------------------------------------------------------------
(* Searches: CachedThrottledSciverse in freeze and verify; the oracle's    *)
(* client has no cache.                                                    *)

Cached == Stage # "oracle"

\* Mutant: the cache answers from memory only, nothing is appended.
LookedUpForgetting(q) ==
    LET a == SearchAnswer(q, world) IN
    /\ Got(q, a)
    /\ UNCHANGED cache

LookedUp(q) ==
    IF Cached /\ q \in DOMAIN cache THEN Got(q, cache[q]) /\ UNCHANGED cache
    ELSE LET a == SearchAnswer(q, world) IN
         /\ Got(q, a)
         /\ cache' = IF Cached THEN With(cache, q, a) ELSE cache

Search(q) ==
    /\ q # NoRequest /\ IsSearch(q)
    /\ LookedUp(q)
    /\ UNCHANGED <<file, ops, world, drifts, faults, settled>>

SearchFails(q) ==
    /\ faults < MaxFaults
    /\ q # NoRequest /\ IsSearch(q)
    /\ ~(Cached /\ q \in DOMAIN cache)
    /\ Fails(q)
    /\ faults' = faults + 1
    /\ UNCHANGED <<file, cache, world, drifts, settled>>

-----------------------------------------------------------------------------
(* Paid calls: BudgetedTransport around a transport with one row for each  *)
(* operation.  The extraction calls carry no budget.                       *)

Budgeted == Stage # "extract"
Exhausted == Budgeted /\ Spent(Stage) >= Budget
Key(op) == <<Stage, op>>
Status(op) == IF Key(op) \in DOMAIN ops THEN ops[Key(op)].status ELSE "NONE"

\* An extraction whose answer does not parse fails the stage.
Usable(op, a) == Stage = "extract" => a.parsed

\* A completed operation is replayed; one that is pending is refused, since
\* nobody knows whether it was paid for.
Reserve(op) ==
    /\ op # NoRequest /\ ~IsSearch(op)
    /\ \/ /\ Exhausted \/ Status(op) = "PENDING"
          /\ Fails(op)
       \/ /\ ~Exhausted /\ Status(op) = "COMPLETED"
          /\ IF Usable(op, ops[Key(op)].answer)
             THEN Got(op, ops[Key(op)].answer) /\ UNCHANGED ops ELSE Raise
       \/ /\ ~Exhausted /\ Status(op) \in {"NONE", "RETRY"}
          /\ ops' = With(ops, Key(op), [status |-> "PENDING", answer |-> Nothing])
          /\ proc' = [proc EXCEPT !.call = op]
    /\ UNCHANGED <<file, cache, world, drifts, faults, settled>>

\* The answer is committed before it is used; if it crossed the budget it is
\* discarded, and an extraction that does not parse fails the stage.
Answered(a) ==
    LET op == proc.call
        done == With(ops, Key(op), [status |-> "COMPLETED", answer |-> a])
        crossed == Budgeted /\ Spent(Stage) + Cost > Budget
        kept == /\ ops' = done
                /\ proc' = [proc EXCEPT !.got = With(@, op, IF crossed THEN Refused ELSE a),
                                        !.call = Nothing]
    IN  IF Usable(op, a) /\ (~crossed \/ Swallows) THEN kept
        ELSE /\ ops' = done
             /\ proc' = IF proc.tries + 1 = MaxTries THEN Down
                        ELSE Entered(proc.at, proc.tries + 1)

Answer ==
    /\ Running /\ proc.call # Nothing
    /\ Answered(ModelAnswer(proc.call, world))
    /\ UNCHANGED <<file, cache, world, drifts, faults, settled>>

\* An answer that is not the JSON asked for is committed all the same.
Garbled ==
    /\ faults < MaxFaults
    /\ Running /\ proc.call # Nothing
    /\ Answered([parsed |-> FALSE])
    /\ faults' = faults + 1
    /\ UNCHANGED <<file, cache, world, drifts, settled>>

\* The call fails before it is reserved, or after.
ReserveFails(op) ==
    /\ faults < MaxFaults
    /\ op # NoRequest /\ ~IsSearch(op) /\ Status(op) # "COMPLETED"
    /\ Fails(op)
    /\ faults' = faults + 1
    /\ UNCHANGED <<file, cache, world, drifts, settled>>

CallFails ==
    /\ faults < MaxFaults
    /\ Running /\ proc.call # Nothing
    /\ Fails(proc.call)
    /\ faults' = faults + 1
    /\ UNCHANGED <<file, cache, world, drifts, settled>>

-----------------------------------------------------------------------------
(* Files.                                                                  *)

CannotRead ==
    /\ Idle /\ Unreadable
    /\ Raise
    /\ UNCHANGED <<file, cache, world, drifts, faults, settled>>

Open(r) ==
    /\ r = NoRequest /\ DueFile # Nothing
    /\ file' = [file EXCEPT ![DueFile] = Cut]
    /\ proc' = [proc EXCEPT !.open = DueFile]
    /\ UNCHANGED <<cache, ops, world, drifts, faults, settled>>

Save ==
    LET f == proc.open IN
    /\ Running /\ f # Nothing
    /\ file' = [file EXCEPT ![f] = Whole(Content(f))]
    /\ settled' = [settled EXCEPT ![f] = IF @ = Absent THEN Whole(Content(f)) ELSE @]
    /\ proc' = [proc EXCEPT !.open = Nothing,
                    !.wrote = IF f = Of("oracle_cache") THEN @ ELSE @ \cup {f},
                    !.memo = IF f = Of("oracle_cache") THEN Content(f) ELSE @]
    /\ UNCHANGED <<cache, ops, world, drifts, faults>>

Advance(r) ==
    /\ r = NoRequest /\ DueFile = Nothing
    /\ proc' = IF proc.at = Len(Stages) THEN Down ELSE Entered(proc.at + 1, 0)
    /\ UNCHANGED <<file, cache, ops, world, drifts, faults, settled>>

Kill ==
    /\ faults < MaxFaults
    /\ Running
    /\ proc' = Down
    /\ faults' = faults + 1
    /\ UNCHANGED <<file, cache, ops, world, drifts, settled>>

Step ==
    \/ \E r \in Asks : Search(r) \/ Reserve(r) \/ Open(r) \/ Advance(r)
    \/ Start \/ Answer \/ CannotRead \/ Save

Fault ==
    \/ \E r \in Asks : SearchFails(r) \/ ReserveFails(r)
    \/ Garbled \/ CallFails \/ Kill

SNext == Step \/ Fault \/ Drift

\* The operator starts the run again until it is done, and the process runs.
SSpec == SInit /\ [][SNext]_svars /\ WF_svars(Step)

-----------------------------------------------------------------------------
(* Properties.                                                             *)

\* The files of a run are about each other, however often the run was killed
\* and started again, and although verify and gaps are skipped on a rerun:
\* relations quote passages of the frozen corpus, claims are those of the
\* relations, every method predicts exactly the claims, the oracle judged
\* them, and a discovery package replays against the snapshot.
FilesAgree ==
    LET corpus == settled[Of("snapshot")][2] IN
    /\ Complete(Of("relations")) =>
          \A k \in 1 .. Len(Relations) :
              /\ Relations[k].passage \in corpus.passages \ Skip
              /\ Relations[k].quote \in Says[Relations[k].passage]
    /\ Complete(Of("relations")) /\ Complete(Of("claims")) => ClaimList = Claims(Relations)
    /\ \A m \in MethodSet : Complete(Predictions(m)) /\ Complete(Of("claims")) =>
          [k \in 1 .. Len(Data(Predictions(m))) |-> Data(Predictions(m))[k].claim] = ClaimList
    /\ Complete(Of("oracle_claims")) /\ Complete(Of("claims")) =>
          DOMAIN Data(Of("oracle_claims")) = {ClaimList[k].id : k \in 1 .. Len(ClaimList)}
    /\ Complete(Of("packages")) =>
          \A p \in Data(Of("packages")) :
              p.claim.passage \in corpus.passages /\ p.claim.quote \in Says[p.claim.passage]

\* Running a stage again writes what it wrote before: the frozen corpus and
\* all that follows from it does not change because the index or the model
\* would now answer differently.  The oracle's cache grows by design, and
\* discovery packages are an exception: a call refused before it was
\* reserved is asked again, and a spent budget refuses what was answered.
StagesIdempotent ==
    \A f \in Files \ {Of("oracle_cache"), Of("packages")} :
        file[f] \in {Absent, Cut, settled[f]}

\* novelty_audit: a gap called known is quoted from a passage it cites, a gap
\* called new carries no quote, and both cite passages of the corpus.
NoveltyIsQuoted ==
    Complete(Of("gaps")) =>
        \A g \in Data(Of("gaps")) :
            /\ g.passages # {} /\ g.passages \subseteq settled[Of("snapshot")][2].passages
            /\ IF g.novelty = "known" THEN \E p \in g.passages : g.quote \in Says[p]
               ELSE g.quote = NoQuote

\* The states no rerun gets out of: predictions without their usage or cut
\* to nothing, a cut oracle cache, an extraction committed but not parsable,
\* no claim to score, and gaps out of budget before they were written.
Wedged ==
    \/ \E m \in MethodSet : file[Predictions(m)] # Absent
          /\ proc.open \notin {Predictions(m), Usage(m)}
          /\ ~Complete(Usage(m))
    \/ file[Of("oracle_cache")] = Cut
    \/ \E k \in DOMAIN ops :
          k[1] = "extract" /\ ops[k].status = "COMPLETED" /\ ~ops[k].answer.parsed
    \/ file[Of("claims")] = Whole(<<>>)
    \/ file[Of("gaps")] = Absent /\ Spent("gaps") >= Budget

\* Unless it gets into one of those states, a run that is started again after
\* every kill and failure writes its report.
Finishes == <>Complete(Of("report")) \/ <>Wedged

\* "Stages (each idempotent, resumable, and safe to run alone)", the module
\* docstring of run_semifinal_v1.py: a summary counts every new gap that was
\* narrated and paid for.
SummaryCountsEveryGap ==
    LET answers == [op \in {k[2] : k \in {x \in DOMAIN ops : x[1] = "gaps"}} |->
                        ops[<<"gaps", op>>].answer]
    IN  Complete(Of("summary")) =>
            Data(Of("summary")).novel =
                Cardinality({g \in Gaps(answers, settled[Of("relations")][2],
                                        settled[Of("snapshot")][2].passages) : g.novelty = "new"})
=============================================================================
