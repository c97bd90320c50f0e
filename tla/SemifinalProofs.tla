-------------------------- MODULE SemifinalProofs --------------------------
(***************************************************************************)
(* The experiment's files, for every corpus, method list, index, model and *)
(* number of kills, failures and changes of the outside world.             *)
(***************************************************************************)
EXTENDS Semifinal, FiniteSetTheorems, WellFoundedInduction, TLAPS

Snap == Of("snapshot")
Rel == Of("relations")
Clm == Of("claims")
Gps == Of("gaps")
OCache == Of("oracle_cache")
OClaims == Of("oracle_claims")
OGaps == Of("oracle_gaps")
Pkg == Of("packages")
Smy == Of("summary")
Rpt == Of("report")

\* The files a stage writes.
Own(s) ==
    CASE s \in MethodSet -> {Predictions(s), Usage(s)}
      [] s = "freeze" -> {Snap}
      [] s = "extract" -> {Rel}
      [] s = "claims" -> {Clm}
      [] s = "gaps" -> {Gps}
      [] s = "oracle" -> {OCache, OClaims, OGaps}
      [] s = "packs" -> {Pkg}
      [] s = "score" -> {Smy}
      [] s = "report" -> {Rpt}

\* Every answer of g is an answer of h.
Extends(h, g) == \A q \in DOMAIN g : q \in DOMAIN h /\ h[q] = g[q]

-----------------------------------------------------------------------------
(***************************************************************************)
(* The invariant.                                                          *)
(***************************************************************************)

Shape ==
    /\ DOMAIN file = Files /\ DOMAIN settled = Files
    /\ \A f \in Files : settled[f] # Absent => settled[f] = Whole(settled[f][2])
    /\ DOMAIN proc = DOMAIN Down
    /\ proc.at \in 0 .. Len(Stages)
    /\ world \in Worlds

\* f was written, and is what it was the first time.
Written(f) == settled[f] # Absent /\ file[f] = settled[f]

\* What the stages before the n-th have left.
Passed(n) ==
    /\ n > 1 => Written(Snap)
    /\ n > 2 => Written(Rel)
    /\ n > 3 => Written(Clm)
    /\ \A k \in 1 .. Len(Methods) : n > k + 3 => file[Predictions(Methods[k])] # Absent
    /\ n > Len(Methods) + 4 => file[Gps] # Absent
    /\ n > Len(Methods) + 5 => Written(OClaims) /\ Written(OGaps)
    /\ n > Len(Methods) + 7 => Written(Smy)

Control ==
    /\ Passed(proc.at)
    /\ Running /\ proc.skip => \/ Verifying /\ file[Predictions(Stage)] # Absent
                               \/ Stage = "gaps" /\ file[Gps] # Absent
    /\ \A f \in proc.wrote :
          Running /\ f \in Own(Stage) /\ f # OCache /\ (f # Pkg => Written(f))

\* What the oracle has recorded in its files it has in its memory.
Recorded(memo) ==
    /\ settled[OClaims] # Absent => Extends(memo.claims, settled[OClaims][2])
    /\ settled[OGaps] # Absent => Extends(memo.gaps, settled[OGaps][2])

\* A file is open only when the stage has all the answers it is made from.
Ready ==
    proc.open # Nothing =>
        /\ Running /\ proc.call = Nothing /\ ~proc.skip
        /\ proc.open \in Own(Stage) /\ proc.open \notin proc.wrote
        /\ proc.open = Snap => NextQuery(proc.got) = NoRequest
        /\ proc.open = Rel =>
              LET B == Batches(Corpus.passages \ Skip) IN
              \A k \in 1 .. Len(B) : B[k] \in DOMAIN proc.got
        /\ proc.open = Usage(Stage) => Predictions(Stage) \in proc.wrote
        /\ proc.open = OClaims => Unjudged = {} /\ file[OCache] # Cut
        /\ proc.open = OGaps => UnjudgedGaps = {} /\ file[OCache] # Cut
        /\ proc.open = OCache => (Unjudged # {} \/ UnjudgedGaps # {}) /\ Recorded(proc.memo)
        /\ proc.open = Smy => \A m \in MethodSet : Complete(Predictions(m))

\* Predictions, their usage and the gaps are written by the first run that
\* gets to them, and never again.
Once ==
    /\ \A m \in MethodSet :
          /\ settled[Predictions(m)] # Absent => Written(Predictions(m))
          /\ settled[Usage(m)] # Absent => Written(Usage(m)) /\ file[Predictions(m)] # Absent
    /\ settled[Gps] # Absent => Written(Gps)
    /\ settled[OGaps] # Absent => file[Gps] # Absent

FirstTime ==
    Running /\ ~proc.skip =>
        /\ Verifying /\ Predictions(Stage) \notin proc.wrote =>
              settled[Predictions(Stage)] = Absent
        /\ Verifying /\ Usage(Stage) \notin proc.wrote => settled[Usage(Stage)] = Absent
        /\ Stage = "gaps" /\ Gps \notin proc.wrote =>
              settled[Gps] = Absent /\ settled[OGaps] = Absent

\* What the process was told is what the cache or the database still says.
Paid(op) ==
    <<"extract", op>> \in DOMAIN ops /\ ops[<<"extract", op>>].status = "COMPLETED"

AllPaid(B) == \A k \in 1 .. Len(B) : Paid(B[k]) /\ ops[<<"extract", B[k]>>].answer.parsed

\* A paid extraction is an answer of the model, or not the JSON asked for.
Extractions ==
    {[parsed |-> FALSE]} \cup {[parsed |-> TRUE, relations |-> Proposals[w]] : w \in Worlds}
Priced == \A op : Paid(op) => ops[<<"extract", op>>].answer \in Extractions

Banked(got) ==
    \A op \in DOMAIN got :
        Paid(op) /\ ops[<<"extract", op>>].answer = got[op] /\ got[op].parsed

Told ==
    /\ Running /\ Stage = "freeze" =>
          /\ proc.call = Nothing
          /\ Extends(cache, proc.got)
    /\ Running /\ Stage = "extract" =>
          /\ proc.call # Nothing => proc.call[1] = "extract"
          /\ Banked(proc.got)
    /\ proc.call # Nothing =>
          Running /\ Key(proc.call) \in DOMAIN ops /\ ops[Key(proc.call)].status = "PENDING"
    /\ Priced

\* The oracle's memory is its cache file.
Memory ==
    /\ file[OCache] = Absent => Recorded(EmptyOracle)
    /\ Complete(OCache) => Recorded(Data(OCache))
    /\ Running /\ Stage = "oracle" =>
          /\ file[OCache] = Absent => proc.memo = EmptyOracle
          /\ Complete(OCache) => proc.memo = Data(OCache)

\* What the first content of each file was made from.
Proposed(batches) ==
    [k \in 1 .. Len(batches) |-> ops[<<"extract", batches[k]>>].answer.relations]

SnapFinal ==
    settled[Snap] # Absent =>
        NextQuery(cache) = NoRequest /\ settled[Snap][2] = CorpusOf(cache)

RelFinal ==
    settled[Rel] # Absent =>
        LET B == Batches(settled[Snap][2].passages \ Skip) IN
        /\ settled[Snap] # Absent /\ AllPaid(B)
        /\ settled[Rel][2] = AdmitBatches(B, Proposed(B))

ClmFinal ==
    settled[Clm] # Absent =>
        settled[Rel] # Absent /\ settled[Clm][2] = Claims(settled[Rel][2])

PredFinal ==
    \A m \in MethodSet : settled[Predictions(m)] # Absent =>
        LET p == settled[Predictions(m)][2] IN
        /\ settled[Clm] # Absent
        /\ [k \in 1 .. Len(p) |-> p[k].claim] = settled[Clm][2]

GapFits(g, passages) ==
    /\ g.passages # {} /\ g.passages \subseteq passages
    /\ IF g.novelty = "known" THEN \E p \in g.passages : g.quote \in Says[p]
       ELSE g.quote = NoQuote

GapsFinal ==
    settled[Gps] # Absent =>
        /\ settled[Snap] # Absent
        /\ \A g \in settled[Gps][2] : GapFits(g, settled[Snap][2].passages)

Ids(claims) == {claims[k].id : k \in 1 .. Len(claims)}
NewIn(c) == {g \in (IF c = Cut THEN {} ELSE c[2]) : g.novelty = "new"}

OracleFinal ==
    /\ settled[OClaims] # Absent =>
          /\ settled[Clm] # Absent
          /\ settled[OClaims][2] = [i \in Ids(settled[Clm][2]) |-> settled[OClaims][2][i]]
    /\ settled[OGaps] # Absent =>
          settled[OGaps][2] = [i \in {GapId(g) : g \in NewIn(file[Gps])} |-> settled[OGaps][2][i]]

PkgFits(p, passages) == p.claim.passage \in passages /\ p.claim.quote \in Says[p.claim.passage]

PkgFinal ==
    Complete(Pkg) =>
        /\ settled[Snap] # Absent
        /\ \A p \in Data(Pkg) : PkgFits(p, settled[Snap][2].passages)

ScoreIn(p, oc) == [k \in 1 .. Len(p) |-> agreement_score(p[k].label, oc[p[k].claim.id])]
SummaryIn(c, g) ==
    [methods |-> [m \in MethodSet |-> ScoreIn(c[Predictions(m)][2], c[OClaims][2])],
     novel |-> Cardinality(NewIn(g)),
     false_gaps |-> {i \in DOMAIN c[OGaps][2] : c[OGaps][2][i]}]

SmyFinal ==
    settled[Smy] # Absent =>
        /\ \A m \in MethodSet : settled[Predictions(m)] # Absent
        /\ settled[OClaims] # Absent /\ settled[OGaps] # Absent
        /\ settled[Smy][2] = SummaryIn(settled, file[Gps])

RptFinal == settled[Rpt] # Absent => settled[Smy] # Absent /\ settled[Rpt][2] = settled[Smy][2]

Final ==
    /\ SnapFinal /\ RelFinal /\ ClmFinal /\ PredFinal /\ GapsFinal
    /\ OracleFinal /\ PkgFinal /\ SmyFinal /\ RptFinal

SInv ==
    /\ Shape /\ Control /\ Ready /\ Once /\ FirstTime /\ Told /\ Memory /\ Final
    /\ StagesIdempotent

-----------------------------------------------------------------------------
(***************************************************************************)
(* The corpus depends only on the answers that were needed for it.         *)
(***************************************************************************)

\* A search is not NoRequest.
LEMMA QueriesDiffer ==
  /\ \A intent, docs : MetaQuery(intent, docs) # NoRequest /\ IsSearch(MetaQuery(intent, docs))
  /\ \A docs : \A q \in EvidenceQueries(docs) \cup ProbeQueries(docs) :
        q # NoRequest /\ IsSearch(q)
  /\ ~IsSearch(NoRequest)
<1>1. ASSUME NEW intent, NEW docs
      PROVE  MetaQuery(intent, docs) # NoRequest /\ IsSearch(MetaQuery(intent, docs))
  BY DEF MetaQuery, NoRequest, IsSearch
<1>2. ASSUME NEW docs, NEW q \in EvidenceQueries(docs) \cup ProbeQueries(docs)
      PROVE  q # NoRequest /\ IsSearch(q)
  BY DEF EvidenceQueries, ProbeQueries, NoRequest, IsSearch
<1>3. ~IsSearch(NoRequest)
  BY DEF NoRequest, IsSearch
<1> QED BY <1>1, <1>2, <1>3

\* Pick finds a member unless there is none.
LEMMA PickFacts ==
  ASSUME NEW S
  PROVE  /\ S # {} => Pick(S) \in S
         /\ S = {} => Pick(S) = NoRequest
  BY DEF Pick

\* A pass that has its answer leaves the same accumulator whoever gives it.
LEMMA PassExtends ==
  ASSUME NEW g, NEW h, Extends(h, g), NEW acc, NEW intent,
         Pass(g, acc, intent).next = NoRequest, acc = [docs |-> acc.docs, next |-> acc.next]
  PROVE  /\ Pass(h, acc, intent) = Pass(g, acc, intent)
         /\ acc.next = NoRequest
         /\ Pass(g, acc, intent) =
                [docs |-> Pass(g, acc, intent).docs, next |-> Pass(g, acc, intent).next]
<1> DEFINE q == MetaQuery(intent, acc.docs)
<1>1. q # NoRequest
  BY QueriesDiffer
<1>2. Pass(g, acc, intent) =
        IF acc.next # NoRequest \/ Cardinality(acc.docs) >= MaxCandidates THEN acc
        ELSE IF q \notin DOMAIN g THEN [acc EXCEPT !.next = q]
        ELSE [acc EXCEPT !.docs = @ \cup Least(g[q] \ @, MaxCandidates - Cardinality(@))]
  BY DEF Pass
<1>3. Pass(h, acc, intent) =
        IF acc.next # NoRequest \/ Cardinality(acc.docs) >= MaxCandidates THEN acc
        ELSE IF q \notin DOMAIN h THEN [acc EXCEPT !.next = q]
        ELSE [acc EXCEPT !.docs = @ \cup Least(h[q] \ @, MaxCandidates - Cardinality(@))]
  BY DEF Pass
<1> HIDE DEF q
<1>4. CASE acc.next # NoRequest \/ Cardinality(acc.docs) >= MaxCandidates
  BY <1>2, <1>3, <1>4
<1>5. CASE ~(acc.next # NoRequest \/ Cardinality(acc.docs) >= MaxCandidates)
  <2>1. q \in DOMAIN g
    BY <1>1, <1>2, <1>5
  <2>2. q \in DOMAIN h /\ h[q] = g[q]
    BY <2>1 DEF Extends
  <2> QED BY <1>2, <1>3, <1>5, <2>1, <2>2
<1> QED BY <1>4, <1>5

\* More answers do not change a finished list of candidates.
LEMMA CandidatesExtend ==
  ASSUME NEW g, NEW h, Extends(h, g), Candidates(g).next = NoRequest
  PROVE  Candidates(h) = Candidates(g)
<1> DEFINE start == [docs |-> {}, next |-> NoRequest]
           one == Pass(g, start, "coverage")
<1>1. start = [docs |-> start.docs, next |-> start.next]
  OBVIOUS
<1>2. one = [docs |-> one.docs, next |-> one.next]
  BY QueriesDiffer DEF Pass
<1> HIDE DEF start
<1>3. Candidates(g) = Pass(g, one, "seminal")
  BY DEF Candidates, start
<1>4. Candidates(h) = Pass(h, Pass(h, start, "coverage"), "seminal")
  BY DEF Candidates, start
<1> HIDE DEF one
<1>5. one.next = NoRequest /\ Pass(h, one, "seminal") = Pass(g, one, "seminal")
  BY <1>2, <1>3, PassExtends
<1>6. Pass(h, start, "coverage") = one
  BY <1>1, <1>5, PassExtends DEF one
<1> QED BY <1>3, <1>4, <1>5, <1>6

\* Nothing left to ask means that every search of the corpus was answered.
LEMMA NextQueryFacts ==
  ASSUME NEW g
  PROVE  LET Q == EvidenceQueries(Candidates(g).docs) \cup ProbeQueries(Candidates(g).docs)
         IN  /\ NextQuery(g) = NoRequest <=>
                    Candidates(g).next = NoRequest /\ Q \subseteq DOMAIN g
             /\ NextQuery(g) # NoRequest => IsSearch(NextQuery(g))
<1> DEFINE c == Candidates(g)
           E == EvidenceQueries(c.docs)
           P == ProbeQueries(c.docs)
           e == {q \in E : q \notin DOMAIN g}
           p == {q \in P : q \notin DOMAIN g}
<1>1. NextQuery(g) = IF c.next # NoRequest THEN c.next
                     ELSE IF e # {} THEN Pick(e) ELSE Pick(p)
  BY DEF NextQuery
<1>2. \A q \in E \cup P : q # NoRequest /\ IsSearch(q)
  BY QueriesDiffer
<1>3. c.next # NoRequest => IsSearch(c.next)
  <2> DEFINE start == [docs |-> {}, next |-> NoRequest]
             one == Pass(g, start, "coverage")
  <2>1. one = [docs |-> one.docs, next |-> one.next] /\ (one.next # NoRequest => IsSearch(one.next))
    BY QueriesDiffer DEF Pass
  <2>2. c = Pass(g, one, "seminal")
    BY DEF Candidates
  <2> HIDE DEF one, c
  <2> QED BY <2>1, <2>2, QueriesDiffer DEF Pass
<1>4. E \cup P \subseteq DOMAIN g <=> (e = {} /\ p = {})
  OBVIOUS
<1>5. /\ e # {} => Pick(e) \in E \cup P
      /\ p # {} => Pick(p) \in E \cup P
      /\ p = {} => Pick(p) = NoRequest
  BY PickFacts
<1> HIDE DEF c, e, p, E, P
<1>6. /\ NextQuery(g) = NoRequest <=> (c.next = NoRequest /\ E \cup P \subseteq DOMAIN g)
      /\ NextQuery(g) # NoRequest => IsSearch(NextQuery(g))
  BY <1>1, <1>2, <1>3, <1>4, <1>5
<1> QED BY <1>6 DEF c, E, P

\* A complete set of answers gives the same corpus however it is extended.
LEMMA CorpusExtends ==
  ASSUME NEW g, NEW h, Extends(h, g), NextQuery(g) = NoRequest
  PROVE  NextQuery(h) = NoRequest /\ CorpusOf(h) = CorpusOf(g)
<1> DEFINE docs == Candidates(g).docs
           Q == EvidenceQueries(docs) \cup ProbeQueries(docs)
<1>1. Candidates(g).next = NoRequest /\ Q \subseteq DOMAIN g
  BY NextQueryFacts
<1>2. Candidates(h) = Candidates(g)
  BY <1>1, CandidatesExtend
<1>3. Q \subseteq DOMAIN h /\ \A q \in Q : h[q] = g[q]
  BY <1>1 DEF Extends
<1>4. NextQuery(h) = NoRequest
  BY <1>1, <1>2, <1>3, NextQueryFacts
<1>5. CorpusOf(g) = [docs |-> docs, passages |-> UNION {Anchored(q, g[q], docs) : q \in Q}]
  BY DEF CorpusOf
<1>6. CorpusOf(h) = [docs |-> docs, passages |-> UNION {Anchored(q, h[q], docs) : q \in Q}]
  BY <1>2 DEF CorpusOf
<1> HIDE DEF Q, docs
<1>7. {Anchored(q, g[q], docs) : q \in Q} = {Anchored(q, h[q], docs) : q \in Q}
  BY <1>3
<1> QED BY <1>4, <1>5, <1>6, <1>7

\* The corpus is a finite set of passages.
LEMMA CorpusFinite ==
  ASSUME NEW g
  PROVE  CorpusOf(g).passages \subseteq Passages /\ IsFiniteSet(CorpusOf(g).passages)
<1>1. CorpusOf(g).passages \subseteq Long
  BY DEF CorpusOf, Anchored
<1>2. CorpusOf(g).passages \subseteq Passages
  BY <1>1, SurveyAssumption
<1> QED BY <1>2, SurveyAssumption, FS_Subset

-----------------------------------------------------------------------------
(***************************************************************************)
(* The relations admitted, by recursion over proposals and batches.        *)
(***************************************************************************)

\* A set of numbers that is not empty has a least member.
LEMMA HasLeast ==
  ASSUME NEW T, T \subseteq Nat, T # {}
  PROVE  \E n \in T : \A m \in T : n <= m
<1> DEFINE Less == {r \in Nat \X Nat : r[1] < r[2]}
<1>1. IsWellFoundedOn(Less, Nat)
  BY NatLessThanWellFounded DEF OpToRel
<1>2. PICK n \in T : \A m \in T : ~(<<m, n>> \in Less)
  BY <1>1, WFMin
<1>3. \A m \in T : ~(m < n)
  BY <1>2
<1> QED BY <1>3

\* A set of numbers that has 0, and with each number of 0 .. n the next one.
Inductive(S, n) == 0 \in S /\ \A k \in 1 .. n : k - 1 \in S => k \in S

\* A set that holds 0 and, below n, each successor holds all up to n.
LEMMA Reaches ==
  ASSUME NEW n \in Nat, NEW S, Inductive(S, n)
  PROVE  \A k \in 0 .. n : k \in S
<1> DEFINE T == {k \in 0 .. n : k \notin S}
<1>1. SUFFICES ASSUME T # {} PROVE FALSE
  OBVIOUS
<1> HIDE DEF T
<1>2. PICK k \in T : \A m \in T : k <= m
  <2>1. T \subseteq Nat
    BY DEF T
  <2> QED BY <1>1, <2>1, HasLeast
<1> USE DEF T
<1>3. k \in 1 .. n /\ k - 1 \in 0 .. n
  BY <1>2 DEF Inductive
<1>4. k - 1 \in S
  BY <1>2, <1>3
<1> QED BY <1>2, <1>3, <1>4 DEF Inductive

\* Iterating a function from a value inside its domain.
IsRun(f, A, a, n, F) ==
    /\ f \in [0 .. n -> A] /\ f[0] = a
    /\ \A k \in 1 .. n : f[k] = F[<<f[k - 1], k>>]

\* Repeating a step n times is a function on 0 .. n.
LEMMA Iterates ==
  ASSUME NEW A, NEW a \in A, NEW n \in Nat, NEW F \in [A \X (1 .. n) -> A]
  PROVE  \E f : IsRun(f, A, a, n, F)
<1> DEFINE Run(f, m) == IsRun(f, A, a, m, F)
           S == {m \in 0 .. n : \E f : Run(f, m)}
<1>1. 0 \in S
  <2>1. Run([k \in 0 .. 0 |-> a], 0)
    BY DEF IsRun
  <2> HIDE DEF Run
  <2> QED BY <2>1
<1>2. ASSUME NEW m \in 1 .. n, m - 1 \in S PROVE m \in S
  <2>0. PICK f : Run(f, m - 1)
    BY <1>2
  <2>1. /\ f \in [0 .. m - 1 -> A] /\ f[0] = a
        /\ \A k \in 1 .. m - 1 : f[k] = F[<<f[k - 1], k>>]
    BY <2>0 DEF IsRun
  <2> DEFINE g == [k \in 0 .. m |-> IF k = m THEN F[<<f[m - 1], m>>] ELSE f[k]]
  <2>2. f[m - 1] \in A
    BY <2>1
  <2>3. F[<<f[m - 1], m>>] \in A
    BY <2>2
  <2>4. g \in [0 .. m -> A]
    BY <2>1, <2>3
  <2>5. g[0] = a
    BY <2>1
  <2>6. ASSUME NEW k \in 1 .. m PROVE g[k] = F[<<g[k - 1], k>>]
    <3>1. g[k - 1] = f[k - 1]
      OBVIOUS
    <3>2. CASE k = m
      <4>1. g[m] = F[<<f[m - 1], m>>]
        OBVIOUS
      <4> HIDE DEF g
      <4> QED BY <3>1, <3>2, <4>1
    <3>3. CASE k # m
      <4>1. k \in 1 .. m - 1
        BY <3>3
      <4> QED BY <2>1, <3>1, <3>3, <4>1
    <3> QED BY <3>2, <3>3
  <2>7. Run(g, m)
    BY <2>4, <2>5, <2>6 DEF IsRun
  <2> HIDE DEF Run, g
  <2> QED BY <2>7
<1> HIDE DEF S
<1>3. n \in S
  <2>1. Inductive(S, n)
    BY <1>1, <1>2 DEF Inductive
  <2>2. n \in 0 .. n
    OBVIOUS
  <2> QED BY <2>1, <2>2, Reaches
<1> QED BY <1>3 DEF S

\* AdmitAll stays in a set that Admit does not leave.
LEMMA AdmitAllStays ==
  ASSUME NEW A, NEW relations \in A, NEW proposals, Len(proposals) \in Nat, NEW exposed,
         \A rs \in A : \A k \in 1 .. Len(proposals) : Admit(rs, proposals[k], exposed) \in A
  PROVE  AdmitAll(relations, proposals, exposed) \in A
<1> DEFINE n == Len(proposals)
           Run(f) == f = [k \in 0 .. n |->
                IF k = 0 THEN relations ELSE Admit(f[k - 1], proposals[k], exposed)]
           F == [x \in A \X (1 .. n) |-> Admit(x[1], proposals[x[2]], exposed)]
<1>1. F \in [A \X (1 .. n) -> A]
  OBVIOUS
<1>n. n \in Nat
  OBVIOUS
<1> HIDE DEF F, n
<1>0. PICK f : IsRun(f, A, relations, n, F)
  BY <1>1, <1>n, Iterates
<1>2. /\ f \in [0 .. n -> A] /\ f[0] = relations
      /\ \A k \in 1 .. n : f[k] = F[<<f[k - 1], k>>]
  BY <1>0 DEF IsRun
<1>3. Run(f)
  <2>1. ASSUME NEW k \in 1 .. n PROVE f[k] = Admit(f[k - 1], proposals[k], exposed)
    <3>1. f[k - 1] \in A
      BY <1>2, <1>n
    <3>2. F[<<f[k - 1], k>>] = Admit(f[k - 1], proposals[k], exposed)
      BY <3>1 DEF F
    <3> QED BY <1>2, <3>2
  <2> QED BY <1>2, <1>n, <2>1
<1>4. AdmitAll(relations, proposals, exposed) = (CHOOSE g : Run(g))[n]
  BY DEF AdmitAll, n
<1>5. PICK g : Run(g) /\ AdmitAll(relations, proposals, exposed) = g[n]
  BY <1>3, <1>4
<1> DEFINE S == {k \in 0 .. n : g[k] \in A}
<1>6. 0 \in S
  BY <1>5, <1>n
<1>7. ASSUME NEW k \in 1 .. n, k - 1 \in S PROVE k \in S
  BY <1>5, <1>7, <1>n DEF n
<1> HIDE DEF S
<1>8. n \in S
  <2>1. Inductive(S, n)
    BY <1>6, <1>7 DEF Inductive
  <2>2. n \in 0 .. n
    BY <1>n
  <2> QED BY <1>n, <2>1, <2>2, Reaches
<1> QED BY <1>5, <1>8 DEF S

\* What every batch keeps, the whole extraction keeps.
LEMMA AdmitBatchesStays ==
  ASSUME NEW A, <<>> \in A, NEW batches, Len(batches) \in Nat, NEW proposals,
         \A rs \in A : \A k \in 1 .. Len(batches) :
            AdmitAll(rs, proposals[k], batches[k][2]) \in A
  PROVE  AdmitBatches(batches, proposals) \in A
<1> DEFINE n == Len(batches)
           Run(f) == f = [k \in 0 .. n |->
                IF k = 0 THEN <<>> ELSE AdmitAll(f[k - 1], proposals[k], batches[k][2])]
           F == [x \in A \X (1 .. n) |-> AdmitAll(x[1], proposals[x[2]], batches[x[2]][2])]
<1>1. F \in [A \X (1 .. n) -> A]
  OBVIOUS
<1>n. n \in Nat
  OBVIOUS
<1> HIDE DEF F, n
<1>0. PICK f : IsRun(f, A, <<>>, n, F)
  BY <1>1, <1>n, Iterates
<1>2. /\ f \in [0 .. n -> A] /\ f[0] = <<>>
      /\ \A k \in 1 .. n : f[k] = F[<<f[k - 1], k>>]
  BY <1>0 DEF IsRun
<1>3. Run(f)
  <2>1. ASSUME NEW k \in 1 .. n
        PROVE  f[k] = AdmitAll(f[k - 1], proposals[k], batches[k][2])
    <3>1. f[k - 1] \in A
      BY <1>2, <1>n
    <3>2. F[<<f[k - 1], k>>] = AdmitAll(f[k - 1], proposals[k], batches[k][2])
      BY <3>1 DEF F
    <3> QED BY <1>2, <3>2
  <2> QED BY <1>2, <1>n, <2>1
<1>4. AdmitBatches(batches, proposals) = (CHOOSE g : Run(g))[n]
  BY DEF AdmitBatches, n
<1>5. PICK g : Run(g) /\ AdmitBatches(batches, proposals) = g[n]
  BY <1>3, <1>4
<1> DEFINE S == {k \in 0 .. n : g[k] \in A}
<1>6. 0 \in S
  BY <1>5, <1>n
<1>7. ASSUME NEW k \in 1 .. n, k - 1 \in S PROVE k \in S
  BY <1>5, <1>7, <1>n DEF n
<1> HIDE DEF S
<1>8. n \in S
  <2>1. Inductive(S, n)
    BY <1>6, <1>7 DEF Inductive
  <2>2. n \in 0 .. n
    BY <1>n
  <2> QED BY <1>n, <2>1, <2>2, Reaches
<1> QED BY <1>5, <1>8 DEF S

\* Relations of a set of passages, each with a quote of its passage.
Quoted(r, P) == r.passage \in P /\ r.quote \in Says[r.passage]
RelationsOver(P) ==
    {rs \in Seq(Proposable) : \A k \in 1 .. Len(rs) : Quoted(rs[k], P)}

\* An admitted proposal quotes an exposed passage; a refused one changes nothing.
LEMMA AdmitQuoted ==
  ASSUME NEW P, NEW rs \in RelationsOver(P), NEW r \in Proposable, NEW exposed, exposed \subseteq P
  PROVE  Admit(rs, r, exposed) \in RelationsOver(P)
<1>1. rs \in Seq(Proposable) /\ \A k \in 1 .. Len(rs) : Quoted(rs[k], P)
  BY DEF RelationsOver
<1>2. CASE Admissible(r, exposed, rs)
  <2>1. Quoted(r, P)
    BY <1>2 DEF Admissible, Quoted
  <2>2. Admit(rs, r, exposed) = Append(rs, r)
    BY <1>2 DEF Admit
  <2>3. Append(rs, r) \in Seq(Proposable) /\ Len(Append(rs, r)) = Len(rs) + 1
    BY <1>1
  <2>4. ASSUME NEW k \in 1 .. Len(rs) + 1 PROVE Quoted(Append(rs, r)[k], P)
    BY <1>1, <2>1
  <2> QED BY <2>2, <2>3, <2>4 DEF RelationsOver
<1>3. CASE ~Admissible(r, exposed, rs)
  BY <1>3 DEF Admit
<1> QED BY <1>2, <1>3

\* The batches of a finite set of passages.
LEMMA BatchesFacts ==
  ASSUME NEW P, IsFiniteSet(P)
  PROVE  /\ Len(Batches(P)) \in Nat
         /\ \A k \in 1 .. Len(Batches(P)) :
               /\ Batches(P)[k] = <<"extract", Slice(P, BatchSize, k - 1)>>
               /\ Batches(P)[k][1] = "extract" /\ Batches(P)[k][2] \subseteq P
<1> DEFINE n == (Cardinality(P) + BatchSize - 1) \div BatchSize
           b(k) == <<"extract", Slice(P, BatchSize, k - 1)>>
<1>1. n \in Nat
  <2>1. Cardinality(P) \in Nat /\ BatchSize \in Nat /\ BatchSize > 0
    BY FS_CardinalityType, SurveyAssumption
  <2>2. Cardinality(P) + BatchSize - 1 \in Nat
    BY <2>1
  <2> QED BY <2>1, <2>2, SMT
<1>2. Batches(P) = [k \in 1 .. n |-> b(k)]
  BY DEF Batches
<1>3. \A k : b(k)[1] = "extract" /\ b(k)[2] \subseteq P
  BY DEF Slice
<1> HIDE DEF n, b
<1>4. Len(Batches(P)) = n
  BY <1>1, <1>2
<1>5. \A k \in 1 .. n : Batches(P)[k] = b(k)
  BY <1>2
<1> QED BY <1>1, <1>3, <1>4, <1>5 DEF b

\* What is extracted from a finite corpus is quoted from it.
LEMMA ExtractedQuoted ==
  ASSUME NEW P, IsFiniteSet(P), NEW proposals,
         \A k \in 1 .. Len(Batches(P)) : proposals[k] \in Seq(Proposable)
  PROVE  AdmitBatches(Batches(P), proposals) \in RelationsOver(P)
<1> DEFINE B == Batches(P)
           A == RelationsOver(P)
<1>1. <<>> \in A
  <2>1. <<>> \in Seq(Proposable) /\ Len(<<>>) = 0
    OBVIOUS
  <2> QED BY <2>1 DEF RelationsOver
<1>2. Len(B) \in Nat /\ \A k \in 1 .. Len(B) : B[k][2] \subseteq P
  BY BatchesFacts
<1> HIDE DEF A
<1>3. ASSUME NEW rs \in A, NEW k \in 1 .. Len(B) PROVE AdmitAll(rs, proposals[k], B[k][2]) \in A
  <2>1. proposals[k] \in Seq(Proposable) /\ Len(proposals[k]) \in Nat
    OBVIOUS
  <2>2. ASSUME NEW qs \in A, NEW i \in 1 .. Len(proposals[k])
        PROVE  Admit(qs, proposals[k][i], B[k][2]) \in A
    <3>1. proposals[k][i] \in Proposable
      BY <2>1
    <3>2. B[k][2] \subseteq P
      BY <1>2
    <3> HIDE DEF B
    <3> QED BY <3>1, <3>2, AdmitQuoted DEF A
  <2> HIDE DEF B
  <2> QED BY <2>1, <2>2, AdmitAllStays
<1> HIDE DEF B
<1>4. AdmitBatches(B, proposals) \in A
  BY <1>1, <1>2, <1>3, AdmitBatchesStays
<1> QED BY <1>4 DEF A, B

-----------------------------------------------------------------------------
(***************************************************************************)
(* Claims and gaps are made of relations.                                  *)
(***************************************************************************)

\* f is a function, and the image of a finite domain is finite.
IsFcn(f) == f = [x \in DOMAIN f |-> f[x]]

\* A function takes no more values than it has arguments.
LEMMA ImageFinite ==
  ASSUME NEW f, IsFiniteSet(DOMAIN f), IsFcn(f)
  PROVE  IsFiniteSet(Range(f)) /\ Cardinality(Range(f)) <= Cardinality(DOMAIN f)
<1>1. f \in Surjection(DOMAIN f, Range(f))
  BY DEF Surjection, Range, IsFcn
<1> QED BY <1>1, FS_Surjection

\* The members of R that D puts before x.
Before(R, D, x) == {y \in R : D[y] < D[x]}

\* In a finite set ordered by D some member has exactly k before it.
LEMMA HasRank ==
  ASSUME NEW R, IsFiniteSet(R), NEW D \in [R -> Nat],
         \A x, y \in R : D[x] = D[y] => x = y,
         NEW n \in Nat, n < Cardinality(R)
  PROVE  \E x \in R : Cardinality(Before(R, D, x)) = n
<1> DEFINE S == {k \in 0 .. n : \E x \in R : Cardinality(Before(R, D, x)) = k}
<1>1. ASSUME NEW T, T \subseteq R, T # {}
      PROVE  \E x \in T : \A y \in T : D[x] <= D[y]
  <2> DEFINE V == {D[x] : x \in T}
  <2>1. V \subseteq Nat /\ V # {}
    BY <1>1
  <2>2. PICK v \in V : \A w \in V : v <= w
    BY <2>1, HasLeast
  <2> QED BY <2>2
<1>2. 0 \in S
  <2>1. R # {}
    BY FS_EmptySet
  <2>2. PICK x \in R : \A y \in R : D[x] <= D[y]
    BY <1>1, <2>1
  <2>3. Before(R, D, x) = {}
    BY <2>2 DEF Before
  <2>4. Cardinality(Before(R, D, x)) = 0 /\ 0 \in 0 .. n
    BY <2>3, FS_EmptySet
  <2> QED BY <2>4
<1>3. ASSUME NEW k \in 1 .. n, k - 1 \in S PROVE k \in S
  <2>1. PICK x \in R : Cardinality(Before(R, D, x)) = k - 1
    BY <1>3
  <2> DEFINE L == Before(R, D, x)
             T == R \ (L \cup {x})
  <2>2. L \subseteq R /\ x \notin L
    BY DEF Before
  <2>3. IsFiniteSet(L)
    BY <2>2, FS_Subset
  <2>4. IsFiniteSet(L \cup {x}) /\ Cardinality(L \cup {x}) = k
    <3>1. IsFiniteSet(L \cup {x}) /\ Cardinality(L \cup {x}) = Cardinality(L) + 1
      BY <2>2, <2>3, FS_AddElement
    <3>2. Cardinality(L) = k - 1
      BY <2>1
    <3> QED BY <3>1, <3>2
  <2>5. T # {}
    <3>1. SUFFICES ASSUME R = L \cup {x} PROVE FALSE
      BY <2>2
    <3>2. Cardinality(R) = k
      BY <2>4, <3>1
    <3> QED BY <3>2
  <2>6. PICK t \in T : \A y \in T : D[t] <= D[y]
    BY <1>1, <2>5
  <2>7. Before(R, D, t) = L \cup {x}
    <3>1. ASSUME NEW y \in R PROVE D[y] < D[t] <=> y \in L \cup {x}
      <4>1. D[y] \in Nat /\ D[t] \in Nat /\ D[x] \in Nat
        OBVIOUS
      <4>2. t \in R /\ t \notin L /\ t # x
        OBVIOUS
      <4>3. ~(D[t] < D[x]) /\ D[t] # D[x]
        BY <4>2 DEF Before
      <4>4. CASE y \in L
        BY <4>1, <4>3, <4>4 DEF Before
      <4>5. CASE y = x
        BY <4>1, <4>3, <4>5
      <4>6. CASE y \in T
        BY <2>6, <4>1, <4>6
      <4> QED BY <4>4, <4>5, <4>6
    <3>2. L \cup {x} \subseteq R
      BY <2>2
    <3> HIDE DEF L
    <3> QED BY <3>1, <3>2 DEF Before
  <2>8. Cardinality(Before(R, D, t)) = k /\ t \in R
    BY <2>4, <2>7
  <2> QED BY <2>8
<1> HIDE DEF S
<1>4. n \in S
  <2>1. Inductive(S, n)
    BY <1>2, <1>3 DEF Inductive
  <2>2. n \in 0 .. n
    OBVIOUS
  <2> QED BY <2>1, <2>2, Reaches
<1> QED BY <1>4 DEF S

\* The first relation of each claim.
LEMMA FirstsFacts ==
  ASSUME NEW P, NEW rs \in RelationsOver(P)
  PROVE  /\ IsFiniteSet(Firsts(rs))
         /\ \A r \in Firsts(rs) : r \in Proposable /\ Quoted(r, P)
         /\ \A r, s \in Firsts(rs) : ClaimId(r) = ClaimId(s) => r = s
<1>1. rs \in Seq(Proposable) /\ \A k \in 1 .. Len(rs) : Quoted(rs[k], P)
  BY DEF RelationsOver
<1>2. Len(rs) \in Nat /\ DOMAIN rs = 1 .. Len(rs) /\ \A k \in 1 .. Len(rs) : rs[k] \in Proposable
  BY <1>1
<1>3. IsFiniteSet(Firsts(rs))
  <2> DEFINE T == Range(rs)
  <2>1. IsFiniteSet(DOMAIN rs)
    BY <1>2, FS_Interval
  <2>4. IsFcn(rs)
    BY <1>1 DEF IsFcn
  <2>2. IsFiniteSet(T)
    BY <2>1, <2>4, ImageFinite
  <2>3. Firsts(rs) \subseteq T
    BY <1>2 DEF Firsts, Range
  <2> HIDE DEF T
  <2> QED BY <2>2, <2>3, FS_Subset
<1>4. \A r \in Firsts(rs) : r \in Proposable /\ Quoted(r, P)
  BY <1>1, <1>2 DEF Firsts
<1>5. ASSUME NEW r \in Firsts(rs), NEW s \in Firsts(rs), ClaimId(r) = ClaimId(s) PROVE r = s
  <2>1. PICK i \in 1 .. Len(rs) :
           r = rs[i] /\ \A j \in 1 .. i - 1 : ClaimId(rs[j]) # ClaimId(rs[i])
    BY DEF Firsts
  <2>2. PICK j \in 1 .. Len(rs) :
           s = rs[j] /\ \A k \in 1 .. j - 1 : ClaimId(rs[k]) # ClaimId(rs[j])
    BY DEF Firsts
  <2>3. ~(i < j)
    <3>1. i < j => i \in 1 .. j - 1
      BY <1>2
    <3> QED BY <1>5, <2>1, <2>2, <3>1
  <2>4. ~(j < i)
    <3>1. j < i => j \in 1 .. i - 1
      BY <1>2
    <3> QED BY <1>5, <2>1, <2>2, <3>1
  <2> QED BY <1>2, <2>1, <2>2, <2>3, <2>4
<1> QED BY <1>3, <1>4, <1>5

\* The claims are a sequence, and each quotes a passage of the corpus.
LEMMA ClaimsQuoted ==
  ASSUME NEW P, NEW rs \in RelationsOver(P)
  PROVE  /\ Len(Claims(rs)) \in Nat
         /\ Claims(rs) = [k \in 1 .. Len(Claims(rs)) |-> Claims(rs)[k]]
         /\ \A k \in 1 .. Len(Claims(rs)) : Quoted(Claims(rs)[k], P)
<1> DEFINE R == Firsts(rs)
           D == [r \in R |-> Digest[ClaimId(r)]]
           c == Cardinality(R)
           n == IF c < MaxClaims THEN c ELSE MaxClaims
<1>1. /\ IsFiniteSet(R)
      /\ \A r \in R : r \in Proposable /\ Quoted(r, P)
      /\ \A r, s \in R : ClaimId(r) = ClaimId(s) => r = s
  BY FirstsFacts
<1>2. D \in [R -> Nat] /\ \A x, y \in R : D[x] = D[y] => x = y
  BY <1>1, SurveyAssumption, SemifinalAssumption
<1>3. n \in Nat /\ c \in Nat /\ n <= c
  BY <1>1, FS_CardinalityType, SurveyAssumption
<1>4. Claims(rs) = [k \in 1 .. n |-> Claim(Nth(R, k))]
  BY DEF Claims
<1> HIDE DEF R
<1>5. ASSUME NEW k \in 1 .. n PROVE Nth(R, k) \in R
  <2>1. \A x \in R : Before(R, D, x) = {s \in R : Digest[ClaimId(s)] < Digest[ClaimId(x)]}
    BY DEF Before
  <2>2. k - 1 \in Nat /\ k - 1 < Cardinality(R)
    BY <1>3
  <2> HIDE DEF D, c, n
  <2>3. \E x \in R : Cardinality(Before(R, D, x)) = k - 1
    BY <1>1, <1>2, <2>2, HasRank
  <2> QED BY <2>1, <2>3 DEF Nth
<1> HIDE DEF n, c, D
<1>6. Len(Claims(rs)) = n
  BY <1>3, <1>4
<1>7. ASSUME NEW k \in 1 .. n PROVE Quoted(Claims(rs)[k], P)
  <2>1. Claims(rs)[k] = Claim(Nth(R, k))
    BY <1>4
  <2>2. Quoted(Nth(R, k), P)
    BY <1>1, <1>5
  <2> QED BY <2>1, <2>2 DEF Claim, Quoted
<1> QED BY <1>3, <1>4, <1>6, <1>7

\* The n members with the largest values of D, when there are as many.
IsBest(S, R, D, n) ==
    Cardinality(S) = n /\ \A x \in S : \A y \in R \ S : D[x] >= D[y]

\* There is a best choice of n among finitely many.
LEMMA HasBest ==
  ASSUME NEW R, IsFiniteSet(R), NEW b \in Nat, NEW D \in [R -> 0 .. b],
         NEW n \in Nat, n <= Cardinality(R)
  PROVE  \E S \in SUBSET R : IsBest(S, R, D, n)
<1> DEFINE K == {k \in 0 .. n : \E S \in SUBSET R : IsBest(S, R, D, k)}
<1>1. 0 \in K
  <2>1. IsBest({}, R, D, 0)
    BY FS_EmptySet DEF IsBest
  <2> QED BY <2>1
<1>2. ASSUME NEW k \in 1 .. n, k - 1 \in K PROVE k \in K
  <2>1. PICK S \in SUBSET R : IsBest(S, R, D, k - 1)
    BY <1>2
  <2>2. IsFiniteSet(S) /\ Cardinality(S) = k - 1
    BY <2>1, FS_Subset DEF IsBest
  <2>3. R \ S # {}
    <3>1. SUFFICES ASSUME R = S PROVE FALSE
      OBVIOUS
    <3> QED BY <2>2, <3>1
  <2>4. PICK t \in R \ S : \A y \in R \ S : D[t] >= D[y]
    <3> DEFINE V == {b - D[x] : x \in R \ S}
    <3>1. V \subseteq Nat /\ V # {}
      BY <2>3
    <3>2. PICK v \in V : \A w \in V : v <= w
      BY <3>1, HasLeast
    <3>3. PICK t \in R \ S : v = b - D[t]
      BY <3>2
    <3>4. ASSUME NEW y \in R \ S PROVE D[t] >= D[y]
      <4>1. b - D[t] <= b - D[y]
        BY <3>2, <3>3
      <4>2. D[t] \in 0 .. b /\ D[y] \in 0 .. b
        OBVIOUS
      <4> QED BY <4>1, <4>2
    <3> QED BY <3>4
  <2> DEFINE U == S \cup {t}
  <2>5. Cardinality(U) = k
    <3>1. Cardinality(U) = Cardinality(S) + 1
      BY <2>2, FS_AddElement
    <3> HIDE DEF U
    <3> QED BY <2>2, <3>1
  <2>6. ASSUME NEW x \in U, NEW y \in R \ U PROVE D[x] >= D[y]
    <3>1. y \in R \ S
      OBVIOUS
    <3> QED BY <2>1, <2>4, <3>1 DEF IsBest
  <2>7. U \in SUBSET R /\ IsBest(U, R, D, k)
    BY <2>5, <2>6 DEF IsBest
  <2> HIDE DEF U
  <2> QED BY <2>7
<1> HIDE DEF K
<1>3. n \in K
  <2>1. Inductive(K, n)
    BY <1>1, <1>2 DEF Inductive
  <2>2. n \in 0 .. n
    OBVIOUS
  <2> QED BY <2>1, <2>2, Reaches
<1> QED BY <1>3 DEF K

\* A candidate of some relations: it cites their passages, and counts no
\* more documents than there are relations.
IsCandidate(c, rs) ==
    /\ c.passages \subseteq {rs[i].passage : i \in 1 .. Len(rs)}
    /\ c.documents \in 0 .. Len(rs)

\* A candidate cites the passages of the relations it is about.
LEMMA CandidateFacts ==
  ASSUME NEW rs, Len(rs) \in Nat, NEW I, I \subseteq 1 .. Len(rs),
         NEW kind, NEW subject, NEW passages
  PROVE  IsCandidate(Candidate(kind, subject, rs, I, passages), rs)
<1> DEFINE J == {j \in I : rs[j].passage \in passages}
           f == [i \in J |-> DocOf[rs[i].passage]]
           c == Candidate(kind, subject, rs, I, passages)
<1>1. IsFiniteSet(1 .. Len(rs)) /\ Cardinality(1 .. Len(rs)) = Len(rs)
  <2>1. 1 \in Int /\ Len(rs) \in Int
    OBVIOUS
  <2>2. IsFiniteSet(1 .. Len(rs))
        /\ Cardinality(1 .. Len(rs)) = IF 1 > Len(rs) THEN 0 ELSE Len(rs) - 1 + 1
    BY <2>1, FS_Interval
  <2> QED BY <2>2
<1>2. IsFiniteSet(J) /\ Cardinality(J) <= Len(rs)
  <2>1. J \in SUBSET (1 .. Len(rs))
    OBVIOUS
  <2> HIDE DEF J
  <2>2. IsFiniteSet(J) /\ Cardinality(J) <= Cardinality(1 .. Len(rs))
    BY <1>1, <2>1, FS_Subset
  <2> QED BY <1>1, <2>2
<1>3. DOMAIN f = J /\ IsFcn(f)
  BY DEF IsFcn
<1>4. CellDocs(rs, I, passages) = Range(f)
  BY DEF CellDocs, Range
<1>5. c.passages = {rs[i].passage : i \in I} /\ c.documents = Cardinality(CellDocs(rs, I, passages))
  BY DEF Candidate
<1> HIDE DEF f, J, c
<1>6. IsFiniteSet(CellDocs(rs, I, passages))
      /\ Cardinality(CellDocs(rs, I, passages)) <= Cardinality(J)
  BY <1>2, <1>3, <1>4, ImageFinite
<1>7. Cardinality(CellDocs(rs, I, passages)) \in Nat /\ Cardinality(J) \in Nat
  BY <1>2, <1>6, FS_CardinalityType
<1> QED BY <1>2, <1>5, <1>6, <1>7 DEF IsCandidate, c

\* What a detector returns are finitely many candidates.
LEMMA DetectedFacts ==
  ASSUME NEW S, NEW rs \in Seq(S), NEW kind, NEW passages
  PROVE  /\ IsFiniteSet(Detected(kind, rs, passages))
         /\ \A c \in Detected(kind, rs, passages) : IsCandidate(c, rs)
<1> DEFINE N == 1 .. Len(rs)
           C == CellsOf(rs)
           H == Holes(rs)
           G == {c \in C : Fires(kind, rs, Cell(rs, c), passages)}
<1>1. Len(rs) \in Nat
  OBVIOUS
<1>2. IsFiniteSet(C)
  <2> DEFINE f == [i \in N |-> rs[i].cell]
  <2>1. IsFiniteSet(DOMAIN f) /\ IsFcn(f)
    BY <1>1, FS_Interval DEF IsFcn
  <2>2. C = Range(f)
    BY DEF CellsOf, Range
  <2> HIDE DEF f, C
  <2> QED BY <2>1, <2>2, ImageFinite
<1>3. IsFiniteSet(H)
  <2> DEFINE f == [x \in C \X C |-> <<x[1][1], x[2][2], x[1][3]>>]
  <2>1. IsFiniteSet(C \X C)
    BY <1>2, FS_Product
  <2>2. DOMAIN f = C \X C /\ IsFcn(f)
    BY DEF IsFcn
  <2>3. ASSUME NEW a \in C, NEW b \in C PROVE <<a[1], b[2], a[3]>> \in Range(f)
    <3>1. <<a, b>> \in DOMAIN f /\ f[<<a, b>>] = <<a[1], b[2], a[3]>>
      OBVIOUS
    <3> HIDE DEF f
    <3> QED BY <3>1 DEF Range
  <2>4. H \subseteq Range(f)
    <3>1. \A k \in H : \E a, b \in C : k = <<a[1], b[2], a[3]>>
      BY DEF Holes
    <3> HIDE DEF f, C, H
    <3> QED BY <2>3, <3>1
  <2> HIDE DEF f, C, H
  <2>5. IsFiniteSet(Range(f))
    BY <2>1, <2>2, ImageFinite
  <2> QED BY <2>4, <2>5, FS_Subset
<1>4. IsFiniteSet(G)
  <2>1. G \in SUBSET C
    OBVIOUS
  <2> HIDE DEF G, C
  <2> QED BY <1>2, <2>1, FS_Subset
<1>5. CASE kind = "unexplored_combination"
  <2> DEFINE f == [k \in H |-> Candidate(kind, k, rs, Axes(rs, k), passages)]
  <2>1. Detected(kind, rs, passages) = Range(f)
    BY <1>5 DEF Detected, Range
  <2>2. IsFiniteSet(DOMAIN f) /\ IsFcn(f)
    BY <1>3 DEF IsFcn
  <2>3. ASSUME NEW k \in DOMAIN f PROVE IsCandidate(f[k], rs)
    <3>1. Axes(rs, k) \subseteq 1 .. Len(rs)
      BY DEF Axes
    <3>2. f[k] = Candidate(kind, k, rs, Axes(rs, k), passages)
      OBVIOUS
    <3> QED BY <1>1, <3>1, <3>2, CandidateFacts
  <2> HIDE DEF f
  <2>4. IsFiniteSet(Detected(kind, rs, passages))
    BY <2>1, <2>2, ImageFinite
  <2> QED BY <2>1, <2>3, <2>4 DEF Range
<1>6. CASE kind # "unexplored_combination"
  <2> DEFINE f == [k \in G |-> Candidate(kind, k, rs, Cell(rs, k), passages)]
  <2>1. Detected(kind, rs, passages) = Range(f)
    BY <1>6 DEF Detected, Range
  <2>2. IsFiniteSet(DOMAIN f) /\ IsFcn(f)
    BY <1>4 DEF IsFcn
  <2>3. ASSUME NEW k \in DOMAIN f PROVE IsCandidate(f[k], rs)
    <3>1. Cell(rs, k) \subseteq 1 .. Len(rs)
      BY DEF Cell
    <3>2. f[k] = Candidate(kind, k, rs, Cell(rs, k), passages)
      OBVIOUS
    <3> QED BY <1>1, <3>1, <3>2, CandidateFacts
  <2> HIDE DEF f
  <2>4. IsFiniteSet(Detected(kind, rs, passages))
    BY <2>1, <2>2, ImageFinite
  <2> QED BY <2>1, <2>3, <2>4 DEF Range
<1> QED BY <1>5, <1>6

\* The best supported candidates are among those found.
LEMMA BestFound ==
  ASSUME NEW found, IsFiniteSet(found), NEW b \in Nat,
         \A c \in found : c.documents \in 0 .. b
  PROVE  Best(found) \subseteq found
<1> DEFINE c == Cardinality(found)
           n == IF c < MaxPerKind THEN c ELSE MaxPerKind
           D == [x \in found |-> x.documents]
<1>1. c \in Nat /\ n \in Nat /\ n <= c
  BY FS_CardinalityType, SurveyAssumption
<1>2. D \in [found -> 0 .. b]
  OBVIOUS
<1>3. \A S \in SUBSET found : IsBest(S, found, D, n) <=>
        Cardinality(S) = n /\ \A x \in S, y \in found \ S : x.documents >= y.documents
  BY DEF IsBest
<1> HIDE DEF D
<1>4. \E S \in SUBSET found : IsBest(S, found, D, n)
  BY <1>1, <1>2, HasBest
<1> QED BY <1>3, <1>4 DEF Best

\* A narrated gap cites passages of the corpus, and its novelty is quoted.
LEMMA GapsFit ==
  ASSUME NEW P, NEW passages, P \subseteq passages, NEW rs \in RelationsOver(P), NEW got,
         NEW g \in Gaps(got, rs, passages)
  PROVE  GapFits(g, passages)
<1> DEFINE cs == {c \in find_candidates(rs, passages) :
                  /\ Exposed(c, passages) # {}
                  /\ GapAdmissible(got[NarrateOp(c)], Exposed(c, passages))}
           all == {Gap(c, got[NarrateOp(c)]) : c \in cs}
<1>1. g \in all
  <2>1. Gaps(got, rs, passages) = {CHOOSE h \in all : GapId(h) = i : i \in {GapId(h) : h \in all}}
    BY DEF Gaps
  <2> HIDE DEF all
  <2> QED BY <2>1
<1>2. PICK c \in cs : g = Gap(c, got[NarrateOp(c)])
  BY <1>1
<1>3. rs \in Seq(Proposable) /\ Len(rs) \in Nat /\ \A k \in 1 .. Len(rs) : Quoted(rs[k], P)
  BY DEF RelationsOver
<1>4. c.passages \subseteq passages
  <2>1. PICK kind : c \in Best(Detected(kind, rs, passages))
    BY DEF find_candidates
  <2>2. /\ IsFiniteSet(Detected(kind, rs, passages))
        /\ \A x \in Detected(kind, rs, passages) : IsCandidate(x, rs)
    BY <1>3, DetectedFacts
  <2>3. \A x \in Detected(kind, rs, passages) : x.documents \in 0 .. Len(rs)
    BY <2>2 DEF IsCandidate
  <2>4. c \in Detected(kind, rs, passages)
    BY <1>3, <2>1, <2>2, <2>3, BestFound
  <2>5. c.passages \subseteq {rs[i].passage : i \in 1 .. Len(rs)}
    BY <2>2, <2>4 DEF IsCandidate
  <2> QED BY <1>3, <2>5 DEF Quoted
<1>5. Exposed(c, passages) # {} /\ Exposed(c, passages) \subseteq c.passages
  BY DEF Exposed, Least
<1>6. GapAdmissible(got[NarrateOp(c)], Exposed(c, passages))
  OBVIOUS
<1> HIDE DEF cs
<1>7. /\ g.passages = c.passages /\ g.novelty = got[NarrateOp(c)].novelty
      /\ g.quote = got[NarrateOp(c)].quote
  BY <1>2 DEF Gap
<1> QED BY <1>4, <1>5, <1>6, <1>7 DEF GapAdmissible, GapFits

-----------------------------------------------------------------------------
(***************************************************************************)
(* Stages and files.                                                       *)
(***************************************************************************)

\* u is s, of length n, followed by t.
IsConcat(u, s, t, n) ==
    /\ Len(u) = n + Len(t)
    /\ \A k \in 1 .. n + Len(t) : u[k] = IF k <= n THEN s[k] ELSE t[k - n]

\* What stands where in the concatenation of two sequences.
LEMMA ConcatFacts ==
  ASSUME NEW S, NEW s \in Seq(S), NEW t \in Seq(S), NEW n \in Nat, Len(s) = n
  PROVE  IsConcat(s \o t, s, t, n)
<1>1. Len(s \o t) = n + Len(t)
  OBVIOUS
<1>2. ASSUME NEW k \in 1 .. n + Len(t)
      PROVE  (s \o t)[k] = IF k <= n THEN s[k] ELSE t[k - n]
  OBVIOUS
<1> QED BY <1>1, <1>2 DEF IsConcat

Numbered(s, n) ==
    LET M == Len(Methods) IN
    /\ (s = "freeze") = (n = 1)
    /\ (s = "extract") = (n = 2)
    /\ (s = "claims") = (n = 3)
    /\ (s \in MethodSet) = (n \in 4 .. M + 3)
    /\ (s = "gaps") = (n = M + 4)
    /\ (s = "oracle") = (n = M + 5)
    /\ (s = "packs") = (n = M + 6)
    /\ (s = "score") = (n = M + 7)
    /\ (s = "report") = (n = M + 8)

Fixed == {"freeze", "extract", "claims", "gaps", "oracle", "packs", "score", "report"}

\* The stages in their order: three, one for each method, five.
LEMMA StageNumbers ==
  /\ Len(Methods) \in Nat /\ Len(Stages) = Len(Methods) + 8
  /\ \A n \in 1 .. Len(Stages) : Numbered(Stages[n], n) /\ Stages[n] \in MethodSet \cup Fixed
  /\ \A n \in 4 .. Len(Methods) + 3 : n - 3 \in 1 .. Len(Methods) /\ Stages[n] = Methods[n - 3]
<1> DEFINE M == Len(Methods)
           A == <<"freeze", "extract", "claims">>
           C == <<"gaps", "oracle", "packs", "score", "report">>
           T == MethodSet \cup Fixed
<1>1. Methods \in Seq(MethodSet) /\ M \in Nat /\ \A k \in 1 .. M : Methods[k] \in MethodSet
  BY SemifinalAssumption
<1>2. Methods \in Seq(T) /\ A \in Seq(T) /\ C \in Seq(T)
  BY <1>1 DEF Fixed
<1>3. Len(A) = 3 /\ Len(C) = 5
  OBVIOUS
<1>4. Stages = (A \o Methods) \o C
  BY DEF Stages
<1>5. /\ A \o Methods \in Seq(T) /\ Len(A \o Methods) = M + 3
      /\ \A k \in 1 .. M + 3 : (A \o Methods)[k] = IF k <= 3 THEN A[k] ELSE Methods[k - 3]
  BY <1>2, <1>3
<1>6. /\ Len(Stages) = M + 8
      /\ \A k \in 1 .. M + 8 : Stages[k] = IF k <= M + 3 THEN (A \o Methods)[k] ELSE C[k - M - 3]
  <2> DEFINE D == A \o Methods
  <2>1. D \in Seq(T) /\ Len(D) = M + 3 /\ Stages = D \o C /\ M + 3 \in Nat
    BY <1>1, <1>4, <1>5
  <2> HIDE DEF A, C, D, T, M
  <2>2. IsConcat(D \o C, D, C, M + 3)
    BY <1>2, <2>1, ConcatFacts
  <2>3. (M + 3) + Len(C) = M + 8 /\ \A k \in 1 .. M + 8 : k - (M + 3) = k - M - 3
    BY <1>1, <1>3
  <2> QED BY <2>1, <2>2, <2>3 DEF D, IsConcat
<1>7. ASSUME NEW k \in 1 .. M + 8
      PROVE  /\ k = 1 => Stages[k] = "freeze"
             /\ k = 2 => Stages[k] = "extract"
             /\ k = 3 => Stages[k] = "claims"
             /\ k \in 4 .. M + 3 => Stages[k] = Methods[k - 3]
             /\ k = M + 4 => Stages[k] = "gaps"
             /\ k = M + 5 => Stages[k] = "oracle"
             /\ k = M + 6 => Stages[k] = "packs"
             /\ k = M + 7 => Stages[k] = "score"
             /\ k = M + 8 => Stages[k] = "report"
  <2>1. /\ k <= 3 => Stages[k] = A[k]
        /\ k \in 4 .. M + 3 => Stages[k] = Methods[k - 3]
        /\ k > M + 3 => Stages[k] = C[k - M - 3]
    <3> HIDE DEF A, C
    <3> QED BY <1>1, <1>5, <1>6
  <2>2. /\ k = M + 4 => k - M - 3 = 1
        /\ k = M + 5 => k - M - 3 = 2
        /\ k = M + 6 => k - M - 3 = 3
        /\ k = M + 7 => k - M - 3 = 4
        /\ k = M + 8 => k - M - 3 = 5
    BY <1>1
  <2> HIDE DEF M
  <2> QED BY <1>1, <2>1, <2>2
<1>8. ASSUME NEW k \in 4 .. M + 3
      PROVE  k - 3 \in 1 .. M /\ Stages[k] = Methods[k - 3] /\ Stages[k] \in MethodSet
  <2>1. k \in 1 .. M + 8 /\ k - 3 \in 1 .. M
    BY <1>1
  <2> QED BY <1>1, <1>7, <2>1
<1>9. ASSUME NEW n \in 1 .. M + 8
      PROVE  Numbered(Stages[n], n) /\ Stages[n] \in MethodSet \cup Fixed
  <2>1. MethodSet \cap Fixed = {}
    BY SemifinalAssumption DEF Fixed
  <2>2. \/ n \in 4 .. M + 3 /\ Stages[n] \in MethodSet
        \/ n = 1 \/ n = 2 \/ n = 3
        \/ n = M + 4 \/ n = M + 5 \/ n = M + 6 \/ n = M + 7 \/ n = M + 8
    <3>1. \/ n \in 4 .. M + 3 \/ n = 1 \/ n = 2 \/ n = 3
          \/ n = M + 4 \/ n = M + 5 \/ n = M + 6 \/ n = M + 7 \/ n = M + 8
      BY <1>1
    <3> QED BY <1>8, <3>1
  <2> HIDE DEF M
  <2>3. CASE n \in 4 .. M + 3 /\ Stages[n] \in MethodSet
    BY <1>1, <2>1, <2>3 DEF Numbered, Fixed, M
  <2>4. CASE n = 1
    BY <1>1, <1>7, <2>1, <2>4 DEF Numbered, Fixed, M
  <2>5. CASE n = 2
    BY <1>1, <1>7, <2>1, <2>5 DEF Numbered, Fixed, M
  <2>6. CASE n = 3
    BY <1>1, <1>7, <2>1, <2>6 DEF Numbered, Fixed, M
  <2>7. CASE n = M + 4
    BY <1>1, <1>7, <2>1, <2>7 DEF Numbered, Fixed, M
  <2>8. CASE n = M + 5
    BY <1>1, <1>7, <2>1, <2>8 DEF Numbered, Fixed, M
  <2>9. CASE n = M + 6
    BY <1>1, <1>7, <2>1, <2>9 DEF Numbered, Fixed, M
  <2>10. CASE n = M + 7
    BY <1>1, <1>7, <2>1, <2>10 DEF Numbered, Fixed, M
  <2>11. CASE n = M + 8
    BY <1>1, <1>7, <2>1, <2>11 DEF Numbered, Fixed, M
  <2> QED BY <2>2, <2>3, <2>4, <2>5, <2>6, <2>7, <2>8, <2>9, <2>10, <2>11
<1> QED BY <1>1, <1>6, <1>8, <1>9

\* The names of files differ, and each is a file.
LEMMA FileNames ==
  /\ {Snap, Rel, Clm, Gps, OCache, OClaims, OGaps, Pkg, Smy, Rpt} \subseteq Files
  /\ \A m \in MethodSet : Predictions(m) \in Files /\ Usage(m) \in Files
  /\ \A s, t : Predictions(s) # Usage(t)
  /\ \A s, t : Predictions(s) = Predictions(t) => s = t
  /\ \A s, t : Usage(s) = Usage(t) => s = t
  /\ \A s : Predictions(s) \notin {Snap, Rel, Clm, Gps, OCache, OClaims, OGaps, Pkg, Smy, Rpt}
  /\ \A s : Usage(s) \notin {Snap, Rel, Clm, Gps, OCache, OClaims, OGaps, Pkg, Smy, Rpt}
  BY DEF Files, Predictions, Usage, Of, Snap, Rel, Clm, Gps, OCache, OClaims, OGaps, Pkg, Smy, Rpt

\* No two of the files that do not depend on a method are one.
LEMMA FixedNames ==
  /\ Snap \notin {Rel, Clm, Gps, OCache, OClaims, OGaps, Pkg, Smy, Rpt}
  /\ Rel \notin {Clm, Gps, OCache, OClaims, OGaps, Pkg, Smy, Rpt}
  /\ Clm \notin {Gps, OCache, OClaims, OGaps, Pkg, Smy, Rpt}
  /\ Gps \notin {OCache, OClaims, OGaps, Pkg, Smy, Rpt}
  /\ OCache \notin {OClaims, OGaps, Pkg, Smy, Rpt}
  /\ OClaims \notin {OGaps, Pkg, Smy, Rpt}
  /\ OGaps \notin {Pkg, Smy, Rpt}
  /\ Pkg \notin {Smy, Rpt} /\ Smy # Rpt
  BY DEF Of, Snap, Rel, Clm, Gps, OCache, OClaims, OGaps, Pkg, Smy, Rpt

\* The three states of a file differ.
LEMMA Contents ==
  /\ Absent # Cut
  /\ \A c : Whole(c) # Absent /\ Whole(c) # Cut /\ Whole(c)[2] = c
  BY DEF Absent, Cut, Whole

\* What each stage owns.
LEMMA OwnFacts ==
  ASSUME NEW n \in 1 .. Len(Stages), NEW f \in Own(Stages[n])
  PROVE  LET M == Len(Methods) IN
         \/ n = 1 /\ f = Snap
         \/ n = 2 /\ f = Rel
         \/ n = 3 /\ f = Clm
         \/ n \in 4 .. M + 3 /\ Stages[n] \in MethodSet
               /\ (f = Predictions(Stages[n]) \/ f = Usage(Stages[n]))
         \/ n = M + 4 /\ f = Gps
         \/ n = M + 5 /\ (f = OCache \/ f = OClaims \/ f = OGaps)
         \/ n = M + 6 /\ f = Pkg
         \/ n = M + 7 /\ f = Smy
         \/ n = M + 8 /\ f = Rpt
<1> DEFINE s == Stages[n]
<1>1. Numbered(s, n) /\ s \in MethodSet \cup Fixed /\ MethodSet \cap Fixed = {}
  BY StageNumbers, SemifinalAssumption DEF Fixed
<1>2. f \in Own(s)
  OBVIOUS
<1> HIDE DEF s
<1>3. CASE s \in MethodSet
  BY <1>1, <1>2, <1>3 DEF Own, Numbered, s
<1>4. CASE s \in Fixed
  <2>1. s \notin MethodSet
    BY <1>1, <1>4
  <2>2. \/ s = "freeze" /\ f = Snap
        \/ s = "extract" /\ f = Rel
        \/ s = "claims" /\ f = Clm
        \/ s = "gaps" /\ f = Gps
        \/ s = "oracle" /\ (f = OCache \/ f = OClaims \/ f = OGaps)
        \/ s = "packs" /\ f = Pkg
        \/ s = "score" /\ f = Smy
        \/ s = "report" /\ f = Rpt
    BY <1>2, <1>4, <2>1 DEF Own, Fixed
  <2> QED BY <1>1, <2>2 DEF Numbered
<1> QED BY <1>1, <1>3, <1>4

-----------------------------------------------------------------------------
(***************************************************************************)
(* The invariant holds initially.                                          *)
(***************************************************************************)

\* A process that is not running.
LEMMA DownFacts ==
  /\ DOMAIN Down = {"at", "skip", "got", "wrote", "open", "call", "tries", "memo"}
  /\ Down.at = 0 /\ Down.wrote = {} /\ Down.open = Nothing /\ Down.call = Nothing
  /\ Down.skip = FALSE /\ Down.got = EmptyMap /\ Down.memo = EmptyOracle
  BY DEF Down

\* A process that has just entered a stage.
IsEntered(p, n) ==
    /\ DOMAIN p = DOMAIN Down
    /\ p.at = n /\ p.wrote = {} /\ p.open = Nothing /\ p.call = Nothing /\ p.got = EmptyMap
    /\ Stages[n] \in MethodSet /\ ~p.skip => file[Predictions(Stages[n])] = Absent
    /\ Stages[n] = "gaps" /\ ~p.skip => file[Gps] = Absent
    /\ p.skip => \/ Stages[n] \in MethodSet /\ file[Predictions(Stages[n])] # Absent
                 \/ Stages[n] = "gaps" /\ file[Gps] # Absent
    /\ Stages[n] = "oracle" => p.memo = IF Complete(OCache) THEN Data(OCache) ELSE EmptyOracle

\* A stage is entered empty-handed, and skipped only over its own files.
LEMMA EnteredFacts ==
  ASSUME NEW n \in 1 .. Len(Stages), NEW tries
  PROVE  IsEntered(Entered(n, tries), n)
<1> DEFINE s == Stages[n]
           f == IF s \in MethodSet THEN Predictions(s) ELSE Of("gaps")
           skip == s \in MethodSet \cup {"gaps"} /\ file[f] # Absent
           memo == IF s = "oracle" /\ Complete(OCache) THEN Data(OCache) ELSE EmptyOracle
           p == Entered(n, tries)
<1>1. "gaps" \notin MethodSet
  BY SemifinalAssumption
<1>2. p = [Down EXCEPT !.at = n, !.tries = tries, !.skip = skip, !.memo = memo]
  BY DEF Entered, OCache
<1>3. s \in MethodSet /\ ~skip => file[Predictions(s)] = Absent
  OBVIOUS
<1>4. s = "gaps" /\ ~skip => file[Gps] = Absent
  BY <1>1 DEF Gps
<1>9. skip => \/ s \in MethodSet /\ file[Predictions(s)] # Absent
              \/ s = "gaps" /\ file[Gps] # Absent
  BY <1>1 DEF Gps
<1> HIDE DEF skip, memo, p
<1>5. /\ DOMAIN p = DOMAIN Down /\ p.at = n /\ p.wrote = {} /\ p.open = Nothing
      /\ p.call = Nothing /\ p.got = EmptyMap /\ p.memo = memo
  BY <1>2, DownFacts
<1>6. p.skip = skip
  BY <1>2, DownFacts
<1>7. s = "oracle" => memo = IF Complete(OCache) THEN Data(OCache) ELSE EmptyOracle
  BY DEF memo
<1>8. /\ s \in MethodSet /\ ~p.skip => file[Predictions(s)] = Absent
      /\ s = "gaps" /\ ~p.skip => file[Gps] = Absent
  BY <1>3, <1>4, <1>6
<1> QED BY <1>5, <1>6, <1>7, <1>8, <1>9 DEF IsEntered, p

\* Nothing has been written yet.
LEMMA InitInv == SInit => SInv
<1> SUFFICES ASSUME SInit PROVE SInv
  OBVIOUS
<1> USE DEF SInit
<1>1. \A f \in Files : file[f] = Absent /\ settled[f] = Absent
  OBVIOUS
<1>2. /\ {Snap, Rel, Clm, Gps, OCache, OClaims, OGaps, Pkg, Smy, Rpt} \subseteq Files
      /\ \A m \in MethodSet : Predictions(m) \in Files /\ Usage(m) \in Files
  BY FileNames
<1>3. ~Running /\ proc.wrote = {} /\ proc.open = Nothing /\ proc.call = Nothing
  BY DownFacts DEF Running
<1>4. Shape
  BY <1>1, DownFacts, StageNumbers DEF Shape
<1>5. Control
  BY <1>3, DownFacts, StageNumbers DEF Control, Passed
<1>6. Ready /\ FirstTime
  BY <1>3 DEF Ready, FirstTime
<1>7. Once
  BY <1>1, <1>2 DEF Once
<1>8. Told
  BY <1>3 DEF Told, Priced, Paid, EmptyMap
<1>9. Memory
  BY <1>1, <1>2, <1>3 DEF Memory, Recorded, Complete
<1>10. Final
  BY <1>1, <1>2 DEF Final, SnapFinal, RelFinal, ClmFinal, PredFinal, GapsFinal, OracleFinal,
                    PkgFinal, SmyFinal, RptFinal, Complete
<1>11. StagesIdempotent
  BY <1>1 DEF StagesIdempotent
<1> QED BY <1>4, <1>5, <1>6, <1>7, <1>8, <1>9, <1>10, <1>11 DEF SInv

-----------------------------------------------------------------------------
(***************************************************************************)
(* Steps that write no file.                                               *)
(***************************************************************************)

\* The cache only grows, what was paid for is kept, and what is paid for now
\* is an answer of the model.
Keeps ==
    /\ file' = file /\ settled' = settled
    /\ Extends(cache', cache)
    /\ \A op : Paid(op) =>
          Paid(op)' /\ ops'[<<"extract", op>>].answer = ops[<<"extract", op>>].answer
    /\ world' \in Worlds

\* Batches that were paid stay paid, with their answers.
LEMMA PaidKept ==
  ASSUME Keeps, NEW B, AllPaid(B)
  PROVE  AllPaid(B)' /\ Proposed(B)' = Proposed(B)
<1>1. \A k \in 1 .. Len(B) : /\ Paid(B[k])'
                             /\ ops'[<<"extract", B[k]>>].answer = ops[<<"extract", B[k]>>].answer
  BY DEF Keeps, AllPaid
<1>2. AllPaid(B)'
  BY <1>1 DEF AllPaid
<1>3. Proposed(B)' = Proposed(B)
  BY <1>1 DEF Proposed
<1> QED BY <1>2, <1>3

\* What files were made from is still so when files are left alone.
LEMMA KeepsFinal ==
  ASSUME SInv, Keeps
  PROVE  Final' /\ StagesIdempotent' /\ Once'
<1>1. SnapFinal'
  <2>1. Extends(cache', cache) /\ settled' = settled
    BY DEF Keeps
  <2>2. NextQuery(cache) = NoRequest =>
           NextQuery(cache') = NoRequest /\ CorpusOf(cache') = CorpusOf(cache)
    BY <2>1, CorpusExtends
  <2> QED BY <2>1, <2>2 DEF SInv, Final, SnapFinal
<1>2. RelFinal'
  <2>1. settled' = settled
    BY DEF Keeps
  <2>2. ASSUME NEW B, B = Batches(settled[Snap][2].passages \ Skip), settled[Rel] # Absent
        PROVE  /\ settled[Snap] # Absent /\ AllPaid(B)'
               /\ settled[Rel][2] = AdmitBatches(B, Proposed(B)')
    <3>1. /\ settled[Snap] # Absent /\ AllPaid(B)
          /\ settled[Rel][2] = AdmitBatches(B, Proposed(B))
      BY <2>2 DEF SInv, Final, RelFinal
    <3> QED BY <3>1, PaidKept
  <2> QED BY <2>1, <2>2 DEF RelFinal
<1>3. ClmFinal' /\ PredFinal' /\ GapsFinal' /\ SmyFinal' /\ RptFinal'
  BY DEF Keeps, SInv, Final, ClmFinal, PredFinal, GapsFinal, SmyFinal, RptFinal
<1>4. OracleFinal' /\ PkgFinal'
  BY DEF Keeps, SInv, Final, OracleFinal, PkgFinal, Complete, Data
<1>5. StagesIdempotent'
  BY DEF Keeps, SInv, StagesIdempotent
<1>6. Once'
  BY DEF Keeps, SInv, Once, Written
<1> QED BY <1>1, <1>2, <1>3, <1>4, <1>5, <1>6 DEF Final

\* What does not depend on the process.
LEMMA KeepsShape ==
  ASSUME SInv, Keeps
  PROVE  /\ \A f \in Files : Written(f)' = Written(f)
         /\ \A n : Passed(n)' = Passed(n)
         /\ \A f : Complete(f)' = Complete(f) /\ Data(f)' = Data(f) /\ Lines(f)' = Lines(f)
         /\ \A m : Recorded(m)' = Recorded(m)
<1> USE DEF Keeps
<1>1. ASSUME NEW f PROVE Written(f)' = Written(f) /\ Complete(f)' = Complete(f)
  BY DEF Written, Complete
<1>2. ASSUME NEW n PROVE Passed(n)' = Passed(n)
  BY <1>1 DEF Passed
<1>3. ASSUME NEW f PROVE Data(f)' = Data(f) /\ Lines(f)' = Lines(f)
  BY DEF Data, Lines
<1>4. ASSUME NEW m PROVE Recorded(m)' = Recorded(m)
  BY DEF Recorded
<1> QED BY <1>1, <1>2, <1>3, <1>4

\* The process ends.
LEMMA Stops ==
  ASSUME SInv, Keeps, Priced', proc' = Down
  PROVE  SInv'
<1>1. Final' /\ StagesIdempotent' /\ Once'
  BY KeepsFinal
<1>2. /\ proc'.at = 0 /\ proc'.wrote = {} /\ proc'.open = Nothing /\ proc'.call = Nothing
      /\ ~Running'
  BY DownFacts DEF Running
<1>3. Shape'
  BY <1>2, DownFacts, StageNumbers DEF SInv, Shape, Keeps
<1>4. Control'
  BY <1>2, StageNumbers DEF Control, Passed
<1>5. Ready' /\ FirstTime' /\ Told'
  BY <1>2 DEF Ready, FirstTime, Told
<1>6. Memory'
  BY <1>2, KeepsShape DEF SInv, Memory, Keeps
<1> QED BY <1>1, <1>3, <1>4, <1>5, <1>6 DEF SInv

\* The process enters a stage whose predecessors have been through.
LEMMA Enters ==
  ASSUME SInv, Keeps, Priced', NEW n \in 1 .. Len(Stages), NEW tries, proc' = Entered(n, tries),
         Passed(n)
  PROVE  SInv'
<1>1. Final' /\ StagesIdempotent' /\ Once'
  BY KeepsFinal
<1>2. IsEntered(proc', n)
  BY EnteredFacts
<1>3. /\ proc'.at = n /\ proc'.wrote = {} /\ proc'.open = Nothing /\ proc'.call = Nothing
      /\ proc'.got = EmptyMap /\ Stage' = Stages[n] /\ DOMAIN proc' = DOMAIN Down
  BY <1>2 DEF Stage, IsEntered
<1>4. Shape'
  BY <1>3, StageNumbers DEF SInv, Shape, Keeps
<1>5. Control'
  <2>1. proc'.skip => \/ Verifying' /\ file'[Predictions(Stage')] # Absent
                      \/ Stage' = "gaps" /\ file'[Gps] # Absent
    BY <1>2, <1>3 DEF IsEntered, Verifying, Keeps
  <2>2. Passed(proc.at)'
    BY <1>3 DEF Passed, Written, Keeps
  <2> QED BY <1>3, <2>1, <2>2, Zenon DEF Control
<1>6. Ready'
  BY <1>3 DEF Ready
<1>7. FirstTime'
  <2>1. Stages[n] \in MethodSet /\ ~proc'.skip =>
            settled[Predictions(Stages[n])] = Absent /\ settled[Usage(Stages[n])] = Absent
    BY <1>2 DEF SInv, Once, Written, IsEntered
  <2>2. Stages[n] = "gaps" /\ ~proc'.skip => settled[Gps] = Absent /\ settled[OGaps] = Absent
    BY <1>2 DEF SInv, Once, Written, IsEntered
  <2> QED BY <1>3, <2>1, <2>2 DEF FirstTime, Verifying, Keeps
<1>8. Told'
  BY <1>3 DEF Told, EmptyMap, Extends, Banked
<1>9. Memory'
  <2>1. Stage' = "oracle" => proc'.memo = IF Complete(OCache) THEN Data(OCache) ELSE EmptyOracle
    BY <1>2, <1>3 DEF IsEntered
  <2>2. file'[OCache] = file[OCache]
    BY DEF Keeps
  <2> QED BY <2>1, <2>2, KeepsShape DEF SInv, Memory, Complete
<1> QED BY <1>1, <1>4, <1>5, <1>6, <1>7, <1>8, <1>9 DEF SInv

\* The process goes on in its stage, with another answer or another call.
Continues ==
    /\ DOMAIN proc' = DOMAIN proc
    /\ proc'.at = proc.at /\ proc'.skip = proc.skip /\ proc'.wrote = proc.wrote
    /\ proc'.memo = proc.memo /\ proc'.open = Nothing

\* A step that leaves files alone and goes on where it was.
LEMMA ContinuesInv ==
  ASSUME SInv, Keeps, Continues, Told'
  PROVE  SInv'
<1>1. Final' /\ StagesIdempotent' /\ Once'
  BY KeepsFinal
<1>2. /\ Stage' = Stage /\ Running' = Running /\ Verifying' = Verifying
      /\ file' = file /\ settled' = settled
  BY DEF Continues, Keeps, Stage, Running, Verifying
<1>3. Shape'
  BY <1>2 DEF SInv, Shape, Keeps, Continues
<1>4. Control'
  <2>1. Passed(proc.at)'
    BY KeepsShape DEF SInv, Control, Keeps, Passed, Written, Continues
  <2>2. \A f \in proc.wrote :
            Running /\ f \in Own(Stage) /\ f # OCache /\ (f # Pkg => Written(f))
    BY DEF SInv, Control
  <2>3. \A f : Written(f) => Written(f)'
    BY <1>2 DEF Written
  <2>4. Running /\ proc.skip => \/ Verifying /\ file[Predictions(Stage)] # Absent
                                \/ Stage = "gaps" /\ file[Gps] # Absent
    BY DEF SInv, Control
  <2>5. Running' /\ proc'.skip => \/ Verifying' /\ file'[Predictions(Stage')] # Absent
                                  \/ Stage' = "gaps" /\ file'[Gps] # Absent
    BY <1>2, <2>4 DEF Continues
  <2> QED BY <1>2, <2>1, <2>2, <2>3, <2>5 DEF Control, Continues
<1>5. Ready'
  BY DEF Ready, Continues
<1>6. FirstTime'
  BY <1>2 DEF SInv, FirstTime, Continues
<1>7. Memory'
  BY <1>2, KeepsShape DEF SInv, Memory, Continues
<1> QED BY <1>1, <1>3, <1>4, <1>5, <1>6, <1>7 DEF SInv

-----------------------------------------------------------------------------
(***************************************************************************)
(* Requests and answers.                                                   *)
(***************************************************************************)

\* The least of a set of positions is one of them.
LEMMA MinFacts ==
  ASSUME NEW I, I \subseteq Nat, I # {}
  PROVE  Min(I) \in I /\ \A m \in I : Min(I) <= m
<1>1. \E n \in I : \A m \in I : n <= m
  BY HasLeast
<1> QED BY <1>1 DEF Min

\* FirstOf is one of the requests, or there is none.
LEMMA FirstOfFacts ==
  ASSUME NEW q, Len(q) \in Nat
  PROVE  /\ FirstOf(q) = NoRequest => \A k \in 1 .. Len(q) : q[k] = NoRequest
         /\ FirstOf(q) # NoRequest => \E k \in 1 .. Len(q) : FirstOf(q) = q[k]
<1> DEFINE due == {k \in 1 .. Len(q) : q[k] # NoRequest}
<1>1. FirstOf(q) = IF due = {} THEN NoRequest ELSE q[Min(due)]
  BY DEF FirstOf
<1>2. due # {} => Min(due) \in due
  <2>1. due \subseteq Nat
    OBVIOUS
  <2> HIDE DEF due
  <2> QED BY <2>1, MinFacts
<1> QED BY <1>1, <1>2

\* The process is between two requests.
LEMMA AsksFacts ==
  ASSUME NEW r \in Asks
  PROVE  /\ Running /\ proc.open = Nothing /\ proc.call = Nothing
         /\ ~Unreadable /\ r = NextRequest
  BY DEF Asks, Idle

\* A running process is in a stage of the list.
LEMMA StageFacts ==
  ASSUME SInv, Running
  PROVE  /\ proc.at \in 1 .. Len(Stages) /\ Numbered(Stage, proc.at)
         /\ Stage \in MethodSet \cup Fixed
<1>1. proc.at \in 1 .. Len(Stages)
  BY StageNumbers DEF SInv, Shape, Running
<1> QED BY <1>1, StageNumbers DEF Stage

\* A stage name is one only.
LEMMA StageNames ==
  /\ \A s \in Fixed : s \notin MethodSet
  /\ Fixed = {"freeze", "extract", "claims", "gaps", "oracle", "packs", "score", "report"}
  BY SemifinalAssumption DEF Fixed

\* The freeze stage asks searches only.
LEMMA FreezeAsks ==
  ASSUME NEW r \in Asks, Stage = "freeze"
  PROVE  r = NoRequest \/ IsSearch(r)
<1>1. r = NextRequest /\ ~Verifying
  BY AsksFacts, StageNames DEF Verifying
<1>2. r = NoRequest \/ r = NextQuery(proc.got)
  BY <1>1 DEF NextRequest
<1> QED BY <1>2, NextQueryFacts

\* The corpus the extract stage reads.
LEMMA CorpusRead ==
  ASSUME SInv, proc.at > 1
  PROVE  /\ settled[Snap] # Absent /\ file[Snap] = settled[Snap]
         /\ Corpus = settled[Snap][2] /\ Corpus = CorpusOf(cache)
         /\ IsFiniteSet(Corpus.passages) /\ IsFiniteSet(Corpus.passages \ Skip)
<1>1. settled[Snap] # Absent /\ file[Snap] = settled[Snap]
  BY DEF SInv, Control, Passed, Written
<1>2. Corpus = settled[Snap][2] /\ Corpus = CorpusOf(cache)
  BY <1>1 DEF Corpus, Data, Snap, SInv, Final, SnapFinal
<1>3. IsFiniteSet(Corpus.passages)
  BY <1>2, CorpusFinite
<1> QED BY <1>1, <1>2, <1>3, FS_Difference

\* A batch is something to ask, and not of the index.
LEMMA BatchIsRequest ==
  ASSUME NEW b, b[1] = "extract"
  PROVE  b # NoRequest /\ ~IsSearch(b)
  BY DEF NoRequest, IsSearch

\* The extract stage asks for the batches, until it has them all.
LEMMA ExtractAsks ==
  ASSUME SInv, NEW r \in Asks, Stage = "extract"
  PROVE  /\ r # NoRequest => r[1] = "extract" /\ ~IsSearch(r)
         /\ r = NoRequest /\ ~proc.skip =>
               LET B == Batches(Corpus.passages \ Skip) IN
               \A k \in 1 .. Len(B) : B[k] \in DOMAIN proc.got
<1> DEFINE B == Batches(Corpus.passages \ Skip)
           q == [k \in 1 .. Len(B) |-> Unless(DOMAIN proc.got, B[k])]
<1>1. r = NextRequest /\ Running /\ ~Verifying
  BY AsksFacts, StageNames DEF Verifying
<1>2. r = IF proc.skip THEN NoRequest ELSE FirstOf(q)
  BY <1>1 DEF NextRequest
<1>3. proc.at > 1
  BY <1>1, StageFacts, StageNumbers DEF Numbered
<1>4. Len(B) \in Nat /\ \A k \in 1 .. Len(B) : B[k][1] = "extract"
  BY <1>3, CorpusRead, BatchesFacts
<1> HIDE DEF B
<1>5. Len(q) = Len(B) /\ \A k \in 1 .. Len(B) : q[k] = Unless(DOMAIN proc.got, B[k])
  BY <1>4
<1> HIDE DEF q
<1>6. /\ FirstOf(q) = NoRequest => \A k \in 1 .. Len(B) : q[k] = NoRequest
      /\ FirstOf(q) # NoRequest => \E k \in 1 .. Len(B) : FirstOf(q) = q[k]
  BY <1>4, <1>5, FirstOfFacts
<1>7. ASSUME FirstOf(q) = NoRequest PROVE \A k \in 1 .. Len(B) : B[k] \in DOMAIN proc.got
  <2> SUFFICES ASSUME NEW k \in 1 .. Len(B) PROVE B[k] \in DOMAIN proc.got
    OBVIOUS
  <2>1. B[k] # NoRequest
    BY <1>4, BatchIsRequest
  <2> QED BY <1>5, <1>6, <1>7, <2>1 DEF Unless
<1>8. ASSUME FirstOf(q) # NoRequest PROVE FirstOf(q)[1] = "extract" /\ ~IsSearch(FirstOf(q))
  <2>1. PICK k \in 1 .. Len(B) : FirstOf(q) = q[k]
    BY <1>6, <1>8
  <2>2. FirstOf(q) = B[k]
    BY <1>5, <1>8, <2>1 DEF Unless
  <2> QED BY <1>4, <2>2, BatchIsRequest
<1> QED BY <1>2, <1>7, <1>8 DEF B

\* A map with one entry more.
LEMMA WithFacts ==
  ASSUME NEW f, NEW x, NEW v
  PROVE  /\ DOMAIN With(f, x, v) = DOMAIN f \cup {x} /\ With(f, x, v)[x] = v
         /\ \A y \in DOMAIN f : y # x => With(f, x, v)[y] = f[y]
  BY DEF With

\* A new entry keeps the old ones.
LEMMA WithExtends ==
  ASSUME NEW f, NEW x, NEW v, x \notin DOMAIN f
  PROVE  Extends(With(f, x, v), f)
  BY DEF Extends, With

\* An entry of h may be copied to what h extends.
LEMMA WithAgrees ==
  ASSUME NEW g, NEW h, NEW x, NEW v, Extends(h, g), x \in DOMAIN h, h[x] = v
  PROVE  Extends(h, With(g, x, v))
  BY DEF Extends, With

\* Extension is transitive.
LEMMA ExtendsTwice ==
  ASSUME NEW f, NEW g, NEW h, Extends(g, f), Extends(h, g)
  PROVE  Extends(h, f)
  BY DEF Extends

\* The process takes an answer.
LEMMA GotFacts ==
  ASSUME SInv, proc.open = Nothing, NEW r, NEW a, Got(r, a)
  PROVE  Continues /\ proc'.call = Nothing /\ proc'.got = With(proc.got, r, a)
<1>1. DOMAIN proc = {"at", "skip", "got", "wrote", "open", "call", "tries", "memo"}
  BY DownFacts DEF SInv, Shape
<1> QED BY <1>1 DEF Got, Continues

\* Nothing but the process and what it has been told changes.
Frame == file' = file /\ settled' = settled /\ world' \in Worlds

\* The paid extractions stay what they are while no row changes.
LEMMA PricedKept == ASSUME SInv, ops' = ops PROVE Priced'
  BY DEF SInv, Told, Priced, Paid

\* Files, rows and answers stay when only the process moves.
LEMMA FrameKeeps ==
  ASSUME SInv, Frame, ops' = ops, Extends(cache', cache)
  PROVE  Keeps
  BY DEF Frame, Keeps, Paid

\* Everything extends itself.
LEMMA SelfExtends == Extends(cache, cache)
  BY DEF Extends

\* A process whose stage failed ends, or enters the stage again.
LEMMA RetryInv ==
  ASSUME SInv, Keeps, Priced', Running, NEW tries,
         proc' = Down \/ proc' = Entered(proc.at, tries)
  PROVE  SInv'
<1>1. proc.at \in 1 .. Len(Stages) /\ Passed(proc.at)
  BY StageFacts DEF SInv, Control
<1>2. CASE proc' = Down
  BY <1>2, Stops
<1>3. CASE proc' = Entered(proc.at, tries)
  <2>1. PICK n \in 1 .. Len(Stages) : n = proc.at
    BY <1>1
  <2> QED BY <1>1, <1>3, <2>1, Enters
<1> QED BY <1>2, <1>3

\* An error restarts the supervised run or ends the process.
LEMMA RaiseInv ==
  ASSUME SInv, Running, Frame, cache' = cache, Raise
  PROVE  SInv'
<1>1. \A op : (Paid(op)' <=> Paid(op)) /\
              (Paid(op) => ops'[<<"extract", op>>].answer = ops[<<"extract", op>>].answer)
  <2>1. CASE Supervised
    <3>1. ops' = [k \in DOMAIN ops |->
                    IF k[1] = Stage /\ ops[k].status = "PENDING"
                    THEN [ops[k] EXCEPT !.status = "RETRY"] ELSE ops[k]]
      BY <2>1 DEF Raise, reconcile
    <3>2. ASSUME NEW k \in DOMAIN ops
          PROVE  /\ ops'[k].status = "COMPLETED" <=> ops[k].status = "COMPLETED"
                 /\ ops[k].status = "COMPLETED" => ops'[k] = ops[k]
      <4>1. CASE k[1] = Stage /\ ops[k].status = "PENDING"
        <5>1. ops'[k] = [ops[k] EXCEPT !.status = "RETRY"]
          BY <3>1, <4>1
        <5>2. ops'[k].status # "COMPLETED"
          BY <4>1, <5>1
        <5> QED BY <4>1, <5>2
      <4>2. CASE ~(k[1] = Stage /\ ops[k].status = "PENDING")
        BY <3>1, <4>2
      <4> QED BY <4>1, <4>2
    <3>3. DOMAIN ops' = DOMAIN ops
      BY <3>1
    <3> SUFFICES ASSUME NEW op
                 PROVE  /\ Paid(op)' <=> Paid(op)
                        /\ Paid(op) => ops'[<<"extract", op>>].answer =
                                           ops[<<"extract", op>>].answer
      OBVIOUS
    <3>4. PICK k : k = <<"extract", op>>
      OBVIOUS
    <3> QED BY <3>2, <3>3, <3>4 DEF Paid
  <2>2. CASE ~Supervised
    BY <2>2 DEF Raise, Paid
  <2> QED BY <2>1, <2>2
<1>2. Keeps
  BY <1>1, SelfExtends DEF Frame, Keeps
<1>3. Priced'
  BY <1>1 DEF SInv, Told, Priced
<1>4. proc' = Down \/ proc' = Entered(proc.at, proc.tries + 1)
  BY DEF Raise
<1> QED BY <1>2, <1>3, <1>4, RetryInv

\* The stages that go on without an answer are not freeze or extract.
LEMMA ToldElsewhere ==
  ASSUME SInv, Continues, proc'.call = Nothing, Priced',
         Running => Stage \notin {"freeze", "extract"}
  PROVE  Told'
  BY DEF Continues, Told, Stage, Running

\* A failed request is swallowed, or raised out of the stage.
LEMMA FailsInv ==
  ASSUME SInv, Running, proc.open = Nothing, Frame, cache' = cache, NEW r, Fails(r)
  PROVE  SInv'
<1>1. CASE Swallows
  <2>1. Got(r, Refused) /\ ops' = ops
    BY <1>1 DEF Fails
  <2>2. Continues /\ proc'.call = Nothing
    BY <2>1, GotFacts
  <2>3. Keeps /\ Priced'
    BY <2>1, FrameKeeps, PricedKept, SelfExtends
  <2>4. Stage \notin {"freeze", "extract"}
    BY <1>1, StageNames DEF Swallows, Verifying
  <2>5. Told'
    BY <2>2, <2>3, <2>4, ToldElsewhere
  <2> QED BY <2>2, <2>3, <2>5, ContinuesInv
<1>2. CASE ~Swallows
  BY <1>2, RaiseInv DEF Fails
<1> QED BY <1>1, <1>2

\* A search is answered, and the cache keeps the answer.
LEMMA SearchInv ==
  ASSUME SInv, NEW q \in Asks, Search(q)
  PROVE  SInv'
<1>1. /\ Running /\ proc.open = Nothing /\ proc.call = Nothing
      /\ q # NoRequest /\ IsSearch(q) /\ LookedUp(q) /\ ops' = ops
  BY AsksFacts DEF Search
<1>2. Frame
  BY DEF Search, Frame, SInv, Shape
<1>3. PICK a : /\ Got(q, a)
               /\ \/ Cached /\ q \in DOMAIN cache /\ a = cache[q] /\ cache' = cache
                  \/ Cached /\ q \notin DOMAIN cache /\ cache' = With(cache, q, a)
                  \/ ~Cached /\ cache' = cache
  BY <1>1 DEF LookedUp
<1>4. Continues /\ proc'.call = Nothing /\ proc'.got = With(proc.got, q, a)
  BY <1>1, <1>3, GotFacts
<1>5. Extends(cache', cache)
  <2>1. cache' = cache \/ (q \notin DOMAIN cache /\ cache' = With(cache, q, a))
    BY <1>3
  <2> QED BY <2>1, SelfExtends, WithExtends
<1>6. Keeps /\ Priced'
  BY <1>1, <1>2, <1>5, FrameKeeps, PricedKept
<1>7. Stage # "extract"
  BY <1>1, ExtractAsks
<1>8. Told'
  <2>1. CASE Stage = "freeze"
    <3>1. Cached
      BY <2>1 DEF Cached
    <3>2. q \in DOMAIN cache' /\ cache'[q] = a
      <4>1. CASE q \in DOMAIN cache /\ a = cache[q] /\ cache' = cache
        BY <4>1
      <4>2. CASE cache' = With(cache, q, a)
        BY <4>2 DEF With
      <4> QED BY <1>3, <3>1, <4>1, <4>2
    <3>3. Extends(cache, proc.got)
      BY <1>1, <2>1 DEF SInv, Told
    <3>4. PICK h : h = cache'
      OBVIOUS
    <3>5. Extends(cache', proc'.got)
      <4>1. Extends(h, proc.got)
        BY <1>5, <3>3, <3>4, ExtendsTwice
      <4>2. Extends(h, With(proc.got, q, a))
        BY <3>2, <3>4, <4>1, WithAgrees
      <4> QED BY <1>4, <3>4, <4>2
    <3>6. Stage' = "freeze"
      BY <1>4, <2>1 DEF Continues, Stage
    <3> QED BY <1>4, <1>6, <3>5, <3>6 DEF Told
  <2>2. CASE Stage # "freeze"
    BY <1>4, <1>6, <1>7, <2>2, ToldElsewhere
  <2> QED BY <2>1, <2>2
<1> QED BY <1>4, <1>6, <1>8, ContinuesInv

\* A search fails after its retries.
LEMMA SearchFailsInv ==
  ASSUME SInv, NEW q \in Asks, SearchFails(q)
  PROVE  SInv'
<1>1. Running /\ proc.open = Nothing /\ Fails(q) /\ cache' = cache
  BY AsksFacts DEF SearchFails
<1>2. Frame
  BY DEF SearchFails, Frame, SInv, Shape
<1> QED BY <1>1, <1>2, FailsInv

\* A call is refused before it is reserved.
LEMMA ReserveFailsInv ==
  ASSUME SInv, NEW op \in Asks, ReserveFails(op)
  PROVE  SInv'
<1>1. Running /\ proc.open = Nothing /\ Fails(op) /\ cache' = cache
  BY AsksFacts DEF ReserveFails
<1>2. Frame
  BY DEF ReserveFails, Frame, SInv, Shape
<1> QED BY <1>1, <1>2, FailsInv

\* A call in flight excludes an open file.
LEMMA InFlight ==
  ASSUME SInv, proc.call # Nothing
  PROVE  /\ Running /\ proc.open = Nothing
         /\ Key(proc.call) \in DOMAIN ops /\ ops[Key(proc.call)].status = "PENDING"
         /\ Stage # "freeze" /\ (Stage = "extract" => proc.call[1] = "extract")
  BY DEF SInv, Ready, Told

\* A reserved call fails and leaves its row pending.
LEMMA CallFailsInv ==
  ASSUME SInv, CallFails
  PROVE  SInv'
<1>1. Running /\ proc.open = Nothing /\ Fails(proc.call) /\ cache' = cache
  BY InFlight DEF CallFails
<1>2. Frame
  BY DEF CallFails, Frame, SInv, Shape
<1>3. PICK r : r = proc.call
  OBVIOUS
<1>4. Fails(r)
  BY <1>1, <1>3
<1> QED BY <1>1, <1>2, <1>4, FailsInv

\* A stage cannot read the files it needs.
LEMMA CannotReadInv ==
  ASSUME SInv, CannotRead
  PROVE  SInv'
<1>1. Running /\ Raise /\ cache' = cache
  BY DEF CannotRead, Idle
<1>2. Frame
  BY DEF CannotRead, Frame, SInv, Shape
<1> QED BY <1>1, <1>2, RaiseInv

\* A kill loses the process and may leave its open file cut.
LEMMA KillInv ==
  ASSUME SInv, Kill
  PROVE  SInv'
<1>1. proc' = Down /\ cache' = cache /\ ops' = ops
  BY DEF Kill
<1>2. Frame
  BY DEF Kill, Frame, SInv, Shape
<1>3. Keeps /\ Priced'
  BY <1>1, <1>2, FrameKeeps, PricedKept, SelfExtends
<1> QED BY <1>1, <1>3, Stops

\* The experiment is started again from the first stage.
LEMMA StartInv ==
  ASSUME SInv, Start
  PROVE  SInv'
<1>1. proc' = Entered(1, 0) /\ cache' = cache /\ ops' = ops
  BY DEF Start
<1>2. Frame
  BY DEF Start, Frame, SInv, Shape
<1>3. Keeps /\ Priced'
  BY <1>1, <1>2, FrameKeeps, PricedKept, SelfExtends
<1>4. 1 \in 1 .. Len(Stages) /\ Passed(1)
  BY StageNumbers DEF Passed
<1> QED BY <1>1, <1>3, <1>4, Enters

\* An operation that is not completed gets another row.
LEMMA OpsKept ==
  ASSUME NEW k, NEW row, ops' = With(ops, k, row), k \in DOMAIN ops => ops[k].status # "COMPLETED"
  PROVE  /\ k \in DOMAIN ops' /\ ops'[k] = row
         /\ \A x : Paid(x) => /\ Paid(x)'
                              /\ ops'[<<"extract", x>>].answer = ops[<<"extract", x>>].answer
         /\ \A x : Paid(x)' => <<"extract", x>> = k \/
                /\ Paid(x)
                /\ ops'[<<"extract", x>>].answer = ops[<<"extract", x>>].answer
<1>1. /\ DOMAIN ops' = DOMAIN ops \cup {k} /\ ops'[k] = row
      /\ \A y \in DOMAIN ops : y # k => ops'[y] = ops[y]
  BY DEF With
<1>2. ASSUME NEW x, Paid(x)
      PROVE  Paid(x)' /\ ops'[<<"extract", x>>].answer = ops[<<"extract", x>>].answer
  BY <1>1, <1>2 DEF Paid
<1>3. ASSUME NEW x, Paid(x)', <<"extract", x>> # k
      PROVE  Paid(x) /\ ops'[<<"extract", x>>].answer = ops[<<"extract", x>>].answer
  BY <1>1, <1>3 DEF Paid
<1> QED BY <1>1, <1>2, <1>3

\* Writing a row keeps the completed rows and their answers.
LEMMA RowKeeps ==
  ASSUME SInv, Frame, cache' = cache, NEW k, NEW row, ops' = With(ops, k, row),
         k \in DOMAIN ops => ops[k].status # "COMPLETED",
         k[1] = "extract" /\ row.status = "COMPLETED" => row.answer \in Extractions
  PROVE  Keeps /\ Priced'
<1>1. Keeps
  BY OpsKept, SelfExtends DEF Keeps, Frame
<1>2. ASSUME NEW x, Paid(x)' PROVE ops'[<<"extract", x>>].answer \in Extractions
  <2>1. CASE <<"extract", x>> = k
    <3>1. ops'[k] = row /\ k[1] = "extract"
      BY <2>1, OpsKept
    <3>2. row.status = "COMPLETED"
      BY <1>2, <2>1, <3>1 DEF Paid
    <3> QED BY <2>1, <3>1, <3>2
  <2>2. CASE <<"extract", x>> # k
    BY <1>2, <2>2, OpsKept DEF SInv, Told, Priced
  <2> QED BY <2>1, <2>2
<1>3. Priced'
  BY <1>2 DEF Priced, Extractions
<1> QED BY <1>1, <1>3

\* The answers of the extract stage stay paid for.
LEMMA BankedKept ==
  ASSUME Keeps, NEW g, Banked(g)
  PROVE  Banked(g)'
<1> SUFFICES ASSUME NEW op \in DOMAIN g
             PROVE  Paid(op)' /\ ops'[<<"extract", op>>].answer = g[op] /\ g[op].parsed
  BY DEF Banked
<1>1. Paid(op) /\ ops[<<"extract", op>>].answer = g[op] /\ g[op].parsed
  BY DEF Banked
<1> QED BY <1>1 DEF Keeps

\* One more paid answer in the hands of the process.
LEMMA BankedMore ==
  ASSUME NEW g, NEW x, NEW v, Banked(g)', Paid(x)', ops'[<<"extract", x>>].answer = v, v.parsed
  PROVE  Banked(With(g, x, v))'
<1>1. DOMAIN With(g, x, v) = DOMAIN g \cup {x} /\ With(g, x, v)[x] = v
  BY DEF With
<1>2. \A y \in DOMAIN g : y # x => With(g, x, v)[y] = g[y]
  BY DEF With
<1>3. PICK h : h = With(g, x, v)
  OBVIOUS
<1>4. ASSUME NEW op \in DOMAIN h
      PROVE  Paid(op)' /\ ops'[<<"extract", op>>].answer = h[op] /\ h[op].parsed
  <2>1. CASE op = x
    BY <1>1, <1>3, <2>1
  <2>2. CASE op # x
    <3>1. op \in DOMAIN g /\ h[op] = g[op]
      BY <1>1, <1>2, <1>3, <2>2
    <3> QED BY <3>1 DEF Banked
  <2> QED BY <2>1, <2>2
<1>5. Banked(h)'
  BY <1>4 DEF Banked
<1> QED BY <1>3, <1>5 DEF Banked

\* The extract stage takes an answer that was paid for.
LEMMA TakesInv ==
  ASSUME SInv, Running, Stage # "freeze", Keeps, Priced', Continues, proc'.call = Nothing,
         NEW op, NEW v, proc'.got = With(proc.got, op, v),
         Stage = "extract" => Paid(op)' /\ ops'[<<"extract", op>>].answer = v /\ v.parsed
  PROVE  SInv'
<1>1. CASE Stage = "extract"
  <2>1. PICK g : g = proc.got
    OBVIOUS
  <2>2. Banked(g)'
    <3>1. Banked(g)
      BY <1>1, <2>1 DEF SInv, Told
    <3> QED BY <3>1, BankedKept
  <2>3. Banked(With(g, op, v))'
    BY <1>1, <2>2, BankedMore
  <2>4. Banked(proc.got)'
    BY <2>1, <2>3 DEF Banked
  <2>5. Stage' = "extract"
    BY <1>1 DEF Continues, Stage
  <2>6. Told'
    BY <2>4, <2>5 DEF Told
  <2> QED BY <2>6, ContinuesInv
<1>2. CASE Stage # "extract"
  <2>1. Told'
    BY <1>2, ToldElsewhere
  <2> QED BY <2>1, ContinuesInv
<1> QED BY <1>1, <1>2

\* A call is reserved, or replayed from its completed row.
LEMMA ReserveInv ==
  ASSUME SInv, NEW op \in Asks, Reserve(op)
  PROVE  SInv'
<1>1. /\ Running /\ proc.open = Nothing /\ proc.call = Nothing
      /\ op # NoRequest /\ ~IsSearch(op) /\ cache' = cache
  BY AsksFacts DEF Reserve
<1>2. Frame
  BY DEF Reserve, Frame, SInv, Shape
<1>3. Stage # "freeze" /\ (Stage = "extract" => op[1] = "extract")
  BY <1>1, FreezeAsks, ExtractAsks
<1>4. CASE Fails(op)
  BY <1>1, <1>2, <1>4, FailsInv
<1>5. CASE Raise
  BY <1>1, <1>2, <1>5, RaiseInv
<1>6. CASE /\ Status(op) = "COMPLETED" /\ Usable(op, ops[Key(op)].answer)
           /\ Got(op, ops[Key(op)].answer) /\ ops' = ops
  <2>1. PICK a : a = ops[Key(op)].answer
    OBVIOUS
  <2>2. Key(op) \in DOMAIN ops /\ ops[Key(op)].status = "COMPLETED"
    BY <1>6 DEF Status
  <2>3. Continues /\ proc'.call = Nothing /\ proc'.got = With(proc.got, op, a)
    <3>1. Got(op, a)
      BY <1>6, <2>1 DEF Got
    <3> QED BY <1>1, <3>1, GotFacts
  <2>4. Keeps /\ Priced'
    BY <1>1, <1>2, <1>6, FrameKeeps, PricedKept, SelfExtends
  <2>5. Stage = "extract" => Paid(op)' /\ ops'[<<"extract", op>>].answer = a /\ a.parsed
    BY <1>6, <2>1, <2>2 DEF Paid, Key, Usable
  <2> QED BY <1>1, <1>3, <2>3, <2>4, <2>5, TakesInv
<1>7. CASE /\ Status(op) \in {"NONE", "RETRY"}
           /\ ops' = With(ops, Key(op), [status |-> "PENDING", answer |-> Nothing])
           /\ proc' = [proc EXCEPT !.call = op]
  <2>1. PICK k, row : k = Key(op) /\ row = [status |-> "PENDING", answer |-> Nothing]
    OBVIOUS
  <2>2. k \in DOMAIN ops => ops[k].status # "COMPLETED"
    BY <1>7, <2>1 DEF Status
  <2>3. ops' = With(ops, k, row) /\ row.status = "PENDING"
    BY <1>7, <2>1
  <2>4. Keeps /\ Priced'
    BY <1>1, <1>2, <2>2, <2>3, RowKeeps
  <2>5. /\ DOMAIN proc' = DOMAIN proc /\ proc'.at = proc.at /\ proc'.wrote = proc.wrote
        /\ proc'.memo = proc.memo /\ proc'.open = Nothing /\ proc'.call = op
        /\ proc'.got = proc.got
    BY <1>1, <1>7, DownFacts DEF SInv, Shape
  <2>6. proc'.skip = proc.skip
    BY <1>7, DownFacts DEF SInv, Shape
  <2>7. Continues /\ Stage' = Stage /\ Running'
    BY <1>1, <2>5, <2>6 DEF Continues, Stage, Running
  <2>8. k \in DOMAIN ops' /\ ops'[k] = row
    BY <2>2, <2>3, OpsKept
  <2>9. Key(proc.call)' = k
    BY <2>1, <2>5, <2>7 DEF Key
  <2>10. Stage = "extract" => Banked(proc.got)'
    <3>1. PICK g : g = proc.got
      OBVIOUS
    <3>2. Stage = "extract" => Banked(g)
      BY <1>1, <3>1 DEF SInv, Told
    <3>3. Stage = "extract" => Banked(g)'
      BY <2>4, <3>2, BankedKept
    <3> QED BY <2>5, <3>1, <3>3 DEF Banked
  <2>11. Told'
    BY <1>3, <2>3, <2>4, <2>5, <2>7, <2>8, <2>9, <2>10 DEF Told
  <2> QED BY <2>4, <2>7, <2>11, ContinuesInv
<1> QED BY <1>4, <1>5, <1>6, <1>7 DEF Reserve

\* An answer is committed, and then used or discarded.
LEMMA AnsweredInv ==
  ASSUME SInv, proc.call # Nothing, Frame, cache' = cache, NEW a, Answered(a),
         Stage = "extract" => a \in Extractions
  PROVE  SInv'
<1> DEFINE row == [status |-> "COMPLETED", answer |-> a]
           crossed == Budgeted /\ Spent(Stage) + Cost > Budget
<1>1. /\ Running /\ proc.open = Nothing
      /\ Key(proc.call) \in DOMAIN ops /\ ops[Key(proc.call)].status = "PENDING"
      /\ Stage # "freeze" /\ (Stage = "extract" => proc.call[1] = "extract")
  BY InFlight
<1>2. ops' = With(ops, Key(proc.call), row)
  BY DEF Answered
<1>3. /\ Usable(proc.call, a)
      /\ proc' = [proc EXCEPT !.got = With(@, proc.call, IF crossed THEN Refused ELSE a),
                              !.call = Nothing]
      \/ proc' = Down
      \/ proc' = Entered(proc.at, proc.tries + 1)
  BY DEF Answered
<1>4. PICK op, k : op = proc.call /\ k = Key(proc.call)
  OBVIOUS
<1>5. row.status = "COMPLETED" /\ row.answer = a
  OBVIOUS
<1>6. k[1] = Stage /\ (Stage = "extract" => k = <<"extract", op>>)
  BY <1>4 DEF Key
<1>7. PICK v : v = IF crossed THEN Refused ELSE a
  OBVIOUS
<1>8. Stage = "extract" => v = a
  BY <1>7 DEF Budgeted
<1> HIDE DEF row, crossed
<1>9. Keeps /\ Priced' /\ k \in DOMAIN ops' /\ ops'[k] = row
  <2>1. k \in DOMAIN ops => ops[k].status # "COMPLETED"
    BY <1>1, <1>4
  <2> QED BY <1>2, <1>4, <1>5, <1>6, <2>1, RowKeeps, OpsKept
<1>10. CASE /\ Usable(proc.call, a)
            /\ proc' = [proc EXCEPT !.got = With(@, proc.call, IF crossed THEN Refused ELSE a),
                                    !.call = Nothing]
  <2>1. Got(op, v)
    BY <1>4, <1>7, <1>10 DEF Got
  <2>2. Continues /\ proc'.call = Nothing /\ proc'.got = With(proc.got, op, v)
    BY <1>1, <2>1, GotFacts
  <2>3. Stage = "extract" => Paid(op)' /\ ops'[<<"extract", op>>].answer = v /\ v.parsed
    BY <1>5, <1>6, <1>8, <1>9, <1>10 DEF Paid, Usable
  <2> QED BY <1>1, <1>9, <2>2, <2>3, TakesInv
<1>11. CASE proc' = Down
  BY <1>1, <1>9, <1>11, RetryInv
<1>12. CASE proc' = Entered(proc.at, proc.tries + 1)
  BY <1>1, <1>9, <1>12, RetryInv
<1> QED BY <1>3, <1>10, <1>11, <1>12

\* The model answers a reserved call.
LEMMA AnswerInv ==
  ASSUME SInv, Answer
  PROVE  SInv'
<1>1. PICK a : a = ModelAnswer(proc.call, world)
  OBVIOUS
<1>2. proc.call # Nothing /\ Answered(a) /\ cache' = cache
  BY <1>1 DEF Answer
<1>3. Frame
  BY DEF Answer, Frame, SInv, Shape
<1>4. Stage = "extract" => a \in Extractions
  <2>1. Stage = "extract" => a = [parsed |-> TRUE, relations |-> Proposals[world]]
    BY <1>1, <1>2, InFlight DEF ModelAnswer
  <2>2. world \in Worlds
    BY DEF SInv, Shape
  <2> QED BY <2>1, <2>2 DEF Extractions
<1> QED BY <1>2, <1>3, <1>4, AnsweredInv

\* The model answers with something that does not parse.
LEMMA GarbledInv ==
  ASSUME SInv, Garbled
  PROVE  SInv'
<1>1. PICK a : a = [parsed |-> FALSE]
  OBVIOUS
<1>2. proc.call # Nothing /\ Answered(a) /\ cache' = cache
  BY <1>1 DEF Garbled
<1>3. Frame
  BY DEF Garbled, Frame, SInv, Shape
<1>4. a \in Extractions
  BY <1>1 DEF Extractions
<1> QED BY <1>2, <1>3, <1>4, AnsweredInv

\* The world changes, or nothing does.
LEMMA SameInv ==
  ASSUME SInv, UNCHANGED <<file, cache, ops, proc, settled>>, world' \in Worlds
  PROVE  SInv'
<1>1. Keeps
  BY SelfExtends DEF Keeps, Paid
<1>2. Final' /\ StagesIdempotent' /\ Once'
  BY <1>1, KeepsFinal
<1>3. /\ Stage' = Stage /\ Running' = Running /\ Verifying' = Verifying /\ Corpus' = Corpus
      /\ Unjudged' = Unjudged /\ UnjudgedGaps' = UnjudgedGaps
  BY DEF Stage, Running, Verifying, Corpus, Data, Unjudged, ClaimList, Lines, UnjudgedGaps, NewGaps
<1>4. Shape' /\ FirstTime'
  BY <1>3 DEF SInv, Shape, FirstTime
<1>5. Control'
  <2>1. Passed(proc.at)'
    BY DEF SInv, Control, Passed, Written
  <2>2. \A f : Written(f)' = Written(f)
    BY DEF Written
  <2> QED BY <1>3, <2>1, <2>2 DEF SInv, Control
<1>6. Ready'
  <2>1. \A f : Complete(f)' = Complete(f)
    BY DEF Complete
  <2>2. Recorded(proc.memo)' = Recorded(proc.memo)
    BY DEF Recorded
  <2> QED BY <1>3, <2>1, <2>2 DEF SInv, Ready
<1>7. Told'
  BY <1>3 DEF SInv, Told, Priced, Paid, Banked, Key
<1>8. Memory'
  BY <1>1, <1>3, KeepsShape DEF SInv, Memory
<1> QED BY <1>2, <1>4, <1>5, <1>6, <1>7, <1>8 DEF SInv

-----------------------------------------------------------------------------
(***************************************************************************)
(* The files of a stage, one after the other.                              *)
(***************************************************************************)

\* What is due in a stage with one file.
LEMMA DueOfOne ==
  ASSUME NEW x, Writes = <<x>>
  PROVE  DueFile = IF proc.skip \/ x \in proc.wrote THEN Nothing ELSE x
<1> DEFINE left == {k \in 1 .. Len(Writes) : Writes[k] \notin proc.wrote}
<1>1. DueFile = IF proc.skip \/ left = {} THEN Nothing ELSE Writes[Min(left)]
  BY DEF DueFile
<1>2. left = IF x \in proc.wrote THEN {} ELSE {1}
  OBVIOUS
<1> HIDE DEF left
<1>3. left = {1} => Min(left) = 1
  BY MinFacts
<1> QED BY <1>1, <1>2, <1>3

\* What is due in a stage with two files, in their order.
LEMMA DueOfTwo ==
  ASSUME NEW x, NEW y, Writes = <<x, y>>
  PROVE  DueFile = IF proc.skip THEN Nothing
                   ELSE IF x \notin proc.wrote THEN x
                   ELSE IF y \notin proc.wrote THEN y ELSE Nothing
<1> DEFINE left == {k \in 1 .. Len(Writes) : Writes[k] \notin proc.wrote}
<1>1. DueFile = IF proc.skip \/ left = {} THEN Nothing ELSE Writes[Min(left)]
  BY DEF DueFile
<1>2. \A k : k \in left <=> \/ k = 1 /\ x \notin proc.wrote
                            \/ k = 2 /\ y \notin proc.wrote
  OBVIOUS
<1> HIDE DEF left
<1>3. left # {} => Min(left) \in left /\ \A m \in left : Min(left) <= m
  BY <1>2, MinFacts
<1>4. CASE x \notin proc.wrote
  <2>1. 1 \in left
    BY <1>2, <1>4
  <2>2. Min(left) = 1
    BY <1>2, <1>3, <2>1
  <2> QED BY <1>1, <1>4, <2>1, <2>2
<1>5. CASE x \in proc.wrote /\ y \notin proc.wrote
  <2>1. 2 \in left
    BY <1>2, <1>5
  <2>2. Min(left) = 2
    BY <1>2, <1>3, <1>5, <2>1
  <2> QED BY <1>1, <1>5, <2>1, <2>2
<1>6. CASE x \in proc.wrote /\ y \in proc.wrote
  <2>1. left = {}
    BY <1>2, <1>6
  <2> QED BY <1>1, <1>6, <2>1
<1> QED BY <1>4, <1>5, <1>6

\* A stage with one file.
OneFile(s, f) ==
    \/ s = "freeze" /\ f = Snap
    \/ s = "extract" /\ f = Rel
    \/ s = "claims" /\ f = Clm
    \/ s = "gaps" /\ f = Gps
    \/ s = "packs" /\ f = Pkg
    \/ s = "score" /\ f = Smy
    \/ s = "report" /\ f = Rpt

\* What is due in the stages that write one file.
LEMMA OneDue ==
  ASSUME NEW f, OneFile(Stage, f)
  PROVE  /\ DueFile = IF proc.skip \/ f \in proc.wrote THEN Nothing ELSE f
         /\ f # Nothing
<1>1. ~Verifying
  BY StageNames DEF OneFile, Verifying
<1>2. Writes = <<f>>
  BY <1>1 DEF OneFile, Writes, Snap, Rel, Clm, Gps, Pkg, Smy, Rpt
<1>3. f \in Files /\ Nothing \notin Files
  BY FileNames, SemifinalAssumption DEF OneFile
<1> QED BY <1>2, <1>3, DueOfOne

\* Predictions are written before their usage.
LEMMA VerifyDue ==
  ASSUME Verifying
  PROVE  /\ DueFile = IF proc.skip THEN Nothing
                      ELSE IF Predictions(Stage) \notin proc.wrote THEN Predictions(Stage)
                      ELSE IF Usage(Stage) \notin proc.wrote THEN Usage(Stage) ELSE Nothing
         /\ Predictions(Stage) # Nothing /\ Usage(Stage) # Nothing
<1>1. Writes = <<Predictions(Stage), Usage(Stage)>>
  <2>1. Stage \notin Fixed
    BY StageNames DEF Verifying
  <2> QED BY <2>1 DEF Writes, Fixed
<1>2. /\ Predictions(Stage) \in Files /\ Usage(Stage) \in Files /\ Nothing \notin Files
  BY FileNames, SemifinalAssumption DEF Verifying
<1> QED BY <1>1, <1>2, DueOfTwo

\* The oracle flushes its cache until everything is judged.
LEMMA OracleDue ==
  ASSUME SInv, Stage = "oracle"
  PROVE  /\ DueFile = Nothing /\ ~proc.skip => OClaims \in proc.wrote /\ OGaps \in proc.wrote
         /\ DueFile # Nothing =>
               \/ DueFile = OCache /\ (Unjudged # {} \/ UnjudgedGaps # {})
               \/ DueFile = OClaims /\ Unjudged = {} /\ OClaims \notin proc.wrote
               \/ DueFile = OGaps /\ UnjudgedGaps = {} /\ OGaps \notin proc.wrote
<1>1. ~Verifying
  BY StageNames DEF Verifying
<1>2. PICK x : x = IF Unjudged # {} THEN OCache ELSE OClaims
  OBVIOUS
<1>3. PICK y : y = IF UnjudgedGaps # {} THEN OCache ELSE OGaps
  OBVIOUS
<1>4. Writes = <<x, y>>
  BY <1>1, <1>2, <1>3 DEF Writes, OCache, OClaims, OGaps
<1>5. OCache \notin proc.wrote
  BY DEF SInv, Control
<1>6. Nothing \notin {OCache, OClaims, OGaps}
  BY FileNames, SemifinalAssumption
<1>7. DueFile = IF proc.skip THEN Nothing
                ELSE IF x \notin proc.wrote THEN x
                ELSE IF y \notin proc.wrote THEN y ELSE Nothing
  BY <1>4, DueOfTwo
<1> QED BY <1>2, <1>3, <1>5, <1>6, <1>7

\* A stage that is done leaves what the next ones need.
LEMMA StageDone ==
  ASSUME SInv, Running, DueFile = Nothing, NEW n, n = proc.at + 1
  PROVE  Passed(n)
<1>1. /\ proc.at \in 1 .. Len(Stages) /\ Numbered(Stage, proc.at)
      /\ Stage \in MethodSet \cup Fixed
  BY StageFacts
<1>2. Passed(proc.at) /\ \A f \in proc.wrote : f # Pkg => Written(f)
  BY DEF SInv, Control
<1>3. \A f : Written(f) => file[f] # Absent
  BY DEF Written
<1>4. proc.skip => \/ Verifying /\ file[Predictions(Stage)] # Absent
                   \/ Stage = "gaps" /\ file[Gps] # Absent
  BY DEF SInv, Control
<1>5. PICK M \in Nat : M = Len(Methods) /\ Len(Stages) = M + 8
  BY StageNumbers
<1>6. \A f : OneFile(Stage, f) => proc.skip \/ f \in proc.wrote
  BY OneDue
<1>7. n > 1 => Written(Snap)
  <2>1. CASE proc.at = 1
    <3>1. Stage = "freeze"
      BY <1>1, <2>1 DEF Numbered
    <3>2. OneFile(Stage, Snap) /\ ~proc.skip /\ Snap # Pkg
      BY <1>4, <3>1, StageNames, FixedNames DEF OneFile, Verifying
    <3> QED BY <1>2, <1>6, <3>2
  <2>2. CASE proc.at # 1
    BY <1>1, <1>2, <1>5, <2>2 DEF Passed
  <2> QED BY <2>1, <2>2
<1>8. n > 2 => Written(Rel)
  <2>1. CASE proc.at = 2
    <3>1. Stage = "extract"
      BY <1>1, <2>1 DEF Numbered
    <3>2. OneFile(Stage, Rel) /\ ~proc.skip /\ Rel # Pkg
      BY <1>4, <3>1, StageNames, FixedNames DEF OneFile, Verifying
    <3> QED BY <1>2, <1>6, <3>2
  <2>2. CASE proc.at # 2
    BY <1>1, <1>2, <1>5, <2>2 DEF Passed
  <2> QED BY <2>1, <2>2
<1>9. n > 3 => Written(Clm)
  <2>1. CASE proc.at = 3
    <3>1. Stage = "claims"
      BY <1>1, <2>1 DEF Numbered
    <3>2. OneFile(Stage, Clm) /\ ~proc.skip /\ Clm # Pkg
      BY <1>4, <3>1, StageNames, FixedNames DEF OneFile, Verifying
    <3> QED BY <1>2, <1>6, <3>2
  <2>2. CASE proc.at # 3
    BY <1>1, <1>2, <1>5, <2>2 DEF Passed
  <2> QED BY <2>1, <2>2
<1>10. ASSUME NEW k \in 1 .. Len(Methods), n > k + 3
       PROVE  file[Predictions(Methods[k])] # Absent
  <2>1. CASE proc.at = k + 3
    <3>1. proc.at \in 4 .. M + 3 /\ proc.at - 3 = k
      BY <1>5, <2>1
    <3>2. Stage = Methods[k] /\ Verifying /\ Stage # "gaps"
      <4>1. Stage = Methods[k]
        BY <1>5, <3>1, StageNumbers DEF Stage
      <4>2. Verifying /\ Stage # "gaps"
        BY <1>1, <1>5, <3>1 DEF Numbered, Verifying
      <4> QED BY <4>1, <4>2
    <3>3. proc.skip \/ Predictions(Stage) \in proc.wrote
      BY <3>2, VerifyDue
    <3>4. Predictions(Stage) # Pkg
      BY FileNames
    <3> QED BY <1>2, <1>3, <1>4, <3>2, <3>3, <3>4
  <2>2. CASE proc.at # k + 3
    <3>1. proc.at > k + 3
      BY <1>1, <1>5, <1>10, <2>2
    <3> QED BY <1>2, <3>1 DEF Passed
  <2> QED BY <2>1, <2>2
<1>11. n > Len(Methods) + 4 => file[Gps] # Absent
  <2>1. CASE proc.at = M + 4
    <3>1. Stage = "gaps" /\ ~Verifying
      BY <1>1, <1>5, <2>1, StageNames DEF Numbered, Verifying
    <3>2. OneFile(Stage, Gps) /\ Gps # Pkg
      BY <3>1, FixedNames DEF OneFile
    <3> QED BY <1>2, <1>3, <1>4, <1>6, <3>1, <3>2
  <2>2. CASE proc.at # M + 4
    BY <1>1, <1>2, <1>5, <2>2 DEF Passed
  <2> QED BY <2>1, <2>2
<1>12. n > Len(Methods) + 5 => Written(OClaims) /\ Written(OGaps)
  <2>1. CASE proc.at = M + 5
    <3>1. Stage = "oracle" /\ ~proc.skip
      BY <1>1, <1>4, <1>5, <2>1, StageNames DEF Numbered, Verifying
    <3>2. OClaims # Pkg /\ OGaps # Pkg
      BY FixedNames
    <3> QED BY <1>2, <3>1, <3>2, OracleDue
  <2>2. CASE proc.at # M + 5
    BY <1>1, <1>2, <1>5, <2>2 DEF Passed
  <2> QED BY <2>1, <2>2
<1>13. n > Len(Methods) + 7 => Written(Smy)
  <2>1. CASE proc.at = M + 7
    <3>1. Stage = "score"
      BY <1>1, <1>5, <2>1 DEF Numbered
    <3>2. OneFile(Stage, Smy) /\ ~proc.skip /\ Smy # Pkg
      BY <1>4, <3>1, StageNames, FixedNames DEF OneFile, Verifying
    <3> QED BY <1>2, <1>6, <3>2
  <2>2. CASE proc.at # M + 7
    BY <1>1, <1>2, <1>5, <2>2 DEF Passed
  <2> QED BY <2>1, <2>2
<1> QED BY <1>7, <1>8, <1>9, <1>10, <1>11, <1>12, <1>13 DEF Passed

\* The process goes on to the next stage.
LEMMA AdvanceInv ==
  ASSUME SInv, NEW r \in Asks, Advance(r)
  PROVE  SInv'
<1>1. Running /\ DueFile = Nothing /\ cache' = cache /\ ops' = ops
  BY AsksFacts DEF Advance
<1>2. Frame
  BY DEF Advance, Frame, SInv, Shape
<1>3. Keeps /\ Priced'
  BY <1>1, <1>2, FrameKeeps, PricedKept, SelfExtends
<1>4. CASE proc' = Down
  BY <1>3, <1>4, Stops
<1>5. CASE proc.at # Len(Stages) /\ proc' = Entered(proc.at + 1, 0)
  <2>1. PICK n : n = proc.at + 1
    OBVIOUS
  <2>2. n \in 1 .. Len(Stages)
    BY <1>1, <1>5, <2>1, StageFacts, StageNumbers
  <2>3. Passed(n)
    BY <1>1, <2>1, StageDone
  <2> QED BY <1>3, <1>5, <2>1, <2>2, <2>3, Enters
<1> QED BY <1>4, <1>5 DEF Advance

\* The file that is due.
IsDue(d) ==
    /\ ~proc.skip /\ d \in Files /\ d \in Own(Stage) /\ d \notin proc.wrote /\ d # Nothing
    /\ d = Usage(Stage) => Predictions(Stage) \in proc.wrote
    /\ d = OClaims => Unjudged = {}
    /\ d = OGaps => UnjudgedGaps = {}
    /\ d = OCache => Unjudged # {} \/ UnjudgedGaps # {}

\* A due file belongs to the stage, and everything before it is there.
LEMMA DueFacts ==
  ASSUME SInv, Running, NEW d, d = DueFile, d # Nothing
  PROVE  IsDue(d)
<1>1. Stage \in MethodSet \cup Fixed /\ \A s \in Fixed : s \notin MethodSet
  BY StageFacts, StageNames
<1>2. ~proc.skip
  BY DEF DueFile
<1>3. CASE Verifying
  <2>1. \/ d = Predictions(Stage) /\ d \notin proc.wrote
        \/ d = Usage(Stage) /\ d \notin proc.wrote /\ Predictions(Stage) \in proc.wrote
    BY <1>3, VerifyDue
  <2>2. Own(Stage) = {Predictions(Stage), Usage(Stage)}
    <3>1. Stage \notin Fixed
      BY <1>1, <1>3 DEF Verifying
    <3> QED BY <1>3, <3>1 DEF Own, Verifying, Fixed
  <2>3. d \in Files /\ d \notin {OCache, OClaims, OGaps} /\ Predictions(Stage) # Usage(Stage)
    BY <1>3, <2>1, FileNames DEF Verifying
  <2> QED BY <1>2, <2>1, <2>2, <2>3 DEF IsDue
<1>4. CASE Stage = "oracle"
  <2>1. \/ d = OCache /\ (Unjudged # {} \/ UnjudgedGaps # {})
        \/ d = OClaims /\ Unjudged = {} /\ OClaims \notin proc.wrote
        \/ d = OGaps /\ UnjudgedGaps = {} /\ OGaps \notin proc.wrote
    BY <1>4, OracleDue
  <2>2. Own(Stage) = {OCache, OClaims, OGaps} /\ OCache \notin proc.wrote
    BY <1>1, <1>4 DEF Own, SInv, Control, Fixed
  <2>3. d \in Files /\ d # Usage(Stage) /\ OClaims # OGaps /\ OCache \notin {OClaims, OGaps}
    BY <2>1, FileNames, FixedNames
  <2> QED BY <1>2, <2>1, <2>2, <2>3 DEF IsDue
<1>5. CASE Stage \in Fixed \ {"oracle"}
  <2>1. PICK f : OneFile(Stage, f)
    BY <1>5, StageNames DEF OneFile
  <2>2. d = f /\ f \notin proc.wrote
    BY <2>1, OneDue
  <2>3. f \in Files /\ f # Usage(Stage) /\ f \notin {OCache, OClaims, OGaps}
    BY <2>1, FileNames, FixedNames DEF OneFile
  <2>4. f \in Own(Stage)
    BY <1>1, <1>5, <2>1 DEF OneFile, Own, Fixed
  <2> QED BY <1>2, <2>2, <2>3, <2>4 DEF IsDue
<1> QED BY <1>1, <1>3, <1>4, <1>5 DEF Verifying

\* Whose a file is.
LEMMA OwnStage ==
  ASSUME SInv, Running, NEW f \in Own(Stage)
  PROVE  /\ f \in Files /\ f # Nothing
         /\ proc.at > 1 => f # Snap
         /\ proc.at > 2 => f # Rel
         /\ proc.at > 3 => f # Clm
         /\ proc.at > Len(Methods) + 5 => f # OClaims /\ f # OGaps
         /\ proc.at > Len(Methods) + 7 => f # Smy
         /\ f = Snap => Stage = "freeze"
         /\ f = Rel => Stage = "extract"
         /\ f = Clm => Stage = "claims"
         /\ f = Gps => Stage = "gaps"
         /\ f \in {OCache, OClaims, OGaps} => Stage = "oracle"
         /\ f = Pkg => Stage = "packs"
         /\ f = Smy => Stage = "score"
         /\ f = Rpt => Stage = "report"
         /\ \A m : f = Predictions(m) \/ f = Usage(m) => Stage = m /\ Verifying
<1>1. proc.at \in 1 .. Len(Stages) /\ Stage = Stages[proc.at] /\ Numbered(Stage, proc.at)
  BY StageFacts DEF Stage
<1>2. PICK M \in Nat : M = Len(Methods) /\ Len(Stages) = M + 8
  BY StageNumbers
<1>3. \/ proc.at = 1 /\ f = Snap
      \/ proc.at = 2 /\ f = Rel
      \/ proc.at = 3 /\ f = Clm
      \/ proc.at \in 4 .. M + 3 /\ Verifying /\ (f = Predictions(Stage) \/ f = Usage(Stage))
      \/ proc.at = M + 4 /\ f = Gps
      \/ proc.at = M + 5 /\ (f = OCache \/ f = OClaims \/ f = OGaps)
      \/ proc.at = M + 6 /\ f = Pkg
      \/ proc.at = M + 7 /\ f = Smy
      \/ proc.at = M + 8 /\ f = Rpt
  <2>1. PICK n \in 1 .. Len(Stages) : n = proc.at
    BY <1>1
  <2>2. f \in Own(Stages[n])
    BY <1>1, <2>1
  <2> QED BY <1>1, <1>2, <2>1, <2>2, OwnFacts DEF Verifying
<1>4. \/ Stage = "freeze" /\ f = Snap
      \/ Stage = "extract" /\ f = Rel
      \/ Stage = "claims" /\ f = Clm
      \/ Verifying /\ (f = Predictions(Stage) \/ f = Usage(Stage))
      \/ Stage = "gaps" /\ f = Gps
      \/ Stage = "oracle" /\ (f = OCache \/ f = OClaims \/ f = OGaps)
      \/ Stage = "packs" /\ f = Pkg
      \/ Stage = "score" /\ f = Smy
      \/ Stage = "report" /\ f = Rpt
  BY <1>1, <1>2, <1>3 DEF Numbered
<1>5. f \in Files /\ f # Nothing
  BY <1>4, FileNames, SemifinalAssumption DEF Verifying
<1>6. /\ proc.at > 1 => f # Snap
      /\ proc.at > 2 => f # Rel
      /\ proc.at > 3 => f # Clm
  BY <1>2, <1>3, FileNames, FixedNames
<1>7. /\ proc.at > M + 5 => f # OClaims /\ f # OGaps
      /\ proc.at > M + 7 => f # Smy
  BY <1>2, <1>3, FileNames, FixedNames
<1>8. /\ f = Snap => Stage = "freeze"
      /\ f = Rel => Stage = "extract"
      /\ f = Clm => Stage = "claims"
      /\ f = Gps => Stage = "gaps"
      /\ f \in {OCache, OClaims, OGaps} => Stage = "oracle"
      /\ f = Pkg => Stage = "packs"
      /\ f = Smy => Stage = "score"
      /\ f = Rpt => Stage = "report"
  BY <1>4, FileNames, FixedNames
<1>9. ASSUME NEW m, f = Predictions(m) \/ f = Usage(m) PROVE Stage = m /\ Verifying
  BY <1>4, <1>9, FileNames
<1> QED BY <1>2, <1>5, <1>6, <1>7, <1>8, <1>9

\* Nobody writes a settled prediction, usage or gap again.
LEMMA NotAgain ==
  ASSUME SInv, Running, ~proc.skip, NEW f \in Own(Stage), f \notin proc.wrote
  PROVE  /\ \A m : f = Predictions(m) \/ f = Usage(m) => settled[f] = Absent
         /\ f = Gps => settled[Gps] = Absent /\ settled[OGaps] = Absent /\ settled[Smy] = Absent
<1>1. ASSUME NEW m, f = Predictions(m) \/ f = Usage(m) PROVE settled[f] = Absent
  <2>1. Stage = m /\ Verifying
    BY <1>1, OwnStage
  <2> QED BY <1>1, <2>1 DEF SInv, FirstTime
<1>2. ASSUME f = Gps PROVE settled[Gps] = Absent /\ settled[OGaps] = Absent
  <2>1. Stage = "gaps"
    BY <1>2, OwnStage
  <2> QED BY <1>2, <2>1 DEF SInv, FirstTime
<1>3. settled[OGaps] = Absent => settled[Smy] = Absent
  BY DEF SInv, Final, SmyFinal
<1> QED BY <1>1, <1>2, <1>3

\* Opening a file cuts it, and nothing else.
Opens(d) ==
    /\ DOMAIN file' = Files /\ file'[d] = Cut
    /\ \A f \in Files : f # d => file'[f] = file[f]
    /\ DOMAIN proc' = DOMAIN proc
    /\ proc'.at = proc.at /\ proc'.got = proc.got /\ proc'.wrote = proc.wrote
    /\ proc'.open = d /\ proc'.call = proc.call /\ proc'.memo = proc.memo
    /\ cache' = cache /\ ops' = ops /\ settled' = settled /\ world' \in Worlds

\* What opening a file changes, and when it happens.
LEMMA OpensFacts ==
  ASSUME SInv, NEW r \in Asks, Open(r), NEW d, d = DueFile
  PROVE  /\ Running /\ proc.call = Nothing /\ d # Nothing /\ NextRequest = NoRequest /\ ~Unreadable
         /\ Opens(d) /\ proc'.skip = proc.skip /\ IsDue(d)
<1>1. /\ Running /\ proc.call = Nothing /\ NextRequest = NoRequest /\ d # Nothing /\ ~Unreadable
      /\ file' = [file EXCEPT ![d] = Cut] /\ proc' = [proc EXCEPT !.open = d]
      /\ cache' = cache /\ ops' = ops /\ settled' = settled /\ world' = world
  BY AsksFacts DEF Open
<1>2. IsDue(d)
  BY <1>1, DueFacts
<1>3. DOMAIN file = Files /\ world \in Worlds /\ d \in Files
  BY <1>2 DEF SInv, Shape, IsDue
<1>4. DOMAIN proc = {"at", "skip", "got", "wrote", "open", "call", "tries", "memo"}
  BY DownFacts DEF SInv, Shape
<1>5. Opens(d)
  BY <1>1, <1>3, <1>4 DEF Opens
<1>6. proc'.skip = proc.skip
  BY <1>1, <1>4
<1> QED BY <1>1, <1>2, <1>5, <1>6

\* What the next stages need survives a file being opened.
LEMMA PassedOpen ==
  ASSUME SInv, Running, NEW d, Opens(d), IsDue(d)
  PROVE  Passed(proc.at)' /\ \A f \in proc.wrote : f # Pkg => Written(f)'
<1>1. /\ d \in Own(Stage) /\ d \in Files /\ d \notin proc.wrote /\ Passed(proc.at)
      /\ \A f \in proc.wrote : f \in Own(Stage) /\ (f # Pkg => Written(f))
  BY DEF IsDue, SInv, Control
<1>2. \A f \in Files : file[f] # Absent => file'[f] # Absent
  BY Contents DEF Opens
<1>3. \A f \in Files : f # d /\ Written(f) => Written(f)'
  BY DEF Opens, Written
<1>4. /\ proc.at > 1 => d # Snap
      /\ proc.at > 2 => d # Rel
      /\ proc.at > 3 => d # Clm
      /\ proc.at > Len(Methods) + 5 => d # OClaims /\ d # OGaps
      /\ proc.at > Len(Methods) + 7 => d # Smy
  BY <1>1, OwnStage
<1>5. /\ proc.at > 1 => Written(Snap)'
      /\ proc.at > 2 => Written(Rel)'
      /\ proc.at > 3 => Written(Clm)'
      /\ proc.at > Len(Methods) + 4 => file'[Gps] # Absent
      /\ proc.at > Len(Methods) + 5 => Written(OClaims)' /\ Written(OGaps)'
      /\ proc.at > Len(Methods) + 7 => Written(Smy)'
  BY <1>1, <1>2, <1>3, <1>4, FileNames DEF Passed
<1>6. ASSUME NEW k \in 1 .. Len(Methods), proc.at > k + 3
      PROVE  file'[Predictions(Methods[k])] # Absent
  <2>1. Methods[k] \in MethodSet
    BY SemifinalAssumption
  <2>2. Predictions(Methods[k]) \in Files
    BY <2>1, FileNames
  <2> QED BY <1>1, <1>2, <1>6, <2>2 DEF Passed
<1>7. proc'.at = proc.at
  BY DEF Opens
<1>8. Passed(proc.at)'
  BY <1>5, <1>6, <1>7 DEF Passed
<1>9. ASSUME NEW f \in proc.wrote, f # Pkg PROVE Written(f)'
  <2>1. f \in Files /\ f # d /\ Written(f)
    BY <1>1, <1>9, OwnStage
  <2> QED BY <1>3, <2>1
<1> QED BY <1>8, <1>9

\* Nobody opens a file without the answers it is made from.
LEMMA OpenReady ==
  ASSUME SInv, NEW r \in Asks, Open(r), NEW d, d = DueFile
  PROVE  Ready'
<1>1. /\ Running /\ proc.call = Nothing /\ d # Nothing /\ NextRequest = NoRequest /\ ~Unreadable
      /\ Opens(d) /\ proc'.skip = proc.skip /\ IsDue(d)
  BY OpensFacts
<1>2. /\ d \in Own(Stage) /\ d \notin proc.wrote /\ ~proc.skip /\ d \in Files
      /\ r = NextRequest /\ r = NoRequest
  BY <1>1, AsksFacts DEF IsDue
<1>3. /\ Stage' = Stage /\ Running' /\ proc'.call = Nothing /\ ~proc'.skip /\ proc'.open = d
      /\ proc'.got = proc.got /\ proc'.wrote = proc.wrote
  BY <1>1, <1>2 DEF Stage, Running, Opens
<1>4. d = Snap => NextQuery(proc'.got) = NoRequest
  <2>1. d = Snap => Stage = "freeze" /\ ~Verifying
    BY <1>1, <1>2, OwnStage, StageNames DEF Verifying
  <2> QED BY <1>1, <1>2, <1>3, <2>1 DEF NextRequest
<1>6. d = Rel => LET B == Batches(Corpus.passages \ Skip) IN
                 \A k \in 1 .. Len(B) : B[k] \in DOMAIN proc.got
  <2>1. d = Rel => Stage = "extract"
    BY <1>1, <1>2, OwnStage
  <2> QED BY <1>2, <2>1, ExtractAsks
<1>7. /\ d # Snap => Corpus' = Corpus
      /\ d # Clm => Unjudged' = Unjudged
      /\ d # Gps => UnjudgedGaps' = UnjudgedGaps
  <2>1. /\ d # Snap => file'[Snap] = file[Snap]
        /\ d # Clm => file'[Clm] = file[Clm]
        /\ d # Gps => file'[Gps] = file[Gps]
        /\ proc'.memo = proc.memo
    BY <1>1, FileNames DEF Opens
  <2>2. d # Snap => Corpus' = Corpus
    BY <2>1 DEF Corpus, Data, Snap
  <2>3. d # Clm => Unjudged' = Unjudged
    BY <2>1 DEF Unjudged, ClaimList, Lines, Data, Clm
  <2>4. d # Gps => UnjudgedGaps' = UnjudgedGaps
    BY <2>1 DEF UnjudgedGaps, NewGaps, Data, Gps
  <2> QED BY <2>2, <2>3, <2>4
<1>8. d = Usage(Stage') => Predictions(Stage') \in proc'.wrote
  BY <1>1, <1>3 DEF IsDue
<1>9. d \in {OCache, OClaims, OGaps} => /\ Stage = "oracle" /\ file[OCache] # Cut
                                        /\ Unjudged' = Unjudged /\ UnjudgedGaps' = UnjudgedGaps
  <2>1. d \in {OCache, OClaims, OGaps} => Stage = "oracle" /\ d # Clm /\ d # Gps
    BY <1>1, <1>2, OwnStage, FixedNames
  <2> QED BY <1>1, <1>7, <2>1 DEF Unreadable, OCache
<1>10. d = OClaims \/ d = OGaps => file'[OCache] # Cut
  BY <1>1, <1>9, FileNames, FixedNames DEF Opens
<1>11. d = OCache => Recorded(proc.memo)'
  <2>1. d = OCache => Recorded(proc.memo)
    BY <1>1, <1>9 DEF SInv, Memory, Complete
  <2> QED BY <1>1, <2>1 DEF Recorded, Opens
<1>12. ASSUME d = Smy, NEW m \in MethodSet PROVE Complete(Predictions(m))'
  <2>1. Stage = "score"
    BY <1>1, <1>2, <1>12, OwnStage
  <2>2. PICK k \in 1 .. Len(Methods) : Methods[k] = m
    BY SemifinalAssumption DEF MethodSet, Range
  <2>3. proc.at > k + 3
    <3>1. Numbered(Stage, proc.at) /\ proc.at \in 1 .. Len(Stages)
      BY <1>1, StageFacts
    <3> QED BY <2>1, <3>1, StageNumbers DEF Numbered
  <2>4. file[Predictions(m)] # Absent
    BY <2>2, <2>3 DEF SInv, Control, Passed
  <2>5. file[Predictions(m)] # Cut
    BY <1>1, <2>1 DEF Unreadable, Lines
  <2>6. file'[Predictions(m)] = file[Predictions(m)]
    BY <1>1, <1>12, FileNames DEF Opens
  <2> QED BY <2>4, <2>5, <2>6 DEF Complete
<1>13. d = OClaims => Unjudged = {}
  BY <1>1 DEF IsDue
<1>14. d = OGaps => UnjudgedGaps = {}
  BY <1>1 DEF IsDue
<1>15. d = OCache => Unjudged # {} \/ UnjudgedGaps # {}
  BY <1>1 DEF IsDue
<1>16. d = Rel => Corpus' = Corpus
  BY <1>7, FixedNames
<1> QED BY <1>1, <1>2, <1>3, <1>4, <1>6, <1>8, <1>9, <1>10, <1>11, <1>12, <1>13, <1>14, <1>15, <1>16
        DEF Ready

\* A cut file settles nothing.
LEMMA OpenFinal ==
  ASSUME SInv, Running, NEW d, Opens(d), IsDue(d)
  PROVE  Final' /\ Once' /\ StagesIdempotent'
<1>1. settled' = settled /\ cache' = cache /\ ops' = ops
  BY DEF Opens
<1>2. /\ d \in Files /\ d \in Own(Stage) /\ d \notin proc.wrote /\ ~proc.skip
      /\ file'[d] = Cut /\ \A f \in Files : f # d => file'[f] = file[f]
  BY DEF Opens, IsDue
<1>3. /\ \A m : d = Predictions(m) \/ d = Usage(m) => settled[d] = Absent
      /\ d = Gps => settled[Gps] = Absent /\ settled[OGaps] = Absent /\ settled[Smy] = Absent
  <2>1. d \in Own(Stage) /\ d \notin proc.wrote /\ ~proc.skip
    BY <1>2, Zenon
  <2> QED BY <2>1, NotAgain, Zenon
<1>4. SnapFinal' /\ RelFinal' /\ ClmFinal' /\ PredFinal' /\ GapsFinal' /\ RptFinal'
  BY <1>1 DEF SInv, Final, SnapFinal, RelFinal, ClmFinal, PredFinal, GapsFinal, RptFinal,
              AllPaid, Paid, Proposed
<1>5. settled[OGaps] # Absent \/ settled[Smy] # Absent => file'[Gps] = file[Gps]
  BY <1>2, <1>3, FileNames
<1>6. OracleFinal' /\ SmyFinal'
  BY <1>1, <1>5 DEF SInv, Final, OracleFinal, SmyFinal
<1>7. PkgFinal'
  <2>1. CASE d = Pkg
    BY <1>2, <2>1 DEF PkgFinal, Complete
  <2>2. CASE d # Pkg
    BY <1>1, <1>2, <2>2, FileNames DEF SInv, Final, PkgFinal, Complete, Data
  <2> QED BY <2>1, <2>2
<1>8. StagesIdempotent'
  BY <1>1, <1>2 DEF SInv, StagesIdempotent
<1>9. Once'
  <2>1. \A f \in Files : file[f] # Absent => file'[f] # Absent
    BY <1>2, Contents
  <2>2. \A f \in Files : f # d /\ Written(f) => Written(f)'
    BY <1>1, <1>2 DEF Written
  <2>3. ASSUME NEW m \in MethodSet
        PROVE  /\ settled[Predictions(m)] # Absent => Written(Predictions(m))'
               /\ settled[Usage(m)] # Absent => Written(Usage(m))' /\ file'[Predictions(m)] # Absent
    BY <1>3, <2>1, <2>2, FileNames DEF SInv, Once
  <2>4. /\ settled[Gps] # Absent => Written(Gps)'
        /\ settled[OGaps] # Absent => file'[Gps] # Absent
    BY <1>3, <2>1, <2>2, FileNames DEF SInv, Once
  <2> QED BY <1>1, <2>3, <2>4 DEF Once
<1> QED BY <1>4, <1>6, <1>7, <1>8, <1>9 DEF Final

\* write_text has truncated its file and not written it yet.
LEMMA OpenInv ==
  ASSUME SInv, NEW r \in Asks, Open(r)
  PROVE  SInv'
<1>1. PICK d : d = DueFile
  OBVIOUS
<1>2. /\ Running /\ proc.call = Nothing /\ d # Nothing /\ ~Unreadable
      /\ Opens(d) /\ proc'.skip = proc.skip /\ IsDue(d)
  BY <1>1, OpensFacts
<1>3. Ready'
  BY <1>1, OpenReady
<1>4. Final' /\ Once' /\ StagesIdempotent'
  BY <1>2, OpenFinal
<1>5. Stage' = Stage /\ Running' /\ Verifying' = Verifying /\ ~proc'.skip
  BY <1>2 DEF Stage, Running, Verifying, Opens, IsDue
<1>6. Shape'
  BY <1>2 DEF SInv, Shape, Opens
<1>7. Control'
  <2>1. Passed(proc.at)' /\ \A f \in proc.wrote : f # Pkg => Written(f)'
    BY <1>2, PassedOpen
  <2>2. \A f \in proc.wrote : f \in Own(Stage) /\ f # OCache
    BY DEF SInv, Control
  <2> QED BY <1>2, <1>5, <2>1, <2>2 DEF Control, Opens
<1>8. FirstTime'
  BY <1>2, <1>5 DEF SInv, FirstTime, Opens
<1>9. Told'
  BY <1>2, <1>5 DEF SInv, Told, Opens, Priced, Paid, Banked
<1>10. Memory'
  <2>1. \A memo : Recorded(memo)' = Recorded(memo)
    BY <1>2 DEF Recorded, Opens
  <2>2. CASE d = OCache
    BY <1>2, <2>2, Contents DEF Memory, Opens, Complete
  <2>3. CASE d # OCache
    <3>1. file'[OCache] = file[OCache] /\ proc'.memo = proc.memo
      BY <1>2, <2>3, FileNames DEF Opens
    <3>2. Complete(OCache)' = Complete(OCache) /\ Data(OCache)' = Data(OCache)
      BY <3>1 DEF Complete, Data
    <3>3. /\ file'[OCache] = Absent => Recorded(EmptyOracle)'
          /\ Complete(OCache)' => Recorded(Data(OCache))'
      BY <2>1, <3>1, <3>2 DEF SInv, Memory, Recorded
    <3> QED BY <1>2, <1>5, <3>1, <3>2, <3>3 DEF SInv, Memory
  <2> QED BY <2>2, <2>3
<1> QED BY <1>3, <1>4, <1>6, <1>7, <1>8, <1>9, <1>10 DEF SInv

-----------------------------------------------------------------------------
(***************************************************************************)
(* What the files are made from.                                           *)
(***************************************************************************)

\* A file that was written is read back as it was the first time.
LEMMA ReadBack ==
  ASSUME SInv, NEW f \in Files, Written(f)
  PROVE  /\ file[f] # Cut /\ file[f] # Absent /\ Complete(f)
         /\ Data(f) = settled[f][2] /\ Lines(f) = settled[f][2]
         /\ settled[f] = Whole(settled[f][2])
<1>1. settled[f] # Absent /\ file[f] = settled[f] /\ settled[f] = Whole(settled[f][2])
  BY DEF Written, SInv, Shape
<1>2. file[f] # Cut /\ file[f] # Absent
  BY <1>1, Contents
<1> QED BY <1>1, <1>2 DEF Complete, Data, Lines

\* A complete file is the settled one.
LEMMA CompleteIsWritten ==
  ASSUME SInv, NEW f \in Files \ {OCache, Pkg}, Complete(f)
  PROVE  Written(f)
  BY DEF SInv, StagesIdempotent, Complete, Written, OCache, Pkg

\* What each stage can read.
LEMMA Reads ==
  ASSUME SInv, Running
  PROVE  /\ Stage # "freeze" => Written(Snap)
         /\ Stage \notin {"freeze", "extract"} => Written(Rel)
         /\ Stage \notin {"freeze", "extract", "claims"} => Written(Clm)
         /\ Stage = "oracle" => file[Gps] # Absent
         /\ Stage = "packs" => \A m \in MethodSet : file[Predictions(m)] # Absent
         /\ Stage = "score" => Written(OClaims) /\ Written(OGaps) /\ file[Gps] # Absent
         /\ Stage = "report" => Written(Smy)
<1>1. proc.at \in 1 .. Len(Stages) /\ Numbered(Stage, proc.at) /\ Passed(proc.at)
  BY StageFacts DEF SInv, Control
<1>2. PICK M \in Nat : M = Len(Methods) /\ Len(Stages) = M + 8
  BY StageNumbers
<1>3. proc.at \in Nat /\ proc.at >= 1
  BY <1>1, <1>2
<1>4. /\ Stage # "freeze" => proc.at > 1
      /\ Stage \notin {"freeze", "extract"} => proc.at > 2
      /\ Stage \notin {"freeze", "extract", "claims"} => proc.at > 3
  <2>1. /\ proc.at = 1 => Stage = "freeze"
        /\ proc.at = 2 => Stage = "extract"
        /\ proc.at = 3 => Stage = "claims"
    BY <1>1 DEF Numbered
  <2> QED BY <1>3, <2>1
<1>5. /\ Stage = "oracle" => proc.at = M + 5
      /\ Stage = "packs" => proc.at = M + 6
      /\ Stage = "score" => proc.at = M + 7
      /\ Stage = "report" => proc.at = M + 8
  BY <1>1, <1>2 DEF Numbered
<1>6. /\ Stage = "oracle" => proc.at > M + 4
      /\ Stage = "score" => proc.at > M + 5 /\ proc.at > M + 4
      /\ Stage = "report" => proc.at > M + 7
  BY <1>2, <1>5
<1>7. ASSUME Stage = "packs", NEW m \in MethodSet PROVE file[Predictions(m)] # Absent
  <2>1. PICK k \in 1 .. Len(Methods) : Methods[k] = m
    BY SemifinalAssumption DEF MethodSet, Range
  <2>2. proc.at > k + 3
    BY <1>2, <1>5, <1>7
  <2> QED BY <1>1, <2>1, <2>2 DEF Passed
<1> QED BY <1>1, <1>2, <1>4, <1>6, <1>7 DEF Passed

\* The settled relations quote passages of the corpus.
LEMMA RelationsRead ==
  ASSUME SInv, settled[Rel] # Absent
  PROVE  /\ settled[Snap] # Absent /\ IsFiniteSet(settled[Snap][2].passages)
         /\ settled[Rel][2] \in RelationsOver(settled[Snap][2].passages \ Skip)
<1>1. PICK P : P = settled[Snap][2].passages \ Skip
  OBVIOUS
<1>2. PICK B : B = Batches(P)
  OBVIOUS
<1>3. /\ settled[Snap] # Absent /\ AllPaid(B)
      /\ settled[Rel][2] = AdmitBatches(B, Proposed(B))
  BY <1>1, <1>2 DEF SInv, Final, RelFinal
<1>4. IsFiniteSet(settled[Snap][2].passages)
  BY <1>3, CorpusFinite DEF SInv, Final, SnapFinal
<1>5. IsFiniteSet(P)
  BY <1>1, <1>4, FS_Difference
<1>6. PICK R : R = Proposed(B)
  OBVIOUS
<1>7. ASSUME NEW k \in 1 .. Len(B) PROVE R[k] \in Seq(Proposable)
  <2>1. PICK a : a = ops[<<"extract", B[k]>>].answer
    OBVIOUS
  <2>2. a \in Extractions /\ a.parsed
    BY <1>3, <2>1 DEF AllPaid, SInv, Told, Priced
  <2>3. PICK w \in Worlds : a = [parsed |-> TRUE, relations |-> Proposals[w]]
    BY <2>2 DEF Extractions
  <2>4. R[k] = Proposals[w]
    <3>1. R[k] = ops[<<"extract", B[k]>>].answer.relations
      BY <1>6 DEF Proposed
    <3>2. R[k] = a.relations
      BY <2>1, <3>1
    <3>3. a.relations = Proposals[w]
      BY <2>3
    <3> QED BY <3>2, <3>3
  <2> QED BY <2>4, SemifinalAssumption
<1>8. AdmitBatches(B, R) \in RelationsOver(P)
  BY <1>2, <1>5, <1>7, ExtractedQuoted
<1> QED BY <1>1, <1>3, <1>4, <1>6, <1>8

\* The settled claims are a sequence, and quote passages of the corpus.
IsClaims(q, P) ==
    /\ Len(q) \in Nat /\ q = [k \in 1 .. Len(q) |-> q[k]]
    /\ \A k \in 1 .. Len(q) : Quoted(q[k], P)

\* The first claims are those of the first relations, of the frozen corpus.
LEMMA ClaimsRead ==
  ASSUME SInv, settled[Clm] # Absent
  PROVE  /\ settled[Rel] # Absent /\ settled[Snap] # Absent
         /\ IsClaims(settled[Clm][2], settled[Snap][2].passages \ Skip)
<1>1. settled[Rel] # Absent /\ settled[Clm][2] = Claims(settled[Rel][2])
  BY DEF SInv, Final, ClmFinal
<1>2. /\ settled[Snap] # Absent
      /\ settled[Rel][2] \in RelationsOver(settled[Snap][2].passages \ Skip)
  BY <1>1, RelationsRead
<1>3. PICK P, rs : P = settled[Snap][2].passages \ Skip /\ rs = settled[Rel][2]
  OBVIOUS
<1>4. IsClaims(Claims(rs), P)
  <2>1. rs \in RelationsOver(P)
    BY <1>2, <1>3
  <2> QED BY <2>1, ClaimsQuoted DEF IsClaims
<1> QED BY <1>1, <1>2, <1>3, <1>4

\* The content of each file.
LEMMA ContentOf ==
  /\ Content(Snap) = CorpusOf(proc.got)
  /\ Content(Rel) = Extracted(proc.got, Corpus.passages \ Skip)
  /\ Content(Clm) = Claims(Relations)
  /\ Content(Gps) = Gaps(proc.got, Relations, Corpus.passages)
  /\ Content(OCache) = Judged
  /\ Content(OClaims) = [i \in Ids(ClaimList) |-> proc.memo.claims[i]]
  /\ Content(OGaps) = [i \in {GapId(g) : g \in NewGaps} |-> proc.memo.gaps[i]]
  /\ Content(Pkg) = Packages(proc.got, Lines(Predictions("V3-full")), Corpus.passages)
  /\ Content(Rpt) = Data(Smy)
  /\ \A m : Content(Predictions(m)) =
              [k \in 1 .. Len(ClaimList) |-> Prediction(Stage, proc.got, ClaimList[k])]
<1>1. Content(Snap) = CorpusOf(proc.got)
  BY DEF Content, Snap, Of
<1>2. Content(Rel) = Extracted(proc.got, Corpus.passages \ Skip)
  BY DEF Content, Rel, Of
<1>3. Content(Clm) = Claims(Relations)
  BY DEF Content, Clm, Of
<1>4. Content(Gps) = Gaps(proc.got, Relations, Corpus.passages)
  BY DEF Content, Gps, Of
<1>5. Content(OCache) = Judged
  BY DEF Content, OCache, Of
<1>6. Content(OClaims) = [i \in Ids(ClaimList) |-> proc.memo.claims[i]]
  BY DEF Content, OClaims, Of, Ids
<1>7. Content(OGaps) = [i \in {GapId(g) : g \in NewGaps} |-> proc.memo.gaps[i]]
  BY DEF Content, OGaps, Of
<1>8. Content(Pkg) = Packages(proc.got, Lines(Predictions("V3-full")), Corpus.passages)
  BY DEF Content, Pkg, Of
<1>9. Content(Rpt) = Data(Smy)
  BY DEF Content, Rpt, Smy, Of
<1>10. ASSUME NEW m
       PROVE  Content(Predictions(m)) =
                [k \in 1 .. Len(ClaimList) |-> Prediction(Stage, proc.got, ClaimList[k])]
  BY DEF Content, Predictions
<1> QED BY <1>1, <1>2, <1>3, <1>4, <1>5, <1>6, <1>7, <1>8, <1>9, <1>10

\* The summary is written from what the files say.
LEMMA SummaryContent ==
  Content(Smy) =
    [methods |-> [m \in MethodSet |-> score_method(m)],
     novel |-> Cardinality(NewGaps),
     false_gaps |-> {i \in DOMAIN Data(OGaps) : Data(OGaps)[i]}]
  BY DEF Content, Smy, Of, OGaps

\* A file is open in its stage.
LEMMA OpenFacts ==
  ASSUME SInv, proc.open # Nothing
  PROVE  /\ Running /\ proc.call = Nothing /\ ~proc.skip
         /\ proc.open \in Own(Stage) /\ proc.open \in Files /\ proc.open \notin proc.wrote
<1>1. /\ Running /\ proc.call = Nothing /\ ~proc.skip
      /\ proc.open \in Own(Stage) /\ proc.open \notin proc.wrote
  BY DEF SInv, Ready
<1> QED BY <1>1, OwnStage

\* Each file is open in its own stage only.
LEMMA OpenStage ==
  ASSUME SInv, proc.open # Nothing
  PROVE  /\ Running
         /\ proc.open = Snap => Stage = "freeze"
         /\ proc.open = Rel => Stage = "extract"
         /\ proc.open = Clm => Stage = "claims"
         /\ proc.open = Gps => Stage = "gaps"
         /\ proc.open \in {OCache, OClaims, OGaps} => Stage = "oracle"
         /\ proc.open = Pkg => Stage = "packs"
         /\ proc.open = Smy => Stage = "score"
         /\ proc.open = Rpt => Stage = "report"
         /\ \A m : proc.open = Predictions(m) \/ proc.open = Usage(m) => Stage = m /\ Verifying
<1>1. PICK f : f = proc.open
  OBVIOUS
<1>2. Running /\ f \in Own(Stage)
  BY <1>1, OpenFacts
<1> QED BY <1>1, <1>2, OwnStage

\* The corpus is written when nothing is left to search.
LEMMA SnapContent ==
  ASSUME SInv, proc.open # Nothing, proc.open = Snap
  PROVE  NextQuery(cache) = NoRequest /\ Content(Snap) = CorpusOf(cache)
<1>1. Running /\ Stage = "freeze" /\ NextQuery(proc.got) = NoRequest
  <2>1. Running /\ Stage = "freeze"
    BY OpenStage
  <2>2. NextQuery(proc.got) = NoRequest
    BY Zenon DEF SInv, Ready
  <2> QED BY <2>1, <2>2
<1>2. Extends(cache, proc.got)
  BY <1>1, Zenon DEF SInv, Told
<1> QED BY <1>1, <1>2, CorpusExtends, ContentOf

\* The relations are written from paid batches of the frozen corpus.
LEMMA RelContent ==
  ASSUME SInv, proc.open # Nothing, proc.open = Rel,
         NEW B, B = Batches(settled[Snap][2].passages \ Skip)
  PROVE  settled[Snap] # Absent /\ AllPaid(B) /\ Content(Rel) = AdmitBatches(B, Proposed(B))
<1>1. Running /\ Stage = "extract"
  BY OpenStage
<1>2. Written(Snap)
  BY <1>1, Reads
<1>3. settled[Snap] # Absent /\ Corpus = settled[Snap][2]
  BY <1>2, ReadBack, FileNames DEF Written, Corpus, Snap
<1>4. \A k \in 1 .. Len(B) : B[k] \in DOMAIN proc.got
  <2>1. LET A == Batches(Corpus.passages \ Skip) IN
        \A k \in 1 .. Len(A) : A[k] \in DOMAIN proc.got
    BY DEF SInv, Ready
  <2> QED BY <1>3, <2>1
<1>5. Banked(proc.got)
  BY <1>1 DEF SInv, Told
<1>6. ASSUME NEW k \in 1 .. Len(B)
      PROVE  /\ Paid(B[k]) /\ ops[<<"extract", B[k]>>].answer = proc.got[B[k]]
             /\ ops[<<"extract", B[k]>>].answer.parsed
  BY <1>4, <1>5 DEF Banked
<1>7. AllPaid(B)
  BY <1>6 DEF AllPaid
<1>8. Proposed(B) = [k \in 1 .. Len(B) |-> proc.got[B[k]].relations]
  BY <1>6 DEF Proposed
<1>9. Content(Rel) = Extracted(proc.got, Corpus.passages \ Skip)
  BY ContentOf
<1>10. Extracted(proc.got, Corpus.passages \ Skip) =
         AdmitBatches(B, [k \in 1 .. Len(B) |-> proc.got[B[k]].relations])
  BY <1>3, Zenon DEF Extracted
<1> QED BY <1>3, <1>7, <1>8, <1>9, <1>10

\* The claims are written from the first relations.
LEMMA ClmContent ==
  ASSUME SInv, proc.open # Nothing, proc.open = Clm
  PROVE  settled[Rel] # Absent /\ Content(Clm) = Claims(settled[Rel][2])
<1>1. Running /\ Stage = "claims"
  BY OpenStage
<1>2. Written(Rel)
  BY <1>1, Reads
<1>3. settled[Rel] # Absent /\ Relations = settled[Rel][2]
  BY <1>2, ReadBack, FileNames DEF Written, Relations, Rel
<1> QED BY <1>3, ContentOf

\* The later stages read the settled claims.
LEMMA ClaimListRead ==
  ASSUME SInv, Running, Stage \notin {"freeze", "extract", "claims"}
  PROVE  settled[Clm] # Absent /\ ClaimList = settled[Clm][2]
<1>1. Written(Clm)
  BY Reads
<1> QED BY <1>1, ReadBack, FileNames DEF Written, ClaimList, Clm

\* Predictions are written once, for the first claims in their order.
LEMMA PredContent ==
  ASSUME SInv, proc.open # Nothing, NEW m, proc.open = Predictions(m), NEW c,
         c = Content(Predictions(m))
  PROVE  /\ settled[Predictions(m)] = Absent /\ settled[Clm] # Absent
         /\ [k \in 1 .. Len(c) |-> c[k].claim] = settled[Clm][2]
<1>1. Running /\ Stage = m /\ Verifying
  BY OpenStage
<1>2. /\ Predictions(m) \in Own(Stage) /\ Predictions(m) \notin proc.wrote /\ ~proc.skip
  BY OpenFacts
<1>3. settled[Predictions(m)] = Absent
  BY <1>1, <1>2, NotAgain
<1>4. Stage \notin {"freeze", "extract", "claims"}
  BY <1>1, StageNames DEF Verifying
<1>5. PICK q : q = settled[Clm][2]
  OBVIOUS
<1>6. settled[Clm] # Absent /\ ClaimList = q
  BY <1>1, <1>4, <1>5, ClaimListRead
<1>7. Len(q) \in Nat /\ q = [k \in 1 .. Len(q) |-> q[k]]
  BY <1>5, <1>6, ClaimsRead DEF IsClaims
<1>8. PICK s, got : s = Stage /\ got = proc.got
  OBVIOUS
<1>9. c = [k \in 1 .. Len(q) |-> Prediction(s, got, q[k])]
  BY <1>6, <1>8, ContentOf
<1>10. Len(c) = Len(q) /\ \A k \in 1 .. Len(q) : c[k] = Prediction(s, got, q[k])
  BY <1>7, <1>9
<1>11. \A k \in 1 .. Len(q) : c[k].claim = q[k]
  <2>1. \A x : Prediction(s, got, x).claim = x
    BY DEF Prediction
  <2> QED BY <1>10, <2>1
<1>12. [k \in 1 .. Len(c) |-> c[k].claim] = [k \in 1 .. Len(q) |-> q[k]]
  BY <1>10, <1>11
<1> QED BY <1>3, <1>5, <1>6, <1>7, <1>12

\* Usage is written once, behind the predictions.
LEMMA UsageContent ==
  ASSUME SInv, proc.open # Nothing, NEW m, proc.open = Usage(m)
  PROVE  settled[Usage(m)] = Absent /\ file[Predictions(m)] # Absent
<1>1. Running /\ Stage = m /\ Verifying
  BY OpenStage
<1>2. Usage(m) \in Own(Stage) /\ Usage(m) \notin proc.wrote /\ ~proc.skip
  BY OpenFacts
<1>3. settled[Usage(m)] = Absent
  BY <1>1, <1>2, NotAgain
<1>4. Predictions(m) \in proc.wrote /\ Predictions(m) # Pkg
  BY <1>1, FileNames DEF SInv, Ready
<1>5. Written(Predictions(m))
  BY <1>4 DEF SInv, Control
<1> QED BY <1>3, <1>5 DEF Written

\* The gaps stage reads the settled relations and the frozen corpus.
LEMMA GapsContent ==
  ASSUME SInv, proc.open # Nothing, proc.open = Gps
  PROVE  /\ settled[Gps] = Absent /\ settled[OGaps] = Absent /\ settled[Smy] = Absent
         /\ settled[Snap] # Absent
         /\ \A g \in Content(Gps) : GapFits(g, settled[Snap][2].passages)
<1>1. Running /\ Stage = "gaps"
  BY OpenStage
<1>2. Gps \in Own(Stage) /\ Gps \notin proc.wrote /\ ~proc.skip
  BY OpenFacts
<1>3. settled[Gps] = Absent /\ settled[OGaps] = Absent /\ settled[Smy] = Absent
  BY <1>1, <1>2, NotAgain
<1>4. Written(Snap) /\ Written(Rel)
  BY <1>1, Reads
<1>5. /\ settled[Rel] # Absent /\ Relations = settled[Rel][2]
      /\ Corpus = settled[Snap][2]
  BY <1>4, ReadBack, FileNames DEF Written, Relations, Corpus, Rel, Snap
<1>6. PICK passages, P, rs, got :
         /\ passages = settled[Snap][2].passages /\ P = passages \ Skip
         /\ rs = settled[Rel][2] /\ got = proc.got
  OBVIOUS
<1>7. settled[Snap] # Absent /\ rs \in RelationsOver(P) /\ P \subseteq passages
  BY <1>5, <1>6, RelationsRead
<1>8. Content(Gps) = Gaps(got, rs, passages)
  BY <1>5, <1>6, ContentOf
<1>9. \A g \in Gaps(got, rs, passages) : GapFits(g, passages)
  BY <1>7, GapsFit
<1> QED BY <1>3, <1>6, <1>7, <1>8, <1>9

\* A verdict is added to the oracle's memory, none is replaced.
LEMMA JudgedExtends ==
  ASSUME SInv, Unjudged # {} \/ UnjudgedGaps # {}
  PROVE  Extends(Judged.claims, proc.memo.claims) /\ Extends(Judged.gaps, proc.memo.gaps)
<1>1. PICK memo : memo = proc.memo
  OBVIOUS
<1>2. Extends(memo.claims, memo.claims) /\ Extends(memo.gaps, memo.gaps)
  BY DEF Extends
<1>3. CASE Unjudged # {}
  <2>1. Unjudged \subseteq Nat
    BY DEF Unjudged
  <2>2. Min(Unjudged) \in Unjudged
    BY <1>3, <2>1, MinFacts
  <2>3. PICK i : i = NextClaim.id
    OBVIOUS
  <2>4. i \notin DOMAIN memo.claims
    BY <1>1, <2>2, <2>3 DEF Unjudged, NextClaim
  <2>5. PICK v : v = ClaimState(proc.got, NextClaim)
    OBVIOUS
  <2>6. Judged = [claims |-> With(memo.claims, i, v), gaps |-> memo.gaps]
    BY <1>1, <1>3, <2>3, <2>5 DEF Judged
  <2>7. Judged.claims = With(memo.claims, i, v) /\ Judged.gaps = memo.gaps
    BY <2>6
  <2>8. Extends(With(memo.claims, i, v), memo.claims)
    BY <2>4, WithExtends
  <2> QED BY <1>1, <1>2, <2>7, <2>8
<1>4. CASE Unjudged = {} /\ UnjudgedGaps # {}
  <2>1. NextGap \in UnjudgedGaps
    BY <1>4 DEF NextGap
  <2>2. PICK i : i = GapId(NextGap)
    OBVIOUS
  <2>3. i \notin DOMAIN memo.gaps
    BY <1>1, <2>1, <2>2 DEF UnjudgedGaps
  <2>4. PICK v : v = Addressed(proc.got, NextGap)
    OBVIOUS
  <2>5. Judged = [claims |-> memo.claims, gaps |-> With(memo.gaps, i, v)]
    BY <1>1, <1>4, <2>2, <2>4 DEF Judged
  <2>6. Judged.claims = memo.claims /\ Judged.gaps = With(memo.gaps, i, v)
    BY <2>5
  <2>7. Extends(With(memo.gaps, i, v), memo.gaps)
    BY <2>3, WithExtends
  <2> QED BY <1>1, <1>2, <2>6, <2>7
<1> QED BY <1>3, <1>4

\* A flush loses nothing the oracle has recorded in its files.
LEMMA OCacheContent ==
  ASSUME SInv, proc.open # Nothing, proc.open = OCache
  PROVE  Recorded(Content(OCache))
<1>1. (Unjudged # {} \/ UnjudgedGaps # {}) /\ Recorded(proc.memo)
  BY DEF SInv, Ready
<1>2. PICK old, new : old = proc.memo /\ new = Judged
  OBVIOUS
<1>3. Extends(new.claims, old.claims) /\ Extends(new.gaps, old.gaps)
  BY <1>1, <1>2, JudgedExtends
<1>4. settled[OClaims] # Absent => Extends(new.claims, settled[OClaims][2])
  BY <1>1, <1>2, <1>3, ExtendsTwice DEF Recorded
<1>5. settled[OGaps] # Absent => Extends(new.gaps, settled[OGaps][2])
  BY <1>1, <1>2, <1>3, ExtendsTwice DEF Recorded
<1>6. Recorded(new)
  BY <1>4, <1>5 DEF Recorded
<1> QED BY <1>2, <1>6, ContentOf

\* The oracle remembers what it has recorded.
LEMMA Remembers ==
  ASSUME SInv, proc.open # Nothing, proc.open \in {OClaims, OGaps}
  PROVE  Recorded(proc.memo)
<1>1. Running /\ Stage = "oracle" /\ file[OCache] # Cut
  BY OpenStage DEF SInv, Ready
<1> QED BY <1>1 DEF SInv, Memory, Complete

\* A map restricted to a set, and one that extends it.
LEMMA SameMap ==
  ASSUME NEW S, NEW h, NEW s, s = [i \in S |-> s[i]], Extends(h, s)
  PROVE  s = [i \in S |-> h[i]]
<1>1. DOMAIN s = S
  OBVIOUS
<1>2. \A i \in S : h[i] = s[i]
  BY <1>1 DEF Extends
<1> QED BY <1>2

\* The states of the claims are those of the memory, and do not change.
LEMMA OClaimsContent ==
  ASSUME SInv, proc.open # Nothing, proc.open = OClaims, NEW c, c = Content(OClaims)
  PROVE  /\ settled[Clm] # Absent /\ c = [i \in Ids(settled[Clm][2]) |-> c[i]]
         /\ Extends(proc.memo.claims, c)
         /\ settled[OClaims] # Absent => settled[OClaims][2] = c
<1>1. Running /\ Stage = "oracle" /\ Unjudged = {}
  BY OpenStage DEF SInv, Ready
<1>2. settled[Clm] # Absent /\ ClaimList = settled[Clm][2]
  BY <1>1, ClaimListRead
<1>3. PICK q, memo : q = settled[Clm][2] /\ memo = proc.memo.claims
  OBVIOUS
<1>4. c = [i \in Ids(q) |-> memo[i]]
  BY <1>2, <1>3, ContentOf
<1>5. \A i \in Ids(q) : i \in DOMAIN memo
  BY <1>1, <1>2, <1>3 DEF Ids, Unjudged
<1>6. Extends(memo, c) /\ c = [i \in Ids(q) |-> c[i]]
  BY <1>4, <1>5 DEF Extends
<1>7. ASSUME settled[OClaims] # Absent PROVE settled[OClaims][2] = c
  <2>1. PICK s : s = settled[OClaims][2]
    OBVIOUS
  <2>2. s = [i \in Ids(q) |-> s[i]]
    BY <1>3, <1>7, <2>1 DEF SInv, Final, OracleFinal
  <2>3. Extends(memo, s)
    BY <1>3, <1>7, <2>1, Remembers DEF Recorded
  <2>4. s = [i \in Ids(q) |-> memo[i]]
    BY <2>2, <2>3, SameMap
  <2> QED BY <1>4, <2>1, <2>4
<1> QED BY <1>2, <1>3, <1>6, <1>7

\* The states of the gaps are those of the memory, and do not change.
LEMMA OGapsContent ==
  ASSUME SInv, proc.open # Nothing, proc.open = OGaps, NEW c, c = Content(OGaps)
  PROVE  /\ file[Gps] # Absent /\ c = [i \in {GapId(g) : g \in NewIn(file[Gps])} |-> c[i]]
         /\ Extends(proc.memo.gaps, c)
         /\ settled[OGaps] # Absent => settled[OGaps][2] = c
<1>1. Running /\ Stage = "oracle" /\ UnjudgedGaps = {}
  BY OpenStage DEF SInv, Ready
<1>2. file[Gps] # Absent /\ NewGaps = NewIn(file[Gps])
  BY <1>1, Reads DEF NewGaps, NewIn, Data, Gps
<1>3. PICK I, memo : I = {GapId(g) : g \in NewIn(file[Gps])} /\ memo = proc.memo.gaps
  OBVIOUS
<1>4. c = [i \in I |-> memo[i]]
  BY <1>2, <1>3, ContentOf
<1>5. \A i \in I : i \in DOMAIN memo
  BY <1>1, <1>2, <1>3 DEF UnjudgedGaps
<1>6. Extends(memo, c) /\ c = [i \in I |-> c[i]]
  BY <1>4, <1>5 DEF Extends
<1>7. ASSUME settled[OGaps] # Absent PROVE settled[OGaps][2] = c
  <2>1. PICK s : s = settled[OGaps][2]
    OBVIOUS
  <2>2. s = [i \in I |-> s[i]]
    BY <1>3, <1>7, <2>1 DEF SInv, Final, OracleFinal
  <2>3. Extends(memo, s)
    BY <1>3, <1>7, <2>1, Remembers DEF Recorded
  <2>4. s = [i \in I |-> memo[i]]
    BY <2>2, <2>3, SameMap
  <2> QED BY <1>4, <2>1, <2>4
<1> QED BY <1>2, <1>3, <1>6, <1>7

\* A package is about a claim of the corpus.
LEMMA SurvivingFits ==
  ASSUME NEW q, NEW cl, NEW P, NEW passages, IsClaims(cl, P),
         [k \in 1 .. Len(q) |-> q[k].claim] = cl, NEW p \in Surviving(q, passages)
  PROVE  PkgFits(p, passages)
<1>1. PICK i \in 1 .. Len(q) : p = q[i] /\ q[i].claim.passage \in passages
  BY DEF Surviving
<1>2. i \in DOMAIN cl /\ cl[i] = q[i].claim
  OBVIOUS
<1>3. i \in 1 .. Len(cl)
  <2>1. DOMAIN cl = 1 .. Len(cl)
    BY DEF IsClaims
  <2> QED BY <1>2, <2>1
<1>4. Quoted(cl[i], P)
  BY <1>3 DEF IsClaims
<1> QED BY <1>1, <1>2, <1>4 DEF PkgFits, Quoted

\* Packages hold quotes of the frozen corpus.
LEMMA PkgContent ==
  ASSUME SInv, proc.open # Nothing, proc.open = Pkg
  PROVE  /\ settled[Snap] # Absent
         /\ \A p \in Content(Pkg) : PkgFits(p, settled[Snap][2].passages)
<1>1. Running /\ Stage = "packs"
  BY OpenStage
<1>2. Written(Snap)
  BY <1>1, Reads
<1>3. settled[Snap] # Absent /\ Corpus = settled[Snap][2]
  BY <1>2, ReadBack, FileNames DEF Written, Corpus, Snap
<1>4. PICK q, cl, passages, f :
         /\ f = Predictions("V3-full") /\ q = Lines(f) /\ cl = settled[Clm][2]
         /\ passages = settled[Snap][2].passages
  OBVIOUS
<1>5. ASSUME NEW p \in Content(Pkg) PROVE p \in Surviving(q, passages)
  BY <1>3, <1>4, ContentOf DEF Packages
<1>6. "V3-full" \in MethodSet
  BY SemifinalAssumption
<1>7. f \in Files /\ f \notin {OCache, Pkg} /\ file[f] # Absent
  BY <1>1, <1>4, <1>6, FileNames, Reads
<1>8. CASE file[f] = Cut
  <2>1. q = <<>>
    BY <1>4, <1>8 DEF Lines
  <2>2. Surviving(q, passages) = {}
    BY <2>1 DEF Surviving
  <2> QED BY <1>3, <1>4, <1>5, <2>2
<1>9. CASE file[f] # Cut
  <2>1. Written(f)
    BY <1>7, <1>9, CompleteIsWritten DEF Complete
  <2>2. q = settled[f][2] /\ settled[f] # Absent
    BY <1>4, <1>7, <2>1, ReadBack DEF Written
  <2>3. settled[Clm] # Absent /\ [k \in 1 .. Len(q) |-> q[k].claim] = cl
    BY <1>4, <1>6, <2>2 DEF SInv, Final, PredFinal
  <2>4. PICK P : IsClaims(cl, P)
    BY <1>4, <2>3, ClaimsRead
  <2>5. \A p \in Surviving(q, passages) : PkgFits(p, passages)
    BY <2>3, <2>4, SurvivingFits
  <2> QED BY <1>3, <1>4, <1>5, <2>5
<1> QED BY <1>8, <1>9

\* The summary is written from the first predictions and states.
LEMMA SmyContent ==
  ASSUME SInv, proc.open # Nothing, proc.open = Smy
  PROVE  /\ \A m \in MethodSet : settled[Predictions(m)] # Absent
         /\ settled[OClaims] # Absent /\ settled[OGaps] # Absent
         /\ Content(Smy) = SummaryIn(settled, file[Gps])
<1>1. Running /\ Stage = "score" /\ \A m \in MethodSet : Complete(Predictions(m))
  BY OpenStage DEF SInv, Ready
<1>2. Written(OClaims) /\ Written(OGaps) /\ file[Gps] # Absent
  BY <1>1, Reads
<1>3. Data(OClaims) = settled[OClaims][2] /\ Data(OGaps) = settled[OGaps][2]
  BY <1>2, ReadBack, FileNames
<1>4. NewGaps = NewIn(file[Gps])
  BY <1>2 DEF NewGaps, NewIn, Data, Gps
<1>5. ASSUME NEW m \in MethodSet
      PROVE  /\ settled[Predictions(m)] # Absent
             /\ score_method(m) = ScoreIn(settled[Predictions(m)][2], settled[OClaims][2])
  <2>1. PICK f : f = Predictions(m)
    OBVIOUS
  <2>2. f \in Files \ {OCache, Pkg}
    BY <2>1, FileNames
  <2>3. Written(f)
    BY <1>1, <2>1, <2>2, CompleteIsWritten
  <2>4. settled[f] # Absent /\ Data(f) = settled[f][2]
    BY <2>2, <2>3, ReadBack DEF Written
  <2>5. PICK p, oc : p = settled[f][2] /\ oc = settled[OClaims][2]
    OBVIOUS
  <2>6. score_method(m) =
          [k \in 1 .. Len(p) |-> agreement_score(p[k].label, oc[p[k].claim.id])]
    BY <1>3, <2>1, <2>4, <2>5 DEF score_method, OClaims
  <2> QED BY <2>1, <2>4, <2>5, <2>6 DEF ScoreIn
<1>6. [m \in MethodSet |-> score_method(m)] =
        [m \in MethodSet |-> ScoreIn(settled[Predictions(m)][2], settled[OClaims][2])]
  BY <1>5
<1>7. Content(Smy) = SummaryIn(settled, file[Gps])
  BY <1>3, <1>4, <1>6, SummaryContent DEF SummaryIn
<1> QED BY <1>2, <1>5, <1>7 DEF Written

\* The report is written from the first summary.
LEMMA RptContent ==
  ASSUME SInv, proc.open # Nothing, proc.open = Rpt
  PROVE  settled[Smy] # Absent /\ Content(Rpt) = settled[Smy][2]
<1>1. Running /\ Stage = "report"
  BY OpenStage
<1>2. Written(Smy)
  BY <1>1, Reads
<1> QED BY <1>2, ReadBack, FileNames, ContentOf DEF Written

-----------------------------------------------------------------------------
(***************************************************************************)
(* A file is saved.                                                        *)
(***************************************************************************)

\* What f, saved with content c, is made from.
Made(f, c) ==
    /\ f = Snap => NextQuery(cache) = NoRequest /\ c = CorpusOf(cache)
    /\ f = Rel => LET B == Batches(settled[Snap][2].passages \ Skip) IN
          settled[Snap] # Absent /\ AllPaid(B) /\ c = AdmitBatches(B, Proposed(B))
    /\ f = Clm => settled[Rel] # Absent /\ c = Claims(settled[Rel][2])
    /\ \A m : f = Predictions(m) =>
          /\ settled[f] = Absent /\ settled[Clm] # Absent
          /\ [k \in 1 .. Len(c) |-> c[k].claim] = settled[Clm][2]
    /\ \A m : f = Usage(m) => settled[f] = Absent /\ file[Predictions(m)] # Absent
    /\ f = Gps => /\ settled[Gps] = Absent /\ settled[OGaps] = Absent /\ settled[Smy] = Absent
                  /\ settled[Snap] # Absent
                  /\ \A g \in c : GapFits(g, settled[Snap][2].passages)
    /\ f = OCache => Recorded(c)
    /\ f = OClaims => /\ settled[Clm] # Absent /\ c = [i \in Ids(settled[Clm][2]) |-> c[i]]
                      /\ Extends(proc.memo.claims, c)
                      /\ settled[OClaims] # Absent => settled[OClaims][2] = c
    /\ f = OGaps => /\ file[Gps] # Absent
                    /\ c = [i \in {GapId(g) : g \in NewIn(file[Gps])} |-> c[i]]
                    /\ Extends(proc.memo.gaps, c)
                    /\ settled[OGaps] # Absent => settled[OGaps][2] = c
    /\ f = Pkg => settled[Snap] # Absent /\ \A p \in c : PkgFits(p, settled[Snap][2].passages)
    /\ f = Smy => /\ \A m \in MethodSet : settled[Predictions(m)] # Absent
                  /\ settled[OClaims] # Absent /\ settled[OGaps] # Absent
                  /\ c = SummaryIn(settled, file[Gps])
    /\ f = Rpt => settled[Smy] # Absent /\ c = settled[Smy][2]

\* What is about to be written was made from what it should be.
LEMMA MadeFacts ==
  ASSUME SInv, proc.open # Nothing, NEW f, f = proc.open, NEW c, c = Content(proc.open)
  PROVE  Made(f, c)
<1>1. f = Snap => NextQuery(cache) = NoRequest /\ c = CorpusOf(cache)
  BY SnapContent
<1>2. f = Rel => LET B == Batches(settled[Snap][2].passages \ Skip) IN
          settled[Snap] # Absent /\ AllPaid(B) /\ c = AdmitBatches(B, Proposed(B))
  BY RelContent
<1>3. f = Clm => settled[Rel] # Absent /\ c = Claims(settled[Rel][2])
  BY ClmContent
<1>4. ASSUME NEW m, f = Predictions(m)
      PROVE  /\ settled[f] = Absent /\ settled[Clm] # Absent
             /\ [k \in 1 .. Len(c) |-> c[k].claim] = settled[Clm][2]
  BY <1>4, PredContent
<1>5. ASSUME NEW m, f = Usage(m)
      PROVE  settled[f] = Absent /\ file[Predictions(m)] # Absent
  BY <1>5, UsageContent
<1>6. f = Gps => /\ settled[Gps] = Absent /\ settled[OGaps] = Absent /\ settled[Smy] = Absent
                 /\ settled[Snap] # Absent
                 /\ \A g \in c : GapFits(g, settled[Snap][2].passages)
  BY GapsContent
<1>7. f = OCache => Recorded(c)
  BY OCacheContent
<1>8. f = OClaims => /\ settled[Clm] # Absent /\ c = [i \in Ids(settled[Clm][2]) |-> c[i]]
                     /\ Extends(proc.memo.claims, c)
                     /\ settled[OClaims] # Absent => settled[OClaims][2] = c
  BY OClaimsContent
<1>9. f = OGaps => /\ file[Gps] # Absent
                   /\ c = [i \in {GapId(g) : g \in NewIn(file[Gps])} |-> c[i]]
                   /\ Extends(proc.memo.gaps, c)
                   /\ settled[OGaps] # Absent => settled[OGaps][2] = c
  BY OGapsContent
<1>10. f = Pkg => settled[Snap] # Absent /\ \A p \in c : PkgFits(p, settled[Snap][2].passages)
  BY PkgContent
<1>11. f = Smy => /\ \A m \in MethodSet : settled[Predictions(m)] # Absent
                  /\ settled[OClaims] # Absent /\ settled[OGaps] # Absent
                  /\ c = SummaryIn(settled, file[Gps])
  BY SmyContent
<1>12. f = Rpt => settled[Smy] # Absent /\ c = settled[Smy][2]
  BY RptContent
<1> QED BY <1>1, <1>2, <1>3, <1>4, <1>5, <1>6, <1>7, <1>8, <1>9, <1>10, <1>11, <1>12, Zenon
        DEF Made

\* A file that is written again is written as it was.
LEMMA Repeats ==
  ASSUME SInv, proc.open # Nothing, NEW f, f = proc.open, NEW c, Made(f, c),
         f \notin {OCache, Pkg}, settled[f] # Absent
  PROVE  settled[f] = Whole(c)
<1>1. f \in Files /\ f \in Own(Stage) /\ Running
  BY OpenFacts
<1>2. settled[f] = Whole(settled[f][2])
  BY <1>1 DEF SInv, Shape
<1>3. settled[f][2] = c
  <2>1. f \in {Snap, Rel, Clm, Gps, OClaims, OGaps, Smy, Rpt}
          \/ \E m : f = Predictions(m) \/ f = Usage(m)
    <3>1. \/ f \in {Snap, Rel, Clm, Gps, OCache, OClaims, OGaps, Pkg, Smy, Rpt}
          \/ \E m : f = Predictions(m) \/ f = Usage(m)
      BY <1>1 DEF Files, Snap, Rel, Clm, Gps, OCache, OClaims, OGaps, Pkg, Smy, Rpt
    <3> QED BY <3>1
  <2>2. CASE f = Snap
    BY <2>2 DEF Made, SInv, Final, SnapFinal
  <2>3. CASE f = Rel
    BY <2>3 DEF Made, SInv, Final, RelFinal
  <2>4. CASE f = Clm
    BY <2>4 DEF Made, SInv, Final, ClmFinal
  <2>5. CASE f = Gps \/ \E m : f = Predictions(m) \/ f = Usage(m)
    BY <2>5, Zenon DEF Made
  <2>6. CASE f = OClaims \/ f = OGaps
    BY <2>6 DEF Made
  <2>7. CASE f = Smy
    BY <2>7 DEF Made, SInv, Final, SmyFinal
  <2>8. CASE f = Rpt
    BY <2>8 DEF Made, SInv, Final, RptFinal
  <2> QED BY <2>1, <2>2, <2>3, <2>4, <2>5, <2>6, <2>7, <2>8
<1> QED BY <1>2, <1>3

\* Saving f with content c, and nothing else.
Saves(f, c) ==
    /\ DOMAIN file' = Files /\ DOMAIN settled' = Files
    /\ file'[f] = Whole(c)
    /\ settled'[f] = IF settled[f] = Absent THEN Whole(c) ELSE settled[f]
    /\ \A g \in Files : g # f => file'[g] = file[g] /\ settled'[g] = settled[g]
    /\ DOMAIN proc' = DOMAIN proc
    /\ proc'.at = proc.at /\ proc'.got = proc.got /\ proc'.call = proc.call
    /\ proc'.open = Nothing
    /\ proc'.wrote = IF f = OCache THEN proc.wrote ELSE proc.wrote \cup {f}
    /\ proc'.memo = IF f = OCache THEN c ELSE proc.memo
    /\ cache' = cache /\ ops' = ops /\ world' \in Worlds

\* What saving a file changes, and when it happens.
LEMMA SavesFacts ==
  ASSUME SInv, Save, NEW f, f = proc.open, NEW c, c = Content(proc.open)
  PROVE  /\ proc.open # Nothing /\ Saves(f, c) /\ proc'.skip = proc.skip
         /\ Running /\ f \in Own(Stage) /\ f \in Files /\ f \notin proc.wrote
         /\ ~proc.skip /\ proc.call = Nothing
<1>1. /\ f # Nothing
      /\ file' = [file EXCEPT ![f] = Whole(c)]
      /\ settled' = [settled EXCEPT ![f] = IF @ = Absent THEN Whole(c) ELSE @]
      /\ proc' = [proc EXCEPT !.open = Nothing,
                    !.wrote = IF f = OCache THEN @ ELSE @ \cup {f},
                    !.memo = IF f = OCache THEN c ELSE @]
      /\ cache' = cache /\ ops' = ops /\ world' = world
  BY DEF Save, OCache
<1>2. /\ Running /\ f \in Own(Stage) /\ f \in Files /\ f \notin proc.wrote
      /\ ~proc.skip /\ proc.call = Nothing
  BY <1>1, OpenFacts
<1>3. DOMAIN file = Files /\ DOMAIN settled = Files /\ world \in Worlds
  BY DEF SInv, Shape
<1>4. DOMAIN proc = {"at", "skip", "got", "wrote", "open", "call", "tries", "memo"}
  BY DownFacts DEF SInv, Shape
<1>5. /\ DOMAIN file' = Files /\ DOMAIN settled' = Files
      /\ file'[f] = Whole(c)
      /\ settled'[f] = IF settled[f] = Absent THEN Whole(c) ELSE settled[f]
      /\ \A g \in Files : g # f => file'[g] = file[g] /\ settled'[g] = settled[g]
  BY <1>1, <1>2, <1>3
<1>6. /\ DOMAIN proc' = DOMAIN proc
      /\ proc'.at = proc.at /\ proc'.got = proc.got /\ proc'.call = proc.call
      /\ proc'.open = Nothing
      /\ proc'.wrote = IF f = OCache THEN proc.wrote ELSE proc.wrote \cup {f}
      /\ proc'.memo = IF f = OCache THEN c ELSE proc.memo
  BY <1>1, <1>4
<1>7. proc'.skip = proc.skip
  BY <1>1, <1>4
<1> QED BY <1>1, <1>2, <1>3, <1>5, <1>6, <1>7 DEF Saves

\* What is settled stays; what f is, if it is neither the oracle's cache nor
\* a package, it is settled to be.
Settles(f, c) ==
    /\ \A g \in Files : settled[g] # Absent => settled'[g] = settled[g]
    /\ \A g \in Files : g # f => file'[g] = file[g] /\ settled'[g] = settled[g]
    /\ \A g \in Files : file[g] # Absent => file'[g] # Absent
    /\ \A g \in Files : g \notin {OCache, Pkg} /\ Written(g) => Written(g)'
    /\ f \notin {OCache, Pkg} => settled'[f] = Whole(c) /\ Written(f)'
    /\ settled'[f] # Absent /\ file'[f] = Whole(c)

\* A file that was written before is written again as it was.
LEMMA SettlesFacts ==
  ASSUME SInv, proc.open # Nothing, NEW f, f = proc.open, f \in Files,
         NEW c, Made(f, c), Saves(f, c)
  PROVE  Settles(f, c)
<1>1. /\ file'[f] = Whole(c)
      /\ settled'[f] = IF settled[f] = Absent THEN Whole(c) ELSE settled[f]
      /\ \A g \in Files : g # f => file'[g] = file[g] /\ settled'[g] = settled[g]
  BY DEF Saves
<1>2. f \notin {OCache, Pkg} => settled'[f] = Whole(c)
  BY <1>1, Repeats
<1>3. Whole(c) # Absent
  BY Contents
<1>4. f \notin {OCache, Pkg} => Written(f)'
  BY <1>1, <1>2, <1>3 DEF Written
<1>5. ASSUME NEW g \in Files, g \notin {OCache, Pkg}, Written(g) PROVE Written(g)'
  <2>1. CASE g = f
    BY <1>4, <1>5, <2>1
  <2>2. CASE g # f
    BY <1>1, <1>5, <2>2 DEF Written
  <2> QED BY <2>1, <2>2
<1> QED BY <1>1, <1>2, <1>3, <1>4, <1>5 DEF Settles

\* Each first content was made from the first contents before it.
LEMMA SaveFinal ==
  ASSUME SInv, NEW f \in Files, NEW c, Made(f, c), Settles(f, c), cache' = cache, ops' = ops
  PROVE  Final'
<1>1. /\ \A g \in Files : settled[g] # Absent => settled'[g] = settled[g]
      /\ \A g \in Files : g # f => file'[g] = file[g] /\ settled'[g] = settled[g]
      /\ f \notin {OCache, Pkg} => settled'[f] = Whole(c)
      /\ file'[f] = Whole(c) /\ Whole(c)[2] = c
  BY Contents DEF Settles
<1>2. /\ {Snap, Rel, Clm, Gps, OCache, OClaims, OGaps, Pkg, Smy, Rpt} \subseteq Files
      /\ \A m \in MethodSet : Predictions(m) \in Files /\ Usage(m) \in Files
  BY FileNames
<1>3. SnapFinal'
  <2>1. CASE f = Snap
    BY <1>1, <2>1, FixedNames DEF Made, SnapFinal
  <2>2. CASE f # Snap
    BY <1>1, <1>2, <2>2 DEF SInv, Final, SnapFinal
  <2> QED BY <2>1, <2>2
<1>4. RelFinal'
  <2>1. \A B : AllPaid(B)' = AllPaid(B) /\ Proposed(B)' = Proposed(B)
    BY DEF AllPaid, Paid, Proposed
  <2>2. ASSUME settled'[Rel] # Absent
        PROVE  LET B == Batches(settled[Snap][2].passages \ Skip) IN
               /\ settled[Snap] # Absent /\ AllPaid(B)
               /\ settled'[Rel][2] = AdmitBatches(B, Proposed(B))
    <3>1. CASE f = Rel
      BY <1>1, <3>1, FixedNames DEF Made
    <3>2. CASE f # Rel
      BY <1>1, <1>2, <2>2, <3>2 DEF SInv, Final, RelFinal
    <3> QED BY <3>1, <3>2
  <2>3. settled[Snap] # Absent => settled'[Snap] = settled[Snap]
    BY <1>1, <1>2
  <2>4. ASSUME settled'[Rel] # Absent, NEW B, B = Batches(settled[Snap][2].passages \ Skip)
        PROVE  /\ settled'[Snap] # Absent /\ AllPaid(B)'
               /\ settled'[Rel][2] = AdmitBatches(B, Proposed(B)')
               /\ B = Batches(settled'[Snap][2].passages \ Skip)
    <3>1. /\ settled[Snap] # Absent /\ AllPaid(B)
          /\ settled'[Rel][2] = AdmitBatches(B, Proposed(B))
      BY <2>2, <2>4
    <3> QED BY <2>1, <2>3, <2>4, <3>1
  <2> QED BY <2>4 DEF RelFinal
<1>5. ClmFinal'
  <2>1. ASSUME settled'[Clm] # Absent
        PROVE  settled[Rel] # Absent /\ settled'[Clm][2] = Claims(settled[Rel][2])
    <3>1. CASE f = Clm
      BY <1>1, <3>1, FixedNames DEF Made
    <3>2. CASE f # Clm
      BY <1>1, <1>2, <2>1, <3>2 DEF SInv, Final, ClmFinal
    <3> QED BY <3>1, <3>2
  <2> QED BY <1>1, <1>2, <2>1 DEF ClmFinal
<1>6. PredFinal'
  <2>1. ASSUME NEW m \in MethodSet, NEW p, settled'[Predictions(m)] # Absent,
               p = settled'[Predictions(m)][2]
        PROVE  settled[Clm] # Absent /\ [k \in 1 .. Len(p) |-> p[k].claim] = settled[Clm][2]
    <3>1. CASE f = Predictions(m)
      <4>1. p = c
        BY <1>1, <2>1, <3>1, FileNames
      <4> QED BY <3>1, <4>1 DEF Made
    <3>2. CASE f # Predictions(m)
      BY <1>1, <1>2, <2>1, <3>2 DEF SInv, Final, PredFinal
    <3> QED BY <3>1, <3>2
  <2>2. settled[Clm] # Absent => settled'[Clm] = settled[Clm]
    BY <1>1, <1>2
  <2> QED BY <2>1, <2>2 DEF PredFinal
<1>7. GapsFinal'
  <2>1. ASSUME settled'[Gps] # Absent
        PROVE  /\ settled[Snap] # Absent
               /\ \A g \in settled'[Gps][2] : GapFits(g, settled[Snap][2].passages)
    <3>1. CASE f = Gps
      BY <1>1, <3>1, FixedNames DEF Made
    <3>2. CASE f # Gps
      BY <1>1, <1>2, <2>1, <3>2 DEF SInv, Final, GapsFinal
    <3> QED BY <3>1, <3>2
  <2> QED BY <1>1, <1>2, <2>1 DEF GapsFinal
<1>8. settled[OGaps] # Absent \/ f = OGaps \/ f = Smy => file'[Gps] = file[Gps]
  BY <1>1, <1>2, FixedNames DEF Made
<1>9. OracleFinal'
  <2>1. ASSUME settled'[OClaims] # Absent
        PROVE  /\ settled[Clm] # Absent
               /\ settled'[OClaims][2] = [i \in Ids(settled[Clm][2]) |-> settled'[OClaims][2][i]]
    <3>1. CASE f = OClaims
      BY <1>1, <3>1, FixedNames DEF Made
    <3>2. CASE f # OClaims
      BY <1>1, <1>2, <2>1, <3>2 DEF SInv, Final, OracleFinal
    <3> QED BY <3>1, <3>2
  <2>2. ASSUME settled'[OGaps] # Absent
        PROVE  settled'[OGaps][2] =
                 [i \in {GapId(g) : g \in NewIn(file[Gps])} |-> settled'[OGaps][2][i]]
    <3>1. CASE f = OGaps
      BY <1>1, <3>1, FixedNames DEF Made
    <3>2. CASE f # OGaps
      BY <1>1, <1>2, <2>2, <3>2 DEF SInv, Final, OracleFinal
    <3> QED BY <3>1, <3>2
  <2>3. settled'[OGaps] # Absent => file'[Gps] = file[Gps]
    BY <1>1, <1>2, <1>8
  <2> QED BY <1>1, <1>2, <2>1, <2>2, <2>3 DEF OracleFinal
<1>10. PkgFinal'
  <2>1. ASSUME Complete(Pkg)'
        PROVE  /\ settled[Snap] # Absent
               /\ \A p \in file'[Pkg][2] : PkgFits(p, settled[Snap][2].passages)
    <3>1. CASE f = Pkg
      BY <1>1, <3>1 DEF Made
    <3>2. CASE f # Pkg
      <4>1. file'[Pkg] = file[Pkg]
        BY <1>1, <1>2, <3>2
      <4> QED BY <2>1, <4>1 DEF SInv, Final, PkgFinal, Complete, Data
    <3> QED BY <3>1, <3>2
  <2> QED BY <1>1, <1>2, <2>1 DEF PkgFinal, Data
<1>11. SmyFinal'
  <2>1. ASSUME settled'[Smy] # Absent
        PROVE  /\ \A m \in MethodSet : settled[Predictions(m)] # Absent
               /\ settled[OClaims] # Absent /\ settled[OGaps] # Absent
               /\ settled'[Smy][2] = SummaryIn(settled, file[Gps])
    <3>1. CASE f = Smy
      BY <1>1, <3>1, FixedNames DEF Made
    <3>2. CASE f # Smy
      BY <1>1, <1>2, <2>1, <3>2 DEF SInv, Final, SmyFinal
    <3> QED BY <3>1, <3>2
  <2>2. ASSUME settled'[Smy] # Absent
        PROVE  SummaryIn(settled, file[Gps]) = SummaryIn(settled', file'[Gps])
    <3>1. file'[Gps] = file[Gps]
      BY <1>8, <2>1, <2>2
    <3>2. /\ settled'[OClaims] = settled[OClaims] /\ settled'[OGaps] = settled[OGaps]
          /\ \A m \in MethodSet : settled'[Predictions(m)] = settled[Predictions(m)]
      BY <1>1, <1>2, <2>1, <2>2
    <3> QED BY <3>1, <3>2 DEF SummaryIn
  <2>3. /\ settled[OClaims] # Absent => settled'[OClaims] # Absent
        /\ settled[OGaps] # Absent => settled'[OGaps] # Absent
        /\ \A m \in MethodSet :
              settled[Predictions(m)] # Absent => settled'[Predictions(m)] # Absent
    BY <1>1, <1>2
  <2> QED BY <2>1, <2>2, <2>3 DEF SmyFinal
<1>12. RptFinal'
  <2>1. ASSUME settled'[Rpt] # Absent
        PROVE  settled[Smy] # Absent /\ settled'[Rpt][2] = settled[Smy][2]
    <3>1. CASE f = Rpt
      BY <1>1, <3>1, FixedNames DEF Made
    <3>2. CASE f # Rpt
      BY <1>1, <1>2, <2>1, <3>2 DEF SInv, Final, RptFinal
    <3> QED BY <3>1, <3>2
  <2> QED BY <1>1, <1>2, <2>1 DEF RptFinal
<1> QED BY <1>3, <1>4, <1>5, <1>6, <1>7, <1>9, <1>10, <1>11, <1>12 DEF Final

\* A saved file counts as written where the process is.
LEMMA SaveControl ==
  ASSUME SInv, Running, NEW f \in Own(Stage), f \in Files, NEW c, Saves(f, c), Settles(f, c),
         ~proc.skip, proc'.skip = proc.skip
  PROVE  Control'
<1>1. /\ Passed(proc.at)
      /\ \A g \in proc.wrote : g \in Own(Stage) /\ g # OCache /\ (g # Pkg => Written(g))
  BY DEF SInv, Control
<1>2. proc'.at = proc.at /\ Stage' = Stage /\ Running' /\ ~proc'.skip
  BY DEF Saves, Stage, Running
<1>3. /\ proc.at > 1 => Written(Snap)'
      /\ proc.at > 2 => Written(Rel)'
      /\ proc.at > 3 => Written(Clm)'
      /\ proc.at > Len(Methods) + 4 => file'[Gps] # Absent
      /\ proc.at > Len(Methods) + 5 => Written(OClaims)' /\ Written(OGaps)'
      /\ proc.at > Len(Methods) + 7 => Written(Smy)'
  BY <1>1, FileNames, FixedNames DEF Passed, Settles
<1>4. ASSUME NEW k \in 1 .. Len(Methods), proc.at > k + 3
      PROVE  file'[Predictions(Methods[k])] # Absent
  <2>1. Methods[k] \in MethodSet
    BY SemifinalAssumption
  <2>2. Predictions(Methods[k]) \in Files
    BY <2>1, FileNames
  <2> QED BY <1>1, <1>4, <2>2 DEF Passed, Settles
<1>5. Passed(proc.at)'
  BY <1>2, <1>3, <1>4 DEF Passed
<1>6. ASSUME NEW g \in proc'.wrote
      PROVE  g \in Own(Stage) /\ g # OCache /\ (g # Pkg => Written(g)')
  <2>1. CASE g \in proc.wrote
    <3>1. g \in Files
      BY <1>1, <2>1, OwnStage
    <3> QED BY <1>1, <2>1, <3>1 DEF Settles
  <2>2. CASE g = f /\ f # OCache
    BY <2>2 DEF Settles
  <2> QED BY <1>6, <2>1, <2>2 DEF Saves
<1> QED BY <1>2, <1>5, <1>6 DEF Control

\* Files that are written once were not there before.
LEMMA SaveOnce ==
  ASSUME SInv, Running, NEW f \in Own(Stage), f \in Files, NEW c, Made(f, c), Saves(f, c),
         Settles(f, c)
  PROVE  Once' /\ StagesIdempotent'
<1>1. /\ \A g \in Files : settled[g] # Absent => settled'[g] = settled[g]
      /\ \A g \in Files : g # f => file'[g] = file[g] /\ settled'[g] = settled[g]
      /\ \A g \in Files : file[g] # Absent => file'[g] # Absent
      /\ \A g \in Files : g \notin {OCache, Pkg} /\ Written(g) => Written(g)'
      /\ f \notin {OCache, Pkg} => Written(f)'
  BY DEF Settles
<1>2. ASSUME NEW m \in MethodSet
      PROVE  /\ settled'[Predictions(m)] # Absent => Written(Predictions(m))'
             /\ settled'[Usage(m)] # Absent => Written(Usage(m))' /\ file'[Predictions(m)] # Absent
  <2>1. /\ Predictions(m) \in Files /\ Usage(m) \in Files
        /\ Predictions(m) \notin {OCache, Pkg} /\ Usage(m) \notin {OCache, Pkg}
    BY FileNames
  <2>2. /\ settled[Predictions(m)] # Absent => Written(Predictions(m))
        /\ settled[Usage(m)] # Absent => Written(Usage(m)) /\ file[Predictions(m)] # Absent
    BY DEF SInv, Once
  <2>3. f = Usage(m) => file[Predictions(m)] # Absent
    BY DEF Made
  <2> QED BY <1>1, <2>1, <2>2, <2>3
<1>3. /\ settled'[Gps] # Absent => Written(Gps)'
      /\ settled'[OGaps] # Absent => file'[Gps] # Absent
  <2>1. Gps \in Files /\ OGaps \in Files /\ Gps \notin {OCache, Pkg}
    BY FileNames, FixedNames
  <2>2. /\ settled[Gps] # Absent => Written(Gps)
        /\ settled[OGaps] # Absent => file[Gps] # Absent
    BY DEF SInv, Once
  <2>3. f = OGaps => file[Gps] # Absent
    BY DEF Made
  <2> QED BY <1>1, <2>1, <2>2, <2>3
<1>4. StagesIdempotent'
  <2> SUFFICES ASSUME NEW g \in Files \ {Of("oracle_cache"), Of("packages")}
               PROVE  file'[g] \in {Absent, Cut, settled'[g]}
    BY DEF StagesIdempotent
  <2>1. CASE g = f
    BY <1>1, <2>1 DEF Written, OCache, Pkg
  <2>2. CASE g # f
    BY <1>1, <2>2 DEF SInv, StagesIdempotent
  <2> QED BY <2>1, <2>2
<1> QED BY <1>2, <1>3, <1>4 DEF Once

\* A flush of the cache makes it the oracle's memory.
LEMMA SaveMemory ==
  ASSUME SInv, Running, NEW f \in Own(Stage), f \in Files, proc.open = f, f # Nothing,
         NEW c, Made(f, c), Saves(f, c), Settles(f, c)
  PROVE  Memory'
<1>1. /\ \A g \in Files : g # f => file'[g] = file[g] /\ settled'[g] = settled[g]
      /\ \A g \in Files : settled[g] # Absent => settled'[g] = settled[g]
      /\ f \notin {OCache, Pkg} => settled'[f] = Whole(c)
      /\ file'[f] = Whole(c) /\ Whole(c)[2] = c /\ Whole(c) # Absent
      /\ OCache \in Files /\ OClaims \in Files /\ OGaps \in Files
  BY Contents, FileNames DEF Settles
<1>2. proc'.at = proc.at /\ Stage' = Stage
  BY DEF Saves, Stage
<1>3. CASE f = OCache
  <2>1. settled'[OClaims] = settled[OClaims] /\ settled'[OGaps] = settled[OGaps]
    BY <1>1, <1>3, FixedNames
  <2>2. Recorded(c)'
    BY <1>3, <2>1 DEF Made, Recorded
  <2>3. file'[OCache] # Absent /\ Data(OCache)' = c /\ proc'.memo = c
    BY <1>1, <1>3 DEF Data, Saves
  <2>4. Recorded(Data(OCache))'
    BY <2>2, <2>3 DEF Recorded
  <2> QED BY <2>3, <2>4 DEF Memory
<1>4. CASE f \notin {OCache, OClaims, OGaps}
  <2>1. /\ settled'[OClaims] = settled[OClaims] /\ settled'[OGaps] = settled[OGaps]
        /\ file'[OCache] = file[OCache]
    BY <1>1, <1>4
  <2>2. proc'.memo = proc.memo
    BY <1>4 DEF Saves
  <2>3. Complete(OCache)' = Complete(OCache) /\ Data(OCache)' = Data(OCache)
    BY <2>1 DEF Complete, Data
  <2>4. /\ file'[OCache] = Absent => Recorded(EmptyOracle)'
        /\ Complete(OCache)' => Recorded(Data(OCache))'
    BY <2>1, <2>3 DEF SInv, Memory, Recorded
  <2> QED BY <1>2, <2>1, <2>2, <2>3, <2>4 DEF SInv, Memory
<1>5. CASE f \in {OClaims, OGaps}
  <2>1. /\ file'[OCache] = file[OCache] /\ proc'.memo = proc.memo /\ Stage = "oracle"
        /\ file[OCache] # Cut
    <3>1. Stage = "oracle" /\ file[OCache] # Cut
      BY <1>5, OpenStage DEF SInv, Ready
    <3> QED BY <1>1, <1>5, <3>1, FixedNames DEF Saves
  <2>2. Complete(OCache)' = Complete(OCache) /\ Data(OCache)' = Data(OCache)
    BY <2>1 DEF Complete, Data
  <2>3. /\ file[OCache] = Absent => proc.memo = EmptyOracle
        /\ Complete(OCache) => proc.memo = Data(OCache)
    BY <2>1 DEF SInv, Memory
  <2>4. Recorded(proc.memo)
    BY <1>5, Remembers
  <2>5. PICK memo : memo = proc.memo
    OBVIOUS
  <2>6. settled'[OClaims] # Absent => Extends(memo.claims, settled'[OClaims][2])
    <3>1. CASE f = OClaims
      <4>1. settled'[OClaims][2] = c
        BY <1>1, <3>1, FixedNames
      <4> QED BY <2>5, <3>1, <4>1 DEF Made
    <3>2. CASE f # OClaims
      BY <1>1, <2>4, <2>5, <3>2 DEF Recorded
    <3> QED BY <3>1, <3>2
  <2>7. settled'[OGaps] # Absent => Extends(memo.gaps, settled'[OGaps][2])
    <3>1. CASE f = OGaps
      <4>1. settled'[OGaps][2] = c
        BY <1>1, <3>1, FixedNames
      <4> QED BY <2>5, <3>1, <4>1 DEF Made
    <3>2. CASE f # OGaps
      BY <1>1, <2>4, <2>5, <3>2 DEF Recorded
    <3> QED BY <3>1, <3>2
  <2>8. Recorded(memo)'
    BY <2>6, <2>7 DEF Recorded
  <2>9. /\ file'[OCache] = Absent => Recorded(EmptyOracle)'
        /\ Complete(OCache)' => Recorded(Data(OCache))'
    BY <2>1, <2>2, <2>3, <2>5, <2>8 DEF Recorded
  <2> QED BY <2>1, <2>2, <2>3, <2>9 DEF Memory
<1> QED BY <1>3, <1>4, <1>5

\* A file gets its content.
LEMMA SaveInv ==
  ASSUME SInv, Save
  PROVE  SInv'
<1>1. PICK f, c : f = proc.open /\ c = Content(proc.open)
  OBVIOUS
<1>2. /\ proc.open # Nothing /\ Saves(f, c) /\ proc'.skip = proc.skip
      /\ Running /\ f \in Own(Stage) /\ f \in Files /\ f \notin proc.wrote
      /\ ~proc.skip /\ proc.call = Nothing
  BY <1>1, SavesFacts
<1>3. Made(f, c)
  BY <1>1, <1>2, MadeFacts
<1>4. Settles(f, c)
  BY <1>1, <1>2, <1>3, SettlesFacts
<1>5. Final'
  <2>1. cache' = cache /\ ops' = ops
    BY <1>2 DEF Saves
  <2> QED BY <1>2, <1>3, <1>4, <2>1, SaveFinal
<1>6. Control'
  BY <1>2, <1>4, SaveControl
<1>7. Once' /\ StagesIdempotent'
  BY <1>2, <1>3, <1>4, SaveOnce
<1>8. Memory'
  BY <1>1, <1>2, <1>3, <1>4, SaveMemory
<1>9. Stage' = Stage /\ Running' /\ Verifying' = Verifying /\ proc'.open = Nothing
  BY <1>2 DEF Stage, Running, Verifying, Saves
<1>10. Shape'
  <2>1. \A g \in Files : settled[g] # Absent => settled[g] = Whole(settled[g][2])
    BY DEF SInv, Shape
  <2>2. settled'[f] = Whole(c) \/ settled'[f] = settled[f]
    BY <1>2 DEF Saves
  <2>3. ASSUME NEW g \in Files, settled'[g] # Absent PROVE settled'[g] = Whole(settled'[g][2])
    BY <1>2, <2>1, <2>2, <2>3, Contents DEF Saves
  <2>4. DOMAIN proc = DOMAIN Down /\ proc.at \in 0 .. Len(Stages)
    BY DEF SInv, Shape
  <2> QED BY <1>2, <2>3, <2>4 DEF Shape, Saves
<1>11. Ready'
  BY <1>9 DEF Ready
<1>12. FirstTime'
  <2>1. \A g : g \in proc.wrote => g \in proc'.wrote
    BY <1>2 DEF Saves
  <2>2. \A g \in Files : g # f => settled'[g] = settled[g]
    BY <1>2 DEF Saves
  <2>3. f # OCache => f \in proc'.wrote
    BY <1>2 DEF Saves
  <2>4. ASSUME Verifying, NEW g \in {Predictions(Stage), Usage(Stage)}, g \notin proc'.wrote
        PROVE  settled'[g] = Absent
    <3>1. g \in Files /\ g # OCache
      BY <2>4, FileNames DEF Verifying
    <3>2. g # f
      BY <2>3, <2>4, <3>1
    <3> QED BY <1>2, <2>1, <2>2, <2>4, <3>1, <3>2 DEF SInv, FirstTime
  <2>5. ASSUME Stage = "gaps", Gps \notin proc'.wrote
        PROVE  settled'[Gps] = Absent /\ settled'[OGaps] = Absent
    <3>1. f # Gps /\ f # OGaps
      BY <1>2, <2>3, <2>5, OwnStage, FixedNames
    <3> QED BY <1>2, <2>1, <2>2, <2>5, <3>1, FileNames DEF SInv, FirstTime
  <2> QED BY <1>9, <2>4, <2>5 DEF FirstTime
<1>13. Told'
  BY <1>2, <1>9 DEF SInv, Told, Saves, Priced, Paid, Banked
<1> QED BY <1>5, <1>6, <1>7, <1>8, <1>10, <1>11, <1>12, <1>13 DEF SInv

-----------------------------------------------------------------------------
(***************************************************************************)
(* The theorems.                                                           *)
(***************************************************************************)

\* Every step keeps the invariant.
LEMMA StepInv ==
  ASSUME SInv, [SNext]_svars
  PROVE  SInv'
<1>1. ASSUME NEW r \in Asks, Search(r) \/ Reserve(r) \/ Open(r) \/ Advance(r) PROVE SInv'
  BY <1>1, SearchInv, ReserveInv, OpenInv, AdvanceInv
<1>2. ASSUME NEW r \in Asks, SearchFails(r) \/ ReserveFails(r) PROVE SInv'
  BY <1>2, SearchFailsInv, ReserveFailsInv
<1>3. CASE Start \/ Answer \/ CannotRead \/ Save
  BY <1>3, StartInv, AnswerInv, CannotReadInv, SaveInv
<1>4. CASE Garbled \/ CallFails \/ Kill
  BY <1>4, GarbledInv, CallFailsInv, KillInv
<1>5. CASE Drift
  <2>1. UNCHANGED <<file, cache, ops, proc, settled>> /\ world' \in Worlds
    BY <1>5 DEF Drift
  <2> QED BY <2>1, SameInv
<1>6. CASE UNCHANGED svars
  <2>1. UNCHANGED <<file, cache, ops, proc, settled>> /\ world' \in Worlds
    BY <1>6 DEF svars, SInv, Shape
  <2> QED BY <2>1, SameInv
<1> QED BY <1>1, <1>2, <1>3, <1>4, <1>5, <1>6 DEF SNext, Step, Fault

\* The invariant holds what the files say of each other.
LEMMA InvAgree ==
  ASSUME SInv
  PROVE  FilesAgree
<1>1. ASSUME Complete(Rel)
      PROVE  /\ Relations = settled[Rel][2]
             /\ \A k \in 1 .. Len(Relations) :
                  Quoted(Relations[k], settled[Snap][2].passages \ Skip)
  <2>1. Rel \in Files \ {OCache, Pkg}
    BY FileNames, FixedNames
  <2>2. Written(Rel)
    BY <1>1, <2>1, CompleteIsWritten
  <2>3. settled[Rel] # Absent /\ Relations = settled[Rel][2]
    BY <2>1, <2>2, ReadBack DEF Written, Relations, Rel
  <2>4. settled[Rel][2] \in RelationsOver(settled[Snap][2].passages \ Skip)
    BY <2>3, RelationsRead
  <2> QED BY <2>3, <2>4 DEF RelationsOver
<1>2. ASSUME Complete(Clm)
      PROVE  /\ settled[Clm] # Absent /\ ClaimList = settled[Clm][2]
             /\ ClaimList = Claims(settled[Rel][2])
  <2>1. Clm \in Files \ {OCache, Pkg}
    BY FileNames, FixedNames
  <2>2. Written(Clm)
    BY <1>2, <2>1, CompleteIsWritten
  <2>3. settled[Clm] # Absent /\ ClaimList = settled[Clm][2]
    BY <2>1, <2>2, ReadBack DEF Written, ClaimList, Clm
  <2> QED BY <2>3 DEF SInv, Final, ClmFinal
<1>3. ASSUME NEW m \in MethodSet, Complete(Predictions(m)), Complete(Clm)
      PROVE  [k \in 1 .. Len(Data(Predictions(m))) |-> Data(Predictions(m))[k].claim] = ClaimList
  <2>1. Predictions(m) \in Files \ {OCache, Pkg}
    BY FileNames
  <2>2. Written(Predictions(m))
    BY <1>3, <2>1, CompleteIsWritten
  <2>3. settled[Predictions(m)] # Absent /\ Data(Predictions(m)) = settled[Predictions(m)][2]
    BY <2>1, <2>2, ReadBack DEF Written
  <2>4. LET p == settled[Predictions(m)][2] IN
        [k \in 1 .. Len(p) |-> p[k].claim] = settled[Clm][2]
    BY <2>3 DEF SInv, Final, PredFinal
  <2> QED BY <1>2, <1>3, <2>3, <2>4
<1>4. ASSUME Complete(OClaims), Complete(Clm)
      PROVE  DOMAIN Data(OClaims) = {ClaimList[k].id : k \in 1 .. Len(ClaimList)}
  <2>1. OClaims \in Files \ {OCache, Pkg}
    BY FileNames, FixedNames
  <2>2. Written(OClaims)
    BY <1>4, <2>1, CompleteIsWritten
  <2>3. settled[OClaims] # Absent /\ Data(OClaims) = settled[OClaims][2]
    BY <2>1, <2>2, ReadBack DEF Written
  <2>4. settled[OClaims][2] = [i \in Ids(settled[Clm][2]) |-> settled[OClaims][2][i]]
    BY <2>3 DEF SInv, Final, OracleFinal
  <2>5. DOMAIN settled[OClaims][2] = Ids(settled[Clm][2])
    BY <2>4
  <2> QED BY <1>2, <1>4, <2>3, <2>5 DEF Ids
<1>5. ASSUME Complete(Pkg), NEW p \in Data(Pkg)
      PROVE  /\ p.claim.passage \in settled[Snap][2].passages
             /\ p.claim.quote \in Says[p.claim.passage]
  BY <1>5 DEF SInv, Final, PkgFinal, PkgFits
<1> QED BY <1>1, <1>2, <1>3, <1>4, <1>5
        DEF FilesAgree, Quoted, Snap, Rel, Clm, OClaims, Pkg

\* The invariant holds what the gaps quote.
LEMMA InvQuoted ==
  ASSUME SInv
  PROVE  NoveltyIsQuoted
<1>1. ASSUME Complete(Gps), NEW g \in Data(Gps) PROVE GapFits(g, settled[Snap][2].passages)
  <2>1. Gps \in Files \ {OCache, Pkg}
    BY FileNames, FixedNames
  <2>2. Written(Gps)
    BY <1>1, <2>1, CompleteIsWritten
  <2>3. settled[Gps] # Absent /\ Data(Gps) = settled[Gps][2]
    BY <2>1, <2>2, ReadBack DEF Written
  <2> QED BY <1>1, <2>3 DEF SInv, Final, GapsFinal
<1> QED BY <1>1 DEF NoveltyIsQuoted, GapFits, Gps, Snap

\* The invariant of the experiment: what each file was first made from, and
\* what the process may rely on when it writes the next one.
THEOREM SemifinalInv == SSpec => []SInv
  BY InitInv, StepInv, PTL DEF SSpec

\* Running a stage again, after any number of kills and failures and with an
\* index and a model that answer differently by now, writes the file it
\* wrote before.
THEOREM RerunsRepeat == SSpec => []StagesIdempotent
<1>1. SInv => StagesIdempotent
  BY DEF SInv
<1> QED BY <1>1, SemifinalInv, PTL

\* The files of a run are about each other: relations quote the frozen
\* corpus, claims are those of the relations, predictions and oracle those
\* of the claims, and packages replay against the corpus.
THEOREM FilesStayTogether == SSpec => []FilesAgree
  BY InvAgree, SemifinalInv, PTL

\* A gap called known is quoted from a passage it cites, one called new
\* carries no quote, and both cite passages of the frozen corpus.
THEOREM GapsQuoted == SSpec => []NoveltyIsQuoted
  BY InvQuoted, SemifinalInv, PTL

=============================================================================
