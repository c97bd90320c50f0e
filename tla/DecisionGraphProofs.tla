------------------------ MODULE DecisionGraphProofs ------------------------
(***************************************************************************)
(* What the decision graph guarantees for every number of claims, queries  *)
(* and passages and every order of events.  The invariant is inductive as  *)
(* a whole: that a decision stays grounded needs that evidence never       *)
(* changes its origin, which needs that edges are traceable.               *)
(***************************************************************************)
EXTENDS DecisionGraph, TLAPS

GInv ==
    /\ GTypeOK
    /\ EvidenceIsTraceable
    /\ NothingDangles
    /\ DecisionIsGrounded

-----------------------------------------------------------------------------
(***************************************************************************)
(* Evidence keeps its origin.                                              *)
(***************************************************************************)

\* The passage of an edge was observed and its query executed, so neither is free
\* for a later event.
LEMMA OriginIsTaken ==
    ASSUME GTypeOK, EvidenceIsTraceable, NEW e \in edges
    PROVE  /\ e \in Edge
           /\ Observed(e.passage)
           /\ passages[e.passage] \in Queries
           /\ Executed(passages[e.passage])
<1>1. e \in Edge /\ e.claim \in Claims
  BY DEF GTypeOK, Edge
<1>2. passages[e.passage] \in Queries /\ queries[passages[e.passage]].claim = e.claim
  BY DEF EvidenceIsTraceable
<1> QED
  BY <1>1, <1>2, GraphAssumption DEF Observed, Executed

\* No event changes what an existing edge rests on.
LEMMA OriginIsKept ==
    ASSUME GTypeOK, EvidenceIsTraceable, GNext, NEW e \in edges
    PROVE  /\ e \in edges'
           /\ passages'[e.passage] = passages[e.passage]
           /\ queries'[passages[e.passage]] = queries[passages[e.passage]]
<1>0. Observed(e.passage) /\ Executed(passages[e.passage]) /\ e.passage \in Passages
  BY OriginIsTaken DEF Edge
<1>1. ASSUME NEW c \in Claims, claim_proposed(c)
      PROVE  edges' = edges /\ passages' = passages /\ queries' = queries
  BY <1>1 DEF claim_proposed
<1>2. ASSUME NEW c \in Claims, NEW target \in ClaimState,
             NEW boundary \in Boundary \cup {"absent"}, claim_transitioned(c, target, boundary)
      PROVE  edges' = edges /\ passages' = passages /\ queries' = queries
  BY <1>2 DEF claim_transitioned
<1>3. ASSUME NEW c \in Claims, NEW q \in Queries, NEW intent \in {"support", "counterevidence"},
             query_executed(q, c, intent)
      PROVE  /\ edges' = edges /\ passages' = passages
             /\ queries'[passages[e.passage]] = queries[passages[e.passage]]
  BY <1>0, <1>3 DEF query_executed, GTypeOK
<1>4. ASSUME NEW p \in Passages, NEW q \in Queries, passage_observed(p, q)
      PROVE  /\ edges' = edges /\ queries' = queries
             /\ passages'[e.passage] = passages[e.passage]
  BY <1>0, <1>4 DEF passage_observed, GTypeOK
<1>5. ASSUME NEW c \in Claims, NEW p \in Passages, NEW relation \in EvidenceRelation,
             evidence_linked(c, p, relation)
      PROVE  e \in edges' /\ passages' = passages /\ queries' = queries
  BY <1>5 DEF evidence_linked
<1> QED
  BY <1>1, <1>2, <1>3, <1>4, <1>5 DEF GNext

\* A counterevidence query once executed for a claim stays executed for it.
LEMMA CounterQueryIsKept ==
    ASSUME GTypeOK, GNext, NEW c \in Claims, _has_counter_query(c)
    PROVE  _has_counter_query(c)'
<1>1. PICK q \in Queries : queries[q].claim = c /\ queries[q].intent = "counterevidence"
  BY DEF _has_counter_query
<1>2. Executed(q)
  BY <1>1, GraphAssumption DEF Executed
<1>3. ASSUME NEW d \in Claims, NEW r \in Queries, NEW intent \in {"support", "counterevidence"},
             query_executed(r, d, intent)
      PROVE  queries'[q] = queries[q]
  BY <1>2, <1>3 DEF query_executed, GTypeOK
<1>4. queries'[q] = queries[q]
  BY <1>3 DEF GNext, claim_proposed, claim_transitioned, passage_observed, evidence_linked
<1> QED
  BY <1>1, <1>4 DEF _has_counter_query

\* So what was found for a claim stays found.
LEMMA FoundIsKept ==
    ASSUME GTypeOK, EvidenceIsTraceable, GNext, NEW c \in Claims,
           NEW relations, NEW intent, Found(c, relations, intent)
    PROVE  Found(c, relations, intent)'
<1>1. PICK e \in edges : /\ e.claim = c /\ e.relation \in relations
                         /\ queries[passages[e.passage]].intent = intent
  BY DEF Found
<1>2. /\ e \in edges' /\ passages'[e.passage] = passages[e.passage]
      /\ queries'[passages[e.passage]] = queries[passages[e.passage]]
  BY <1>1, OriginIsKept
<1> QED
  BY <1>1, <1>2 DEF Found

\* A relation of an edge of the claim, with the intent its kind demands, is found.
LEMMA RelationIsFound ==
    ASSUME EvidenceIsTraceable, NEW c \in Claims
    PROVE  /\ "SUPPORTS" \in _relations(c) => Found(c, {"SUPPORTS"}, "support")
           /\ "BOUNDS" \in _relations(c) => Found(c, {"BOUNDS"}, "counterevidence")
           /\ {"CONTRADICTS", "PRECEDENT_FOR"} \cap _relations(c) # {} =>
                Found(c, {"CONTRADICTS", "PRECEDENT_FOR"}, "counterevidence")
<1>1. \A r \in _relations(c) : \E e \in edges : e.claim = c /\ e.relation = r
  BY DEF _relations
<1> QED
  BY <1>1 DEF EvidenceIsTraceable, Found

-----------------------------------------------------------------------------
(***************************************************************************)
(* The invariant.                                                          *)
(***************************************************************************)

\* The empty graph satisfies the invariant.
LEMMA InitGInv == GInit => GInv
<1> SUFFICES ASSUME GInit PROVE GInv
  OBVIOUS
<1>1. GTypeOK
  BY DEF GInit, GTypeOK, Boundary
<1>2. EvidenceIsTraceable
  BY DEF GInit, EvidenceIsTraceable
<1>3. NothingDangles
  BY DEF GInit, NothingDangles
<1>4. DecisionIsGrounded
  BY DEF GInit, DecisionIsGrounded
<1> QED
  BY <1>1, <1>2, <1>3, <1>4 DEF GInv

\* Every event keeps the graph well typed.
LEMMA NextTypeOK == GTypeOK /\ GNext => GTypeOK'
<1> SUFFICES ASSUME GTypeOK, GNext PROVE GTypeOK'
  OBVIOUS
<1>1. ASSUME NEW c \in Claims, claim_proposed(c) PROVE GTypeOK'
  BY <1>1 DEF claim_proposed, GTypeOK, ClaimState, Boundary
<1>2. ASSUME NEW c \in Claims, NEW target \in ClaimState,
             NEW boundary \in Boundary \cup {"absent"}, claim_transitioned(c, target, boundary)
      PROVE  GTypeOK'
  <2> DEFINE new == IF boundary = "absent" THEN claims[c].boundary ELSE boundary
  <2>1. claims[c].boundary \in Boundary
    BY DEF GTypeOK
  <2>2. new \in Boundary
    BY <2>1
  <2>3. claims' = [claims EXCEPT ![c] = [state |-> target, boundary |-> new]]
    BY <1>2 DEF claim_transitioned
  <2> HIDE DEF new
  <2>4. claims' \in [Claims -> [state: ClaimState \cup {"ABSENT"}, boundary: Boundary]]
    BY <2>2, <2>3 DEF GTypeOK
  <2> QED
    BY <1>2, <2>4 DEF claim_transitioned, GTypeOK
<1>3. ASSUME NEW c \in Claims, NEW q \in Queries, NEW intent \in {"support", "counterevidence"},
             query_executed(q, c, intent)
      PROVE  GTypeOK'
  BY <1>3 DEF query_executed, GTypeOK
<1>4. ASSUME NEW p \in Passages, NEW q \in Queries, passage_observed(p, q) PROVE GTypeOK'
  BY <1>4 DEF passage_observed, GTypeOK
<1>5. ASSUME NEW c \in Claims, NEW p \in Passages, NEW relation \in EvidenceRelation,
             evidence_linked(c, p, relation)
      PROVE  GTypeOK'
  BY <1>5 DEF evidence_linked, GTypeOK, Edge
<1> QED
  BY <1>1, <1>2, <1>3, <1>4, <1>5 DEF GNext

\* Old edges keep their origin, the new one was checked.
LEMMA NextTraceable == GTypeOK /\ EvidenceIsTraceable /\ GNext => EvidenceIsTraceable'
<1> SUFFICES ASSUME GTypeOK, EvidenceIsTraceable, GNext, NEW e \in edges'
             PROVE  /\ passages'[e.passage] \in Queries
                    /\ queries'[passages'[e.passage]].claim = e.claim
                    /\ e.relation = "SUPPORTS" => queries'[passages'[e.passage]].intent = "support"
                    /\ e.relation \in {"CONTRADICTS", "BOUNDS", "PRECEDENT_FOR"} =>
                            queries'[passages'[e.passage]].intent = "counterevidence"
  BY DEF EvidenceIsTraceable
<1>1. CASE e \in edges
  BY <1>1, OriginIsKept DEF EvidenceIsTraceable
<1>2. CASE e \notin edges
  <2>1. PICK c \in Claims, p \in Passages, relation \in EvidenceRelation :
            evidence_linked(c, p, relation)
    BY <1>2 DEF GNext, claim_proposed, claim_transitioned, query_executed, passage_observed
  <2>2. e = [claim |-> c, passage |-> p, relation |-> relation]
    BY <1>2, <2>1 DEF evidence_linked
  <2>3. passages' = passages /\ queries' = queries
    BY <2>1 DEF evidence_linked
  <2>4. passages[p] \in Queries
    BY <2>1 DEF evidence_linked, Observed, GTypeOK
  <2>5. FoundFor(p, c) /\ IntentAdmits(p, relation)
    BY <2>1 DEF evidence_linked
  <2> QED
    BY <2>2, <2>3, <2>4, <2>5 DEF FoundFor, IntentAdmits
<1> QED
  BY <1>1, <1>2

\* A claim once proposed stays known, a query once executed stays executed.
LEMMA KnownIsKept ==
    ASSUME GTypeOK, GNext, NEW c \in Claims, Known(c) PROVE Known(c)'
<1>1. ASSUME NEW d \in Claims, claim_proposed(d) PROVE Known(c)'
  BY <1>1 DEF claim_proposed, Known, GTypeOK
<1>2. ASSUME NEW d \in Claims, NEW target \in ClaimState,
             NEW boundary \in Boundary \cup {"absent"}, claim_transitioned(d, target, boundary)
      PROVE  Known(c)'
  <2>1. target # "ABSENT"
    BY DEF ClaimState
  <2>2. claims'[c].state \in {target, claims[c].state}
    BY <1>2 DEF claim_transitioned, GTypeOK
  <2> QED
    BY <2>1, <2>2 DEF Known
<1> QED
  BY <1>1, <1>2 DEF GNext, query_executed, passage_observed, evidence_linked, Known

\* Queries and passages are added only for what exists, and that stays.
LEMMA NextNothingDangles == GTypeOK /\ NothingDangles /\ GNext => NothingDangles'
<1> SUFFICES ASSUME GTypeOK, NothingDangles, GNext PROVE NothingDangles'
  OBVIOUS
<1>0. GTypeOK'
  BY NextTypeOK
<1>1. ASSUME NEW q \in Queries, queries'[q].claim # NoClaim
      PROVE  claims'[queries'[q].claim].state # "ABSENT"
  <2>1. CASE queries'[q] = queries[q]
    <3>1. queries[q].claim \in Claims /\ Known(queries[q].claim)
      BY <1>1, <2>1 DEF GTypeOK, NothingDangles
    <3> QED
      BY <2>1, <3>1, KnownIsKept DEF Known
  <2>2. CASE queries'[q] # queries[q]
    <3>1. PICK c \in Claims, intent \in {"support", "counterevidence"} : query_executed(q, c, intent)
      <4>1. PICK c \in Claims, r \in Queries, intent \in {"support", "counterevidence"} :
                query_executed(r, c, intent)
        BY <2>2 DEF GNext, claim_proposed, claim_transitioned, evidence_linked, passage_observed
      <4>2. r = q
        BY <2>2, <4>1 DEF query_executed, GTypeOK
      <4> QED
        BY <4>1, <4>2
    <3>2. queries'[q].claim = c /\ Known(c)
      BY <3>1 DEF query_executed, GTypeOK
    <3> QED
      BY <3>2, KnownIsKept DEF Known
  <2> QED
    BY <2>1, <2>2
<1>2. ASSUME NEW q \in Queries, Executed(q) PROVE Executed(q)'
  <2>1. ASSUME NEW c \in Claims, NEW r \in Queries, NEW intent \in {"support", "counterevidence"},
               query_executed(r, c, intent)
        PROVE  Executed(q)'
    BY <1>2, <2>1, GraphAssumption DEF query_executed, Executed, GTypeOK
  <2> QED
    BY <1>2, <2>1
    DEF GNext, claim_proposed, claim_transitioned, evidence_linked, passage_observed, Executed
<1>3. ASSUME NEW p \in Passages, passages'[p] # NoQuery PROVE queries'[passages'[p]].claim # NoClaim
  <2>1. CASE passages'[p] = passages[p]
    <3>1. passages[p] \in Queries /\ Executed(passages[p])
      BY <1>3, <2>1 DEF GTypeOK, NothingDangles
    <3> QED
      BY <2>1, <3>1, <1>2 DEF Executed
  <2>2. CASE passages'[p] # passages[p]
    <3>1. PICK r \in Passages, q \in Queries : passage_observed(r, q)
      BY <2>2 DEF GNext, claim_proposed, claim_transitioned, evidence_linked, query_executed
    <3>2. passages'[p] = q /\ Executed(q)
      BY <2>2, <3>1 DEF passage_observed, GTypeOK
    <3> QED
      BY <3>2, <1>2 DEF Executed
  <2> QED
    BY <2>1, <2>2
<1> QED
  BY <1>1, <1>3 DEF NothingDangles, Known, Executed

\* What entered a state is still there, and what enters it now was checked.
LEMMA NextGrounded ==
    GTypeOK /\ EvidenceIsTraceable /\ DecisionIsGrounded /\ GNext => DecisionIsGrounded'
<1> SUFFICES ASSUME GTypeOK, EvidenceIsTraceable, DecisionIsGrounded, GNext, NEW c \in Claims
             PROVE  /\ claims'[c].state \in {"SUPPORTED", "SURVIVED"} =>
                            Found(c, {"SUPPORTS"}, "support")'
                    /\ claims'[c].state \in {"CHALLENGED", "SURVIVED"} => _has_counter_query(c)'
                    /\ claims'[c].state = "NARROWED" => Found(c, {"BOUNDS"}, "counterevidence")'
                    /\ claims'[c].state = "REFUTED" =>
                            Found(c, {"CONTRADICTS", "PRECEDENT_FOR"}, "counterevidence")'
                    /\ claims'[c].state \in {"SURVIVED", "NARROWED"} => claims'[c].boundary = "stated"
  BY DEF DecisionIsGrounded
<1>1. CASE claims'[c] = claims[c]
  BY <1>1, FoundIsKept, CounterQueryIsKept DEF DecisionIsGrounded
<1>2. CASE claims'[c] # claims[c]
  <2>1. CASE claim_proposed(c)
    <3>1. claims'[c].state = "PROPOSED"
      BY <2>1 DEF claim_proposed, GTypeOK
    <3> QED
      BY <3>1
  <2>2. ASSUME NEW target \in ClaimState, NEW boundary \in Boundary \cup {"absent"},
               claim_transitioned(c, target, boundary)
        PROVE  /\ claims'[c].state = target
               /\ boundary = "stated" => claims'[c].boundary = "stated"
               /\ EvidenceAdmits(c, target, boundary)
    BY <2>2 DEF claim_transitioned, GTypeOK
  <2>3. ASSUME NEW d \in Claims, claim_proposed(d) PROVE d = c
    BY <1>2, <2>3 DEF claim_proposed, GTypeOK
  <2>4. ASSUME NEW d \in Claims, NEW target \in ClaimState,
               NEW boundary \in Boundary \cup {"absent"}, claim_transitioned(d, target, boundary)
        PROVE  d = c
    BY <1>2, <2>4 DEF claim_transitioned, GTypeOK
  <2>5. \/ claim_proposed(c)
        \/ \E target \in ClaimState, boundary \in Boundary \cup {"absent"} :
                claim_transitioned(c, target, boundary)
    BY <1>2, <2>3, <2>4 DEF GNext, query_executed, passage_observed, evidence_linked
  <2>6. ASSUME NEW target \in ClaimState, NEW boundary \in Boundary \cup {"absent"},
               claim_transitioned(c, target, boundary)
        PROVE  /\ target \in {"SUPPORTED", "SURVIVED"} => Found(c, {"SUPPORTS"}, "support")
               /\ target \in {"CHALLENGED", "SURVIVED"} => _has_counter_query(c)
               /\ target = "NARROWED" => Found(c, {"BOUNDS"}, "counterevidence")
               /\ target = "REFUTED" =>
                        Found(c, {"CONTRADICTS", "PRECEDENT_FOR"}, "counterevidence")
               /\ target \in {"SURVIVED", "NARROWED"} => boundary = "stated"
    BY <2>2, <2>6, RelationIsFound DEF EvidenceAdmits
  <2>7. ASSUME NEW target \in ClaimState, NEW boundary \in Boundary \cup {"absent"},
               claim_transitioned(c, target, boundary)
        PROVE  /\ target \in {"SUPPORTED", "SURVIVED"} => Found(c, {"SUPPORTS"}, "support")'
               /\ target \in {"CHALLENGED", "SURVIVED"} => _has_counter_query(c)'
               /\ target = "NARROWED" => Found(c, {"BOUNDS"}, "counterevidence")'
               /\ target = "REFUTED" =>
                        Found(c, {"CONTRADICTS", "PRECEDENT_FOR"}, "counterevidence")'
    BY <2>6, <2>7, FoundIsKept, CounterQueryIsKept
  <2>8. PICK target \in ClaimState, boundary \in Boundary \cup {"absent"} :
            \/ claim_proposed(c) \/ claim_transitioned(c, target, boundary)
    BY <2>5 DEF ClaimState, Boundary
  <2>9. CASE claim_transitioned(c, target, boundary)
    BY <2>2, <2>6, <2>7, <2>9
  <2> QED
    BY <2>1, <2>8, <2>9
<1> QED
  BY <1>1, <1>2

\* The invariant holds in every graph that events build.
THEOREM GraphInvariance == GSpec => []GInv
<1>1. GInit => GInv
  BY InitGInv
<1>2. GInv /\ [GNext]_gvars => GInv'
  <2> SUFFICES ASSUME GInv, [GNext]_gvars PROVE GInv'
    OBVIOUS
  <2>1. CASE GNext
    BY <2>1, NextTypeOK, NextTraceable, NextNothingDangles, NextGrounded DEF GInv
  <2>2. CASE UNCHANGED gvars
    BY <2>2 DEF gvars, GInv, GTypeOK, EvidenceIsTraceable, NothingDangles, Known, Executed,
               DecisionIsGrounded, Found, _has_counter_query
  <2> QED
    BY <2>1, <2>2
<1> QED
  BY <1>1, <1>2, PTL DEF GSpec

\* Every edge leads to a passage, a query of the right intent, and its own claim.
THEOREM EvidenceTraceability == GSpec => []EvidenceIsTraceable
  BY GraphInvariance, PTL DEF GInv

\* Every decided claim keeps the evidence that its state demands.
THEOREM DecisionsAreGrounded == GSpec => []DecisionIsGrounded
  BY GraphInvariance, PTL DEF GInv

-----------------------------------------------------------------------------
(***************************************************************************)
(* Finality.                                                               *)
(***************************************************************************)

\* No event changes a decided claim.
LEMMA TerminalIsKept ==
    ASSUME GTypeOK, [GNext]_gvars, NEW c \in Claims, claims[c].state \in TERMINAL_STATES
    PROVE  claims'[c] = claims[c]
<1>1. ALLOWED_TRANSITIONS(claims[c].state) = {}
  BY DEF ALLOWED_TRANSITIONS, TERMINAL_STATES
<1>2. Known(c)
  BY DEF Known, TERMINAL_STATES
<1>3. ASSUME NEW d \in Claims, claim_proposed(d) PROVE claims'[c] = claims[c]
  BY <1>2, <1>3 DEF claim_proposed, GTypeOK
<1>4. ASSUME NEW d \in Claims, NEW target \in ClaimState,
             NEW boundary \in Boundary \cup {"absent"}, claim_transitioned(d, target, boundary)
      PROVE  claims'[c] = claims[c]
  <2>1. d # c
    BY <1>1, <1>4 DEF claim_transitioned
  <2> QED
    BY <1>4, <2>1 DEF claim_transitioned, GTypeOK
<1> QED
  BY <1>3, <1>4 DEF GNext, gvars, query_executed, passage_observed, evidence_linked

\* Decisions are final, and so is the verdict of the publication gate as long as no
\* claim is added.
THEOREM DecisionsAreFinal == GSpec => DecisionIsFinal
<1> DEFINE A == /\ \A c \in Claims : claims[c].state \in TERMINAL_STATES => claims'[c] = claims[c]
                /\ Publishable /\ {c \in Claims : Known(c)}' = {c \in Claims : Known(c)}
                        => Publishable'
<1>1. GInv /\ [GNext]_gvars => A
  <2> SUFFICES ASSUME GInv, [GNext]_gvars PROVE A
    OBVIOUS
  <2>1. GTypeOK
    BY DEF GInv
  <2>2. \A c \in Claims : claims[c].state \in TERMINAL_STATES => claims'[c] = claims[c]
    BY <2>1, TerminalIsKept
  <2>3. ASSUME Publishable, {c \in Claims : Known(c)}' = {c \in Claims : Known(c)}
        PROVE  Publishable'
    <3>1. \A c \in Claims : claims'[c].state # "ABSENT" <=> claims[c].state # "ABSENT"
      BY <2>3 DEF Known
    <3> QED
      BY <2>2, <2>3, <3>1 DEF Publishable, Known
  <2> QED
    BY <2>2, <2>3
<1>2. []GInv /\ [][GNext]_gvars => [][A]_gvars
  BY <1>1, PTL
<1> QED
  BY <1>2, GraphInvariance, PTL DEF GSpec, DecisionIsFinal
=============================================================================
