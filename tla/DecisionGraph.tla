---------------------------- MODULE DecisionGraph ----------------------------
(***************************************************************************)
(* The claim-evidence decision graph of src/src/evidence/graph.py, as the  *)
(* projection of a job's event ledger: one action per event type.  An      *)
(* event that breaks a rule raises GraphInvariantError and the projection  *)
(* fails as a whole, so it is no step.  Who appends the events, and in     *)
(* which order, is left open: every order the rules admit is considered.   *)
(***************************************************************************)
EXTENDS FiniteSets

CONSTANTS Claims, Queries, Passages, NoClaim, NoQuery

ASSUME GraphAssumption == NoClaim \notin Claims /\ NoQuery \notin Queries

VARIABLES
    claims,      \* claim_id -> state and boundary
    queries,     \* query_id -> claim and intent
    passages,    \* passage_id -> the query that found it
    edges        \* the evidence edges

gvars == <<claims, queries, passages, edges>>

ClaimState == {"PROPOSED", "SUPPORTED", "CHALLENGED", "SURVIVED", "NARROWED",
               "REFUTED", "UNRESOLVED"}

EvidenceRelation == {"SUPPORTS", "CONTRADICTS", "BOUNDS", "PRECEDENT_FOR", "CHECKED"}

TERMINAL_STATES == {"SURVIVED", "NARROWED", "REFUTED", "UNRESOLVED"}

\* Mutant: a decided claim may be challenged again.
ALLOWED_TRANSITIONS_REOPENED(state) ==
    CASE state = "PROPOSED"   -> {"SUPPORTED", "CHALLENGED", "UNRESOLVED"}
      [] state = "SUPPORTED"  -> {"CHALLENGED", "UNRESOLVED"}
      [] state = "CHALLENGED" -> TERMINAL_STATES
      [] OTHER                -> {"CHALLENGED"}

ALLOWED_TRANSITIONS(state) ==
    CASE state = "PROPOSED"   -> {"SUPPORTED", "CHALLENGED", "UNRESOLVED"}
      [] state = "SUPPORTED"  -> {"CHALLENGED", "UNRESOLVED"}
      [] state = "CHALLENGED" -> TERMINAL_STATES
      [] OTHER                -> {}

(***************************************************************************)
(* A boundary is empty, blank or says something; an event may also carry   *)
(* none, which keeps the old one.  (A null one becomes the string "None"   *)
(* and so says something.)                                                 *)
(***************************************************************************)
Boundary == {"empty", "blank", "stated"}

Edge == [claim: Claims, passage: Passages, relation: EvidenceRelation]

GInit ==
    /\ claims = [c \in Claims |-> [state |-> "ABSENT", boundary |-> "empty"]]
    /\ queries = [q \in Queries |-> [claim |-> NoClaim, intent |-> "support"]]
    /\ passages = [p \in Passages |-> NoQuery]
    /\ edges = {}

Known(c) == claims[c].state # "ABSENT"

Executed(q) == queries[q].claim # NoClaim

Observed(p) == passages[p] # NoQuery

-----------------------------------------------------------------------------
(***************************************************************************)
(* The rules.                                                              *)
(***************************************************************************)

_relations(c) == {e.relation : e \in {e \in edges : e.claim = c}}

_has_counter_query(c) ==
    \E q \in Queries : queries[q].claim = c /\ queries[q].intent = "counterevidence"

\* Mutant: any observed passage will do.
FoundForAny(p, c) == Observed(p)

\* The passage was found for this claim.
FoundFor(p, c) == queries[passages[p]].claim = c

\* Support comes from support queries, objections from counterevidence queries.
IntentAdmits(p, relation) ==
    /\ relation = "SUPPORTS" => queries[passages[p]].intent = "support"
    /\ relation \in {"CONTRADICTS", "BOUNDS", "PRECEDENT_FOR"} =>
            queries[passages[p]].intent = "counterevidence"

\* Mutant: SURVIVED looks at the support only.
EvidenceAdmitsUnchallenged(c, target, boundary) ==
    /\ target \in {"SUPPORTED", "SURVIVED"} => "SUPPORTS" \in _relations(c)
    /\ target = "NARROWED" => "BOUNDS" \in _relations(c)
    /\ target \in {"SURVIVED", "NARROWED"} => boundary = "stated"
    /\ target = "REFUTED" => {"CONTRADICTS", "PRECEDENT_FOR"} \cap _relations(c) # {}

\* What a claim needs before it may enter a state.
EvidenceAdmits(c, target, boundary) ==
    /\ target = "SUPPORTED" => "SUPPORTS" \in _relations(c)
    /\ target = "CHALLENGED" => _has_counter_query(c)
    /\ target = "SURVIVED" => "SUPPORTS" \in _relations(c) /\ _has_counter_query(c)
    /\ target = "NARROWED" => "BOUNDS" \in _relations(c)
    /\ target \in {"SURVIVED", "NARROWED"} => boundary = "stated"
    /\ target = "REFUTED" => {"CONTRADICTS", "PRECEDENT_FOR"} \cap _relations(c) # {}

-----------------------------------------------------------------------------
(***************************************************************************)
(* The handlers of apply.                                                  *)
(***************************************************************************)

claim_proposed(c) ==
    /\ ~Known(c)
    /\ claims' = [claims EXCEPT ![c] = [state |-> "PROPOSED", boundary |-> "empty"]]
    /\ UNCHANGED <<queries, passages, edges>>

query_executed(q, c, intent) ==
    /\ Known(c)
    /\ ~Executed(q)
    /\ queries' = [queries EXCEPT ![q] = [claim |-> c, intent |-> intent]]
    /\ UNCHANGED <<claims, passages, edges>>

passage_observed(p, q) ==
    /\ Executed(q)
    /\ ~Observed(p)
    /\ passages' = [passages EXCEPT ![p] = q]
    /\ UNCHANGED <<claims, queries, edges>>

evidence_linked(c, p, relation) ==
    /\ Known(c)
    /\ Observed(p)
    /\ FoundFor(p, c)
    /\ IntentAdmits(p, relation)
    /\ [claim |-> c, passage |-> p, relation |-> relation] \notin edges
    /\ edges' = edges \cup {[claim |-> c, passage |-> p, relation |-> relation]}
    /\ UNCHANGED <<claims, queries, passages>>

\* boundary = "absent" stands for an event without the field.
claim_transitioned(c, target, boundary) ==
    /\ target \in ALLOWED_TRANSITIONS(claims[c].state)
    /\ EvidenceAdmits(c, target, boundary)
    /\ claims' = [claims EXCEPT
            ![c] = [state |-> target, boundary |-> IF boundary = "absent" THEN @.boundary ELSE boundary]]
    /\ UNCHANGED <<queries, passages, edges>>

GNext ==
    \/ \E c \in Claims :
        \/ claim_proposed(c)
        \/ \E q \in Queries, intent \in {"support", "counterevidence"} :
                query_executed(q, c, intent)
        \/ \E p \in Passages, relation \in EvidenceRelation : evidence_linked(c, p, relation)
        \/ \E target \in ClaimState, boundary \in Boundary \cup {"absent"} :
                claim_transitioned(c, target, boundary)
    \/ \E p \in Passages, q \in Queries : passage_observed(p, q)

GSpec == GInit /\ [][GNext]_gvars

(***************************************************************************)
(* validate_for_publication finds no issue.                                *)
(***************************************************************************)
Publishable ==
    /\ \E c \in Claims : Known(c)
    /\ \A c \in Claims : Known(c) =>
        /\ claims[c].state \in TERMINAL_STATES
        /\ claims[c].state \in {"SURVIVED", "NARROWED"} => claims[c].boundary # "empty"

-----------------------------------------------------------------------------
(***************************************************************************)
(* Properties.                                                             *)
(***************************************************************************)

\* Type invariant of the projection.
GTypeOK ==
    /\ claims \in [Claims -> [state: ClaimState \cup {"ABSENT"}, boundary: Boundary]]
    /\ queries \in [Queries -> [claim: Claims \cup {NoClaim},
                                intent: {"support", "counterevidence"}]]
    /\ passages \in [Passages -> Queries \cup {NoQuery}]
    /\ edges \subseteq Edge

\* Every piece of evidence can be traced: edge to passage to query to the claim the
\* edge is about, and the query asked for that kind of evidence.
EvidenceIsTraceable ==
    \A e \in edges :
        /\ passages[e.passage] \in Queries
        /\ queries[passages[e.passage]].claim = e.claim
        /\ e.relation = "SUPPORTS" => queries[passages[e.passage]].intent = "support"
        /\ e.relation \in {"CONTRADICTS", "BOUNDS", "PRECEDENT_FOR"} =>
                queries[passages[e.passage]].intent = "counterevidence"

\* Nobody hangs in the air: a query or an edge belongs to a proposed claim.
NothingDangles ==
    /\ \A q \in Queries : queries[q].claim # NoClaim => Known(queries[q].claim)
    /\ \A p \in Passages : passages[p] # NoQuery => Executed(passages[p])

\* Some edge links to the claim a passage of that kind, found by such a query.
Found(c, relations, intent) ==
    \E e \in edges : /\ e.claim = c /\ e.relation \in relations
                     /\ queries[passages[e.passage]].intent = intent

\* A decision rests on evidence of its kind, found by a query of the right intent for
\* this very claim: the state column is checked against passages and queries, and it
\* holds for ever after, not only when the transition was admitted.
DecisionIsGrounded ==
    \A c \in Claims :
        /\ claims[c].state \in {"SUPPORTED", "SURVIVED"} => Found(c, {"SUPPORTS"}, "support")
        /\ claims[c].state \in {"CHALLENGED", "SURVIVED"} => _has_counter_query(c)
        /\ claims[c].state = "NARROWED" => Found(c, {"BOUNDS"}, "counterevidence")
        /\ claims[c].state = "REFUTED" =>
                Found(c, {"CONTRADICTS", "PRECEDENT_FOR"}, "counterevidence")
        /\ claims[c].state \in {"SURVIVED", "NARROWED"} => claims[c].boundary = "stated"

\* A decided claim is decided for good: its state and its boundary never change, so
\* a graph that passed the publication gate still passes it after more evidence.
DecisionIsFinal ==
    [][/\ \A c \in Claims : claims[c].state \in TERMINAL_STATES => claims'[c] = claims[c]
       /\ Publishable /\ {c \in Claims : Known(c)}' = {c \in Claims : Known(c)} => Publishable']_gvars

\* The documented meaning of SURVIVED: no direct counterexample in the evidence set.
SurvivedHasNoCounterexample ==
    \A c \in Claims : claims[c].state = "SURVIVED" => "CONTRADICTS" \notin _relations(c)
=============================================================================
