---------------------------- MODULE PolicyStore ----------------------------
(***************************************************************************)
(* The policy memory of src/src/learning/policy_store.py: strategies, the  *)
(* tasks they were applied to, the outcomes credited to an application,    *)
(* the interventions bound to the places of an ordered run, and an outbox  *)
(* of audit events written in the same transaction as what they report.    *)
(* Every method that writes is one BEGIN IMMEDIATE transaction and so one  *)
(* step; one that raises changes nothing.  One tenant, one run, one method.*)
(***************************************************************************)
EXTENDS Naturals, FiniteSets, Sequences, SequencesExt

CONSTANTS
    Strategies,       \* normalised (kind, pattern) pairs: strategy_key
    Places,           \* sequence indices of the run, 1 .. n
    Family,           \* place -> task family
    MinEvaluations,
    Wilson,           \* <<successes, evaluations>> -> lower bound in thousandths
    Activation,       \* activation_lower_bound, in thousandths
    Suspension        \* suspension_lower_bound, in thousandths

\* Null values are outside their sets; the table of strategies is finite.
ASSUME StrategyAssumption == IsFiniteSet(Strategies) /\ "unbound" \notin Strategies
ASSUME ThresholdAssumption ==
    MinEvaluations \in Nat \ {0} /\ Suspension \in Nat /\ Activation \in Nat
    /\ Suspension <= Activation

VARIABLES
    strategies,       \* strategy -> row
    applications,     \* (place, strategy) pairs
    outcomes,         \* (place, strategy, success)
    interventions,    \* place -> bound strategies
    outbox            \* policy_outbox in order of creation

pvars == <<strategies, applications, outcomes, interventions, outbox>>

Unbound == {"unbound"}
NoStrategy == [status |-> "NONE", source |-> CHOOSE p \in Places : TRUE, created |-> 0]

PInit ==
    /\ strategies = [s \in Strategies |-> NoStrategy]
    /\ applications = {}
    /\ outcomes = {}
    /\ interventions = [p \in Places |-> Unbound]
    /\ outbox = <<>>

Stored(s) == strategies[s].status # "NONE"
SourceFamily(s) == Family[strategies[s].source]

Enqueued(key) == \E n \in 1 .. Len(outbox) : outbox[n].key = key

\* _enqueue: the key is UNIQUE, so a second event with it fails the whole
\* transaction.
Enqueue(keys) ==
    /\ \A n \in 1 .. Len(keys) : ~Enqueued(keys[n])
    /\ outbox' = outbox \o [n \in 1 .. Len(keys) |-> [key |-> keys[n], dispatched |-> FALSE]]

propose_strategy(s, place) ==
    /\ ~Stored(s)
    /\ strategies' = [strategies EXCEPT
                        ![s] = [status |-> "CANDIDATE", source |-> place,
                                created |-> Cardinality({t \in Strategies : Stored(t)}) + 1]]
    /\ Enqueue(<<<<"proposed", s>>>>)
    /\ UNCHANGED <<applications, outcomes, interventions>>

\* The key of an application is its place and strategy.
record_application(place, s) ==
    /\ Stored(s)
    /\ <<place, s>> \notin applications
    /\ applications' = applications \cup {<<place, s>>}
    /\ Enqueue(<<<<"applied", place, s>>>>)
    /\ UNCHANGED <<strategies, outcomes, interventions>>

application_has_outcome(place, s) == \E o \in outcomes : o[1] = place /\ o[2] = s

record_outcome(place, s, success) ==
    /\ <<place, s>> \in applications
    /\ ~application_has_outcome(place, s)
    /\ outcomes' = outcomes \cup {<<place, s, success>>}
    /\ Enqueue(<<<<"outcome", place, s>>>>)
    /\ UNCHANGED <<strategies, applications, interventions>>

\* _score_rows: only outcomes of tasks of another family count.
Credited(s) == {o \in outcomes : o[2] = s /\ Family[o[1]] # SourceFamily(s)}
Evaluations(s) == Cardinality(Credited(s))
Successes(s) == Cardinality({o \in Credited(s) : o[3]})
WilsonLower(s) == IF Evaluations(s) = 0 THEN 0 ELSE Wilson[<<Successes(s), Evaluations(s)>>]

TargetStatus(s) ==
    IF Evaluations(s) < MinEvaluations THEN "CANDIDATE"
    ELSE IF WilsonLower(s) >= Activation THEN "ACTIVE"
    ELSE IF WilsonLower(s) < Suspension THEN "SUSPENDED" ELSE "CANDIDATE"

Moving == {s \in Strategies : Stored(s) /\ strategies[s].status # TargetStatus(s)}

\* The key of a status event is the transition with its counts.
TransitionKey(s) ==
    <<"status", s, strategies[s].status, TargetStatus(s), Evaluations(s), Successes(s)>>

refresh_statuses ==
    /\ strategies' = [s \in Strategies |->
                        IF s \in Moving THEN [strategies[s] EXCEPT !.status = TargetStatus(s)]
                                        ELSE strategies[s]]
    /\ Enqueue(SetToSeq({TransitionKey(s) : s \in Moving}))
    /\ UNCHANGED <<applications, outcomes, interventions>>

-----------------------------------------------------------------------------
(***************************************************************************)
(* The recalls: which strategies a task of a family may be given.          *)
(***************************************************************************)
ActiveFor(family) ==
    {s \in Strategies : strategies[s].status = "ACTIVE" /\ SourceFamily(s) # family}

\* recall_active with limit 1: a best one.
recall_active(family) ==
    {s \in ActiveFor(family) : \A t \in ActiveFor(family) : WilsonLower(t) <= WilsonLower(s)}

\* recall_uncredited with limit 2: the most recent ones.
recall_uncredited(family) ==
    LET foreign == {s \in Strategies : Stored(s) /\ SourceFamily(s) # family}
    IN  {s \in foreign : Cardinality({t \in foreign :
                                        strategies[t].created > strategies[s].created}) < 2}

\* Candidates that were never applied to a task of the family.
Untried(family) ==
    {s \in Strategies : /\ strategies[s].status = "CANDIDATE"
                        /\ SourceFamily(s) # family
                        /\ \A a \in applications : a[2] = s => Family[a[1]] # family}

\* The one with the fewest evaluations, the oldest among those.
recall_candidate_for_evaluation(family) ==
    {s \in Untried(family) : \A t \in Untried(family) :
        \/ Evaluations(s) < Evaluations(t)
        \/ Evaluations(s) = Evaluations(t) /\ strategies[s].created <= strategies[t].created}

\* A place is bound once; the same binding again is no change.
bind_sequence_intervention(place, chosen) ==
    /\ interventions[place] = Unbound
    /\ \A s \in chosen : Stored(s)
    /\ interventions' = [interventions EXCEPT ![place] = chosen]
    /\ Enqueue(<<<<"bound", place>>>>)
    /\ UNCHANGED <<strategies, applications, outcomes>>

pending_events == {n \in 1 .. Len(outbox) : ~outbox[n].dispatched}

mark_dispatched(n) ==
    /\ outbox' = [outbox EXCEPT ![n].dispatched = TRUE]
    /\ UNCHANGED <<strategies, applications, outcomes, interventions>>
=============================================================================
