--------------------------- MODULE CircuitBreaker ---------------------------
(***************************************************************************)
(* PersistentCircuitBreaker (src/src/evaluation/circuit_breaker.py): one   *)
(* row shared by all processes, changed by BEGIN IMMEDIATE transactions.   *)
(*                                                                         *)
(* The timestamps opened_at and probe_started_at are only ever subtracted  *)
(* from "now", so the row keeps their ages in ticks; an age stops growing  *)
(* once every comparison with it is settled.  "now" is read before the     *)
(* transaction gets the database lock: d is the delay in between.          *)
(***************************************************************************)
EXTENDS Integers

CONSTANTS
    Operations,         \* operation ids
    NoOperation,        \* probe_operation_id IS NULL
    FailureThreshold,   \* failure_threshold
    RecoveryTimeout,    \* recovery_timeout_seconds in ticks
    ProbeTimeout,       \* probe_timeout_seconds in ticks
    LockWait            \* longest wait for the database lock in ticks

ASSUME CircuitAssumption ==
    /\ NoOperation \notin Operations
    /\ FailureThreshold \in Nat \ {0}
    /\ RecoveryTimeout \in Nat \ {0} /\ ProbeTimeout \in Nat \ {0}
    /\ LockWait \in Nat

VARIABLES
    circuit,            \* the row of circuit_breakers
    last_event          \* the newest row of circuit_events

cvars == <<circuit, last_event>>

Delays == 0 .. LockWait
OpenCap == RecoveryTimeout + LockWait
ProbeCap == ProbeTimeout + LockWait

CircuitRow == [state: {"CLOSED", "OPEN", "HALF_OPEN"}, failures: 0 .. FailureThreshold,
               open_age: 0 .. OpenCap, probe: Operations \cup {NoOperation},
               probe_age: 0 .. ProbeCap]

Closed == [state |-> "CLOSED", failures |-> 0, open_age |-> 0,
           probe |-> NoOperation, probe_age |-> 0]

CInit ==
    /\ circuit = Closed
    /\ last_event = [prior |-> "CLOSED", next |-> "CLOSED"]

\* _event: an audit row in the same transaction.
LogEvent(prior, next) == last_event' = [prior |-> prior, next |-> next]

\* Consecutive failures are only compared with the threshold: saturate there.
Bump(failures) == IF failures < FailureThreshold THEN failures + 1 ELSE failures

Opened(failures, d) ==
    [state |-> "OPEN", failures |-> failures, open_age |-> d,
     probe |-> NoOperation, probe_age |-> 0]

-----------------------------------------------------------------------------
(***************************************************************************)
(* before_call: three outcomes for the caller.                             *)
(***************************************************************************)

\* Mutant: a probe's lease never expires.
ProbeForever(d) == FALSE

ProbeOverdue(d) == circuit.probe_age - d >= ProbeTimeout

CooldownOver(d) == circuit.open_age - d >= RecoveryTimeout

\* A closed circuit admits the call.
AdmitClosed == circuit.state = "CLOSED" /\ UNCHANGED cvars

\* An open one admits a single probe once its cooldown is over.
AdmitProbe(op, d) ==
    /\ circuit.state = "OPEN"
    /\ CooldownOver(d)
    /\ circuit' = [circuit EXCEPT !.state = "HALF_OPEN", !.probe = op, !.probe_age = d]
    /\ LogEvent("OPEN", "HALF_OPEN")

\* Otherwise CircuitOpenError: cooling down, or a probe in flight ...
Reject(d) ==
    /\ \/ circuit.state = "OPEN" /\ ~CooldownOver(d)
       \/ circuit.state = "HALF_OPEN" /\ ~ProbeOverdue(d)
    /\ UNCHANGED cvars

\* Mutant: the expiry of a probe leaves no audit row.
ExpireProbeSilently(d) ==
    /\ circuit.state = "HALF_OPEN"
    /\ ProbeOverdue(d)
    /\ circuit' = Opened(circuit.failures, d)
    /\ UNCHANGED last_event

\* ... or a probe that never reported, which reopens the circuit.
ExpireProbe(d) ==
    /\ circuit.state = "HALF_OPEN"
    /\ ProbeOverdue(d)
    /\ circuit' = Opened(circuit.failures, d)
    /\ LogEvent("HALF_OPEN", "OPEN")

(***************************************************************************)
(* record_success and record_failure; the *Refused forms raise.            *)
(***************************************************************************)

ForeignProbe(op) == circuit.state = "HALF_OPEN" /\ circuit.probe # op

\* Mutant: a success closes an open circuit.
RecordSuccessAnytime(op) ==
    /\ ~ForeignProbe(op)
    /\ circuit' = Closed
    /\ IF circuit.state # "CLOSED" \/ circuit.failures # 0
       THEN LogEvent(circuit.state, "CLOSED")
       ELSE UNCHANGED last_event

RecordSuccess(op) ==
    /\ circuit.state # "OPEN"
    /\ ~ForeignProbe(op)
    /\ circuit' = Closed
    /\ IF circuit.state # "CLOSED" \/ circuit.failures # 0
       THEN LogEvent(circuit.state, "CLOSED")
       ELSE UNCHANGED last_event

SuccessRefused(op) ==
    /\ circuit.state = "OPEN" \/ ForeignProbe(op)
    /\ UNCHANGED cvars

AfterFailure(d) ==
    LET failures == Bump(circuit.failures)
    IN  IF circuit.state = "HALF_OPEN" \/ failures >= FailureThreshold
        THEN Opened(failures, d)
        ELSE [Closed EXCEPT !.failures = failures]

RecordFailure(op, d) ==
    \/ /\ circuit.state # "OPEN"
       /\ ~ForeignProbe(op)
       /\ circuit' = AfterFailure(d)
       /\ LogEvent(circuit.state, circuit'.state)
    \/ circuit.state = "OPEN" /\ UNCHANGED cvars

FailureRefused(op) == ForeignProbe(op) /\ UNCHANGED cvars

\* A tick of the clock.
CTick ==
    /\ circuit' = [circuit EXCEPT
            !.open_age = IF circuit.state = "OPEN" /\ @ < OpenCap THEN @ + 1 ELSE @,
            !.probe_age = IF circuit.state = "HALF_OPEN" /\ @ < ProbeCap THEN @ + 1 ELSE @]
    /\ UNCHANGED last_event

-----------------------------------------------------------------------------
(***************************************************************************)
(* The breaker under arbitrary callers: calls admitted at any earlier time *)
(* report at any later one, or never.  Fairness: the clock runs, and some  *)
(* caller keeps asking to be admitted.                                     *)
(***************************************************************************)
BeforeCall(op) ==
    \E d \in Delays : AdmitClosed \/ AdmitProbe(op, d) \/ Reject(d) \/ ExpireProbe(d)

Report(op) ==
    \/ RecordSuccess(op) \/ SuccessRefused(op) \/ FailureRefused(op)
    \/ \E d \in Delays : RecordFailure(op, d)

CNext == CTick \/ \E op \in Operations : BeforeCall(op) \/ Report(op)

CSpec == CInit /\ [][CNext]_cvars

CFairSpec == CSpec /\ WF_cvars(CTick) /\ WF_cvars(\E op \in Operations : BeforeCall(op))

-----------------------------------------------------------------------------
(***************************************************************************)
(* Properties.                                                             *)
(***************************************************************************)

\* Type invariant of the breaker's tables.
CTypeOK ==
    /\ circuit \in CircuitRow
    /\ last_event \in [prior: {"CLOSED", "OPEN", "HALF_OPEN"},
                       next: {"CLOSED", "OPEN", "HALF_OPEN"}]

\* The row is consistent: a probe is leased exactly while half-open, and the
\* circuit is closed exactly while it counts fewer failures than the threshold.
CircuitConsistent ==
    /\ circuit.state = "HALF_OPEN" <=> circuit.probe # NoOperation
    /\ circuit.state = "CLOSED" <=> circuit.failures < FailureThreshold

\* The audit log explains the state: replaying circuit_events gives the row, since
\* every event starts where the previous one ended.
AuditMatchesState == last_event.next = circuit.state

\* A circuit that tripped closes only through a probe: no straggler admitted before
\* it opened closes it, and it admits nobody before its cooldown is over, counted
\* from the failure or the lost probe that opened it.
ClosedOnlyByProbe ==
    [][/\ circuit.state = "OPEN" => circuit'.state # "CLOSED"
       /\ circuit.state = "OPEN" /\ circuit'.state = "HALF_OPEN" =>
            circuit.open_age >= RecoveryTimeout
       /\ circuit.state = "CLOSED" => circuit'.state # "HALF_OPEN"]_cvars

\* A probe whose process died does not wedge the circuit: half-open always ends.
ProbeNeverWedges == circuit.state = "HALF_OPEN" ~> circuit.state # "HALF_OPEN"
=============================================================================
