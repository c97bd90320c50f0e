------------------------ MODULE ModelTransportProofs ------------------------
(***************************************************************************)
(* The paid calls and the circuit breaker they go through.                 *)
(*                                                                         *)
(* First the circuit breaker for every threshold, timeout, lock wait and   *)
(* number of operations, under callers that report whenever they like.     *)
(* Then paid calls for any number of callers, operations, requests and     *)
(* transports, any budget, and a circuit breaker in any state: what the    *)
(* breaker does never matters, only that a call waits for it.              *)
(***************************************************************************)
EXTENDS ModelTransport, FiniteSetTheorems, TLAPS

(***************************************************************************)
(* The circuit breaker.                                                    *)
(***************************************************************************)

CInv == CTypeOK /\ CircuitConsistent /\ AuditMatchesState

\* The constants are numbers, and the caps leave room for every delay.
LEMMA Numbers ==
    /\ FailureThreshold \in Int /\ FailureThreshold > 0
    /\ RecoveryTimeout \in Int /\ ProbeTimeout \in Int
    /\ Delays \subseteq 0 .. OpenCap /\ Delays \subseteq 0 .. ProbeCap
    /\ 0 \in 0 .. OpenCap /\ 0 \in 0 .. ProbeCap
    /\ 0 \in 0 .. FailureThreshold /\ FailureThreshold \in 0 .. FailureThreshold
  BY CircuitAssumption DEF Delays, OpenCap, ProbeCap

\* The row of a closed circuit without failures.
LEMMA ClosedRow ==
    /\ Closed \in CircuitRow
    /\ Closed.state = "CLOSED" /\ Closed.probe = NoOperation /\ Closed.failures = 0
  BY Numbers DEF Closed, CircuitRow

\* The row that opening the circuit writes.
LEMMA OpenedRow ==
    ASSUME NEW failures \in 0 .. FailureThreshold, NEW d \in Delays
    PROVE  LET new == Opened(failures, d)
           IN  /\ new \in CircuitRow
               /\ new.state = "OPEN" /\ new.probe = NoOperation /\ new.failures = failures
  BY Numbers DEF Opened, CircuitRow

\* One more failure stays within the range, and below the threshold it counts.
LEMMA BumpRange ==
    ASSUME NEW failures \in 0 .. FailureThreshold
    PROVE  /\ Bump(failures) \in 0 .. FailureThreshold
           /\ failures = FailureThreshold => Bump(failures) = FailureThreshold
  BY Numbers DEF Bump

\* A row the breaker may be in: its part of the invariant.
GoodRow(row) ==
    /\ row \in CircuitRow
    /\ row.state = "HALF_OPEN" <=> row.probe # NoOperation
    /\ row.state = "CLOSED" <=> row.failures < FailureThreshold

\* The row record_failure writes.
LEMMA AfterFailureRow ==
    ASSUME CInv, circuit.state # "OPEN", NEW d \in Delays
    PROVE  /\ GoodRow(AfterFailure(d))
           /\ AfterFailure(d).state \in {"CLOSED", "OPEN"}
<1> DEFINE f == Bump(circuit.failures)
<1>1. circuit.failures \in 0 .. FailureThreshold
  BY DEF CInv, CTypeOK, CircuitRow
<1>2. f \in 0 .. FailureThreshold /\ f \in Int
  BY <1>1, BumpRange
<1>3. circuit.state = "HALF_OPEN" => f = FailureThreshold
  BY <1>1, BumpRange, Numbers DEF CInv, CircuitConsistent
<1> HIDE DEF f
<1>4. AfterFailure(d) = IF circuit.state = "HALF_OPEN" \/ f >= FailureThreshold
                        THEN Opened(f, d) ELSE [Closed EXCEPT !.failures = f]
  BY DEF AfterFailure, f
<1>5. CASE circuit.state = "HALF_OPEN" \/ f >= FailureThreshold
  <2>1. f = FailureThreshold
    BY <1>2, <1>3, <1>5, Numbers
  <2>2. AfterFailure(d) = Opened(f, d)
    BY <1>4, <1>5
  <2> QED
    BY <1>2, <2>1, <2>2, OpenedRow, Numbers DEF GoodRow
<1>6. CASE ~(circuit.state = "HALF_OPEN" \/ f >= FailureThreshold)
  <2>1. AfterFailure(d) = [Closed EXCEPT !.failures = f]
    BY <1>4, <1>6
  <2>2. [Closed EXCEPT !.failures = f] \in CircuitRow
    BY <1>2, ClosedRow DEF CircuitRow
  <2>3. f < FailureThreshold
    BY <1>2, <1>6, Numbers
  <2> QED
    BY <2>1, <2>2, <2>3, ClosedRow DEF GoodRow, CircuitRow
<1> QED
  BY <1>5, <1>6

\* A fresh breaker is closed.
LEMMA InitCInv == CInit => CInv
  BY ClosedRow, Numbers DEF CInit, CInv, CTypeOK, CircuitConsistent, AuditMatchesState

\* A step that writes a good row and an audit row that ends in its state.
LEMMA AuditedWrite ==
    ASSUME CInv, NEW new, GoodRow(new), circuit' = new,
           \/ LogEvent(circuit.state, new.state)
           \/ new.state = circuit.state /\ UNCHANGED last_event
    PROVE  CInv'
  BY DEF CInv, CTypeOK, CircuitConsistent, AuditMatchesState, GoodRow, LogEvent, CircuitRow

\* Ageing changes no field but the two ages, within their caps.
LEMMA TickStep == ASSUME CInv, CTick PROVE CInv'
<1> DEFINE oa == IF circuit.state = "OPEN" /\ circuit.open_age < OpenCap
                 THEN circuit.open_age + 1 ELSE circuit.open_age
           pa == IF circuit.state = "HALF_OPEN" /\ circuit.probe_age < ProbeCap
                 THEN circuit.probe_age + 1 ELSE circuit.probe_age
           new == [circuit EXCEPT !.open_age = oa, !.probe_age = pa]
<1>1. circuit \in CircuitRow /\ circuit.open_age \in 0 .. OpenCap /\ circuit.probe_age \in 0 .. ProbeCap
  BY DEF CInv, CTypeOK, CircuitRow
<1>2. oa \in 0 .. OpenCap
  BY <1>1, CircuitAssumption DEF OpenCap
<1>3. pa \in 0 .. ProbeCap
  BY <1>1, CircuitAssumption DEF ProbeCap
<1>4. circuit' = new /\ UNCHANGED last_event
  BY DEF CTick
<1> HIDE DEF oa, pa
<1>5. /\ new \in CircuitRow /\ new.state = circuit.state
      /\ new.probe = circuit.probe /\ new.failures = circuit.failures
  BY <1>1, <1>2, <1>3 DEF CircuitRow
<1> HIDE DEF new
<1>6. GoodRow(new)
  BY <1>5 DEF GoodRow, CInv, CircuitConsistent
<1> QED
  BY <1>4, <1>5, <1>6, AuditedWrite

\* before_call, whatever it answers.
LEMMA BeforeCallStep == ASSUME CInv, NEW op \in Operations, BeforeCall(op) PROVE CInv'
<1>0. circuit \in CircuitRow /\ GoodRow(circuit)
  BY DEF CInv, CTypeOK, CircuitConsistent, GoodRow
<1>1. CASE UNCHANGED cvars
  BY <1>1 DEF cvars, CInv, CTypeOK, CircuitConsistent, AuditMatchesState
<1>2. ASSUME NEW d \in Delays, AdmitProbe(op, d) PROVE CInv'
  <2> DEFINE new == [circuit EXCEPT !.state = "HALF_OPEN", !.probe = op, !.probe_age = d]
  <2>1. /\ new \in CircuitRow /\ new.state = "HALF_OPEN" /\ new.probe = op
        /\ new.failures = circuit.failures
    BY <1>0, Numbers DEF CircuitRow
  <2>2. circuit' = new /\ circuit.state = "OPEN" /\ LogEvent(circuit.state, "HALF_OPEN")
    BY <1>2 DEF AdmitProbe
  <2> HIDE DEF new
  <2>3. GoodRow(new)
    BY <1>0, <2>1, <2>2, CircuitAssumption DEF GoodRow
  <2> QED
    BY <2>1, <2>2, <2>3, AuditedWrite
<1>3. ASSUME NEW d \in Delays, ExpireProbe(d) PROVE CInv'
  <2> DEFINE new == Opened(circuit.failures, d)
  <2>1. circuit.failures \in 0 .. FailureThreshold
    BY <1>0 DEF CircuitRow
  <2>2. /\ new \in CircuitRow /\ new.state = "OPEN" /\ new.probe = NoOperation
        /\ new.failures = circuit.failures
    BY <2>1, OpenedRow
  <2> HIDE DEF new
  <2>3. circuit' = new /\ circuit.state = "HALF_OPEN" /\ LogEvent(circuit.state, "OPEN")
    BY <1>3 DEF ExpireProbe, new
  <2>4. GoodRow(new)
    BY <1>0, <2>2, <2>3 DEF GoodRow
  <2> QED
    BY <2>2, <2>3, <2>4, AuditedWrite
<1> QED
  BY <1>1, <1>2, <1>3 DEF BeforeCall, AdmitClosed, Reject

\* record_success and record_failure, accepted or refused.
LEMMA ReportStep == ASSUME CInv, NEW op \in Operations, Report(op) PROVE CInv'
<1>1. CASE UNCHANGED cvars
  BY <1>1 DEF cvars, CInv, CTypeOK, CircuitConsistent, AuditMatchesState
<1>2. CASE RecordSuccess(op)
  <2>1. GoodRow(Closed)
    BY ClosedRow, Numbers DEF GoodRow
  <2>2. circuit' = Closed
    BY <1>2 DEF RecordSuccess
  <2>3. \/ LogEvent(circuit.state, Closed.state)
        \/ Closed.state = circuit.state /\ UNCHANGED last_event
    BY <1>2, ClosedRow DEF RecordSuccess
  <2> QED
    BY <2>1, <2>2, <2>3, AuditedWrite
<1>3. ASSUME NEW d \in Delays, RecordFailure(op, d) PROVE CInv'
  <2>1. CASE circuit.state # "OPEN"
    <3>1. circuit' = AfterFailure(d) /\ LogEvent(circuit.state, AfterFailure(d).state)
      BY <1>3, <2>1 DEF RecordFailure
    <3> QED
      BY <2>1, <3>1, AfterFailureRow, AuditedWrite
  <2>2. CASE circuit.state = "OPEN"
    BY <1>1, <1>3, <2>2 DEF RecordFailure
  <2> QED
    BY <2>1, <2>2
<1> QED
  BY <1>1, <1>2, <1>3 DEF Report, SuccessRefused, FailureRefused

\* Theorem: rows are well typed and consistent, and the audit log explains them.
THEOREM CircuitInvariance == CSpec => []CInv
<1>1. CInv /\ [CNext]_cvars => CInv'
  <2> SUFFICES ASSUME CInv, [CNext]_cvars PROVE CInv'
    OBVIOUS
  <2>1. CASE UNCHANGED cvars
    BY <2>1 DEF cvars, CInv, CTypeOK, CircuitConsistent, AuditMatchesState
  <2>2. CASE CNext
    BY <2>2, TickStep, BeforeCallStep, ReportStep DEF CNext
  <2> QED
    BY <2>1, <2>2
<1> QED
  BY <1>1, InitCInv, PTL DEF CSpec

\* Theorem: a probe is leased exactly while the circuit is half-open, and it is closed
\* exactly while it counts fewer failures than the threshold.
THEOREM Consistency == CSpec => []CircuitConsistent
  BY CircuitInvariance, PTL DEF CInv

\* Theorem: the audit log always ends in the state of the row.
THEOREM AuditExplains == CSpec => []AuditMatchesState
  BY CircuitInvariance, PTL DEF CInv

-----------------------------------------------------------------------------
(***************************************************************************)
(* How the circuit leaves a state.                                         *)
(***************************************************************************)

\* What no step may do.
LawfulStep ==
    /\ circuit.state = "OPEN" => circuit'.state # "CLOSED"
    /\ circuit.state = "OPEN" /\ circuit'.state = "HALF_OPEN" =>
            circuit.open_age >= RecoveryTimeout
    /\ circuit.state = "CLOSED" => circuit'.state # "HALF_OPEN"

\* A step that keeps the state is lawful, and so is one that leaves HALF_OPEN.
LEMMA NextLawful == CInv /\ [CNext]_cvars => LawfulStep
<1> SUFFICES ASSUME CInv, [CNext]_cvars PROVE LawfulStep
  OBVIOUS
<1>0. circuit \in CircuitRow /\ circuit.open_age \in Int
  BY DEF CInv, CTypeOK, CircuitRow
<1>1. CASE circuit'.state = circuit.state
  BY <1>1 DEF LawfulStep
<1>2. CASE CTick
  <2>1. circuit'.state = circuit.state
    BY <1>0, <1>2 DEF CTick, CircuitRow
  <2> QED
    BY <1>1, <2>1
<1>3. ASSUME NEW op \in Operations, NEW d \in Delays, AdmitProbe(op, d) PROVE LawfulStep
  <2>1. circuit.state = "OPEN" /\ circuit'.state = "HALF_OPEN"
    BY <1>0, <1>3 DEF AdmitProbe, CircuitRow
  <2>2. d \in Int /\ d >= 0 /\ circuit.open_age - d >= RecoveryTimeout
    BY <1>3, CircuitAssumption DEF AdmitProbe, CooldownOver, Delays
  <2>3. circuit.open_age >= RecoveryTimeout
    BY <1>0, <2>2, Numbers
  <2> QED
    BY <2>1, <2>3 DEF LawfulStep
<1>4. ASSUME NEW d \in Delays, ExpireProbe(d) PROVE LawfulStep
  BY <1>4 DEF ExpireProbe, LawfulStep
<1>5. ASSUME NEW op \in Operations, RecordSuccess(op) PROVE LawfulStep
  <2>1. circuit.state # "OPEN" /\ circuit'.state = "CLOSED"
    BY <1>5, ClosedRow DEF RecordSuccess
  <2> QED
    BY <2>1 DEF LawfulStep
<1>6. ASSUME NEW op \in Operations, NEW d \in Delays, RecordFailure(op, d), circuit.state # "OPEN"
      PROVE  LawfulStep
  <2>1. circuit'.state \in {"CLOSED", "OPEN"}
    BY <1>6, AfterFailureRow DEF RecordFailure
  <2> QED
    BY <1>6, <2>1 DEF LawfulStep
<1>7. ASSUME NEW op \in Operations, NEW d \in Delays, RecordFailure(op, d), circuit.state = "OPEN"
      PROVE  LawfulStep
  BY <1>1, <1>7 DEF RecordFailure, cvars
<1>8. CASE UNCHANGED cvars
  BY <1>1, <1>8 DEF cvars
<1> QED
  BY <1>2, <1>3, <1>4, <1>5, <1>6, <1>7, <1>8
  DEF CNext, BeforeCall, Report, AdmitClosed, Reject, SuccessRefused, FailureRefused

\* Theorem: a tripped circuit closes only through a probe admitted after its cooldown.
THEOREM OnlyProbesClose == CSpec => ClosedOnlyByProbe
<1>1. CSpec => [][LawfulStep]_cvars
  BY NextLawful, CircuitInvariance, PTL DEF CSpec
<1> QED
  BY <1>1 DEF ClosedOnlyByProbe, LawfulStep

-----------------------------------------------------------------------------
(***************************************************************************)
(* Paid calls: their types, and the answer a caller holds.                 *)
(***************************************************************************)

PCs == {"idle", "lookup", "session", "admit", "reserve", "relook", "raced", "send",
        "receive", "failing", "succeed", "store", "reread", "paid", "raised", "stopped"}
CallRecord == [pc: PCs, op: Operations, hash: Hashes, answer: Int]
OpRecord == [status: Statuses, hash: Hashes, answer: Int]

MType ==
    /\ call \in [Callers -> CallRecord]
    /\ ops \in [Operations -> OpRecord]
    /\ sent \in [Operations -> Nat]
    /\ authorized \in [Operations -> Nat]
    /\ answers \in [Operations -> SUBSET Int]

\* The answer a caller is about to be given is the one the ledger holds.
HeldAnswer(c) ==
    call[c].pc \in {"raced", "paid"} =>
        ops[call[c].op].status = "COMPLETED" /\ call[c].answer = ops[call[c].op].answer

AnswerInv ==
    /\ OneAnswerForAll
    /\ \A c \in Callers : HeldAnswer(c)

TInv == MType /\ AnswerInv

-----------------------------------------------------------------------------
(***************************************************************************)
(* Local control.                                                          *)
(***************************************************************************)

\* A step of caller c leaves the other callers alone.
Only(c) ==
    /\ call' \in [Callers -> CallRecord]
    /\ \A b \in Callers : b # c => call'[b] = call[b]

\* The local variables of a call that is over.
LEMMA IdleType ==
    /\ IdleCall \in CallRecord
    /\ IdleCall.pc = "idle"
<1>1. (CHOOSE o \in Operations : TRUE) \in Operations /\ (CHOOSE h \in Hashes : TRUE) \in Hashes
  BY TransportAssumption
<1>2. -1 \in Int
  OBVIOUS
<1> QED
  BY <1>1, <1>2 DEF IdleCall, CallRecord, NoAnswer, PCs

\* Going on at pc keeps the other local variables.
LEMMA GotoEffect ==
    ASSUME MType, NEW c \in Callers, NEW pc \in PCs, Goto(c, pc)
    PROVE  /\ Only(c)
           /\ call'[c].pc = pc /\ call'[c].op = call[c].op
           /\ call'[c].hash = call[c].hash /\ call'[c].answer = call[c].answer
  BY DEF MType, Goto, Only, CallRecord

\* Taking over the answer of the row.
LEMMA AnsweredEffect ==
    ASSUME MType, NEW c \in Callers, NEW pc \in PCs, Answered(c, pc)
    PROVE  /\ Only(c)
           /\ call'[c].pc = pc /\ call'[c].op = call[c].op
           /\ call'[c].answer = ops[call[c].op].answer
<1>1. call[c] \in CallRecord /\ call[c].op \in Operations
  BY DEF MType, CallRecord
<1>2. ops[call[c].op].answer \in Int
  BY <1>1 DEF MType, OpRecord
<1> QED
  BY <1>1, <1>2 DEF MType, Answered, RowOf, Op, Only, CallRecord

\* The end of a call.
LEMMA ReturnEffect ==
    ASSUME MType, NEW c \in Callers, Return(c)
    PROVE  Only(c) /\ call'[c].pc = "idle"
  BY IdleType DEF MType, Return, Only

\* An exception ends the call or wakes its supervisor.
LEMMA RaiseEffect ==
    ASSUME MType, NEW c \in Callers, Raise(c)
    PROVE  /\ Only(c)
           /\ call'[c].pc \in {"idle", "raised"}
           /\ Supervised = {} => call'[c].pc = "idle"
<1> DEFINE pc == IF c \in Supervised THEN "raised" ELSE "idle"
           new == [IdleCall EXCEPT !.pc = pc]
<1>1. pc \in PCs /\ pc \in {"idle", "raised"} /\ (Supervised = {} => pc = "idle")
  <2>1. CASE c \in Supervised
    BY <2>1 DEF PCs
  <2>2. CASE c \notin Supervised
    BY <2>2 DEF PCs
  <2> QED
    BY <2>1, <2>2
<1> HIDE DEF pc
<1>2. new \in CallRecord /\ new.pc = pc
  BY <1>1, IdleType DEF CallRecord
<1>3. call' = [call EXCEPT ![c] = new]
  BY DEF Raise, pc
<1> HIDE DEF new
<1> QED
  BY <1>1, <1>2, <1>3 DEF MType, Only

-----------------------------------------------------------------------------
(***************************************************************************)
(* Steps of a caller that do not touch the operation ledger.               *)
(***************************************************************************)

Quiet(c) ==
    /\ Only(c)
    /\ call'[c].pc # "send"
    /\ Supervised = {} => call'[c].pc # "raised"
    /\ call'[c].pc \in {"raced", "paid"} =>
            /\ ops[call'[c].op].status = "COMPLETED"
            /\ call'[c].answer = ops[call'[c].op].answer
    /\ UNCHANGED <<ops, sent, authorized>>

\* The ways such a step continues.
LEMMA QuietWays ==
    ASSUME TInv, NEW c \in Callers, UNCHANGED <<ops, sent, authorized>>,
           \/ Raise(c)
           \/ Return(c)
           \/ \E pc \in PCs \ {"send", "raised", "raced", "paid"} : Goto(c, pc)
           \/ At(c, "raced") /\ Goto(c, "paid")
           \/ /\ Hit(RowOf(c), call[c].hash)
              /\ \E pc \in {"raced", "paid"} : Answered(c, pc)
    PROVE  Quiet(c)
<1> USE DEF TInv
<1>1. CASE Raise(c)
  BY <1>1, RaiseEffect DEF Quiet
<1>2. CASE Return(c)
  BY <1>2, ReturnEffect DEF Quiet
<1>3. ASSUME NEW pc \in PCs \ {"send", "raised", "raced", "paid"}, Goto(c, pc) PROVE Quiet(c)
  BY <1>3, GotoEffect DEF Quiet
<1>4. CASE At(c, "raced") /\ Goto(c, "paid")
  <2>1. "paid" \in PCs
    BY DEF PCs
  <2>2. /\ Only(c) /\ call'[c].pc = "paid" /\ call'[c].op = call[c].op
        /\ call'[c].answer = call[c].answer
    BY <1>4, <2>1, GotoEffect
  <2>3. ops[call[c].op].status = "COMPLETED" /\ call[c].answer = ops[call[c].op].answer
    BY <1>4 DEF AnswerInv, HeldAnswer, At
  <2> QED
    BY <2>2, <2>3 DEF Quiet
<1>5. ASSUME NEW pc \in {"raced", "paid"}, Hit(RowOf(c), call[c].hash), Answered(c, pc)
      PROVE  Quiet(c)
  <2>1. pc \in PCs
    BY DEF PCs
  <2>2. /\ Only(c) /\ call'[c].pc = pc /\ call'[c].op = call[c].op
        /\ call'[c].answer = ops[call[c].op].answer
    BY <1>5, <2>1, AnsweredEffect
  <2>3. ops[call[c].op].status = "COMPLETED"
    BY <1>5 DEF Hit, RowOf, Op
  <2> QED
    BY <2>2, <2>3 DEF Quiet
<1> QED
  BY <1>1, <1>2, <1>3, <1>4, <1>5

\* The places a caller goes on at.
LEMMA Places ==
    {"session", "admit", "reserve", "relook", "failing", "succeed", "store", "reread"}
        \subseteq PCs \ {"send", "raised", "raced", "paid"}
  BY DEF PCs

\* A new call.
LEMMA BeginQuiet ==
    ASSUME TInv, NEW c \in Callers, NEW o \in Operations, NEW h \in Requests[o], Begin(c, o, h)
    PROVE  Quiet(c) /\ UNCHANGED answers
<1>0. UNCHANGED <<ops, sent, authorized, answers>>
  BY DEF Begin, ledgerVars
<1>1. CASE Raise(c)
  BY <1>0, <1>1, QuietWays
<1>2. CASE ~Raise(c)
  <2> DEFINE new == [IdleCall EXCEPT !.pc = "lookup", !.op = o, !.hash = h]
  <2>1. h \in Hashes
    BY TransportAssumption
  <2>2. new \in CallRecord /\ new.pc = "lookup"
    BY <2>1, IdleType DEF CallRecord, PCs
  <2>3. call' = [call EXCEPT ![c] = new]
    BY <1>2 DEF Begin
  <2> HIDE DEF new
  <2> QED
    BY <1>0, <2>2, <2>3 DEF Quiet, Only, TInv, MType
<1> QED
  BY <1>1, <1>2

\* Every step of a call except reserving, sending, storing and delivering.
LEMMA StepQuiet ==
    ASSUME TInv, NEW c \in Callers,
           \/ Lookup(c) \/ Session(c) \/ Admit(c) \/ Relook(c) \/ Raced(c)
           \/ Receive(c) \/ Fail(c) \/ Succeed(c) \/ Reread(c) \/ Crash(c)
    PROVE  Quiet(c) /\ UNCHANGED answers
<1>0. UNCHANGED <<ops, sent, authorized, answers>>
  BY DEF Lookup, Session, Admit, Relook, Raced, Receive, Fail, Succeed, Reread, Crash, ledgerVars
<1>1. CASE Lookup(c)
  <2>1. CASE Miss(RowOf(c), call[c].hash)
    <3>0. ~Hit(RowOf(c), call[c].hash)
      BY <2>1 DEF Miss, Hit
    <3>1. Goto(c, IF transport = "opencode" THEN "session" ELSE "admit")
      BY <1>1, <2>1, <3>0 DEF Lookup
    <3>2. CASE transport = "opencode"
      BY <1>0, <3>1, <3>2, Places, QuietWays
    <3>3. CASE transport # "opencode"
      BY <1>0, <3>1, <3>3, Places, QuietWays
    <3> QED
      BY <3>2, <3>3
  <2>2. CASE ~Miss(RowOf(c), call[c].hash) /\ Hit(RowOf(c), call[c].hash)
    <3>1. Answered(c, "paid")
      BY <1>1, <2>2 DEF Lookup
    <3> QED
      BY <1>0, <2>2, <3>1, QuietWays
  <2>3. CASE ~Miss(RowOf(c), call[c].hash) /\ ~Hit(RowOf(c), call[c].hash)
    <3>1. Raise(c)
      BY <1>1, <2>3 DEF Lookup
    <3> QED
      BY <1>0, <3>1, QuietWays
  <2> QED
    BY <2>1, <2>2, <2>3
<1>2. CASE Session(c) \/ Admit(c)
  <2>1. Goto(c, "admit") \/ Goto(c, "reserve") \/ Raise(c)
    BY <1>2 DEF Session, Admit
  <2> QED
    BY <1>0, <2>1, Places, QuietWays
<1>3. CASE Relook(c)
  <2>1. (Hit(RowOf(c), call[c].hash) /\ Answered(c, "raced")) \/ Goto(c, "failing")
    BY <1>3 DEF Relook
  <2> QED
    BY <1>0, <2>1, Places, QuietWays
<1>4. CASE Raced(c)
  <2>1. (At(c, "raced") /\ Goto(c, "paid")) \/ Goto(c, "failing")
    BY <1>4 DEF Raced
  <2> QED
    BY <1>0, <2>1, Places, QuietWays
<1>5. CASE Receive(c)
  <2>1. CASE Goto(c, "succeed")
    BY <1>0, <2>1, Places, QuietWays
  <2>2. CASE call' = [call EXCEPT ![c].pc = "failing", ![c].answer = NoAnswer]
    <3>1. NoAnswer \in Int /\ "failing" \in PCs
      BY DEF NoAnswer, PCs
    <3>2. Only(c) /\ call'[c].pc = "failing"
      BY <2>2, <3>1 DEF TInv, MType, Only, CallRecord
    <3> QED
      BY <1>0, <3>2 DEF Quiet
  <2> QED
    BY <1>5, <2>1, <2>2 DEF Receive
<1>6. CASE Fail(c)
  BY <1>0, <1>6, QuietWays DEF Fail
<1>7. CASE Succeed(c)
  <2>1. Goto(c, "store") \/ Raise(c)
    BY <1>7 DEF Succeed
  <2> QED
    BY <1>0, <2>1, Places, QuietWays
<1>8. CASE Reread(c)
  <2>1. (Hit(RowOf(c), call[c].hash) /\ Answered(c, "paid")) \/ Raise(c)
    BY <1>8 DEF Reread
  <2> QED
    BY <1>0, <2>1, QuietWays
<1>9. CASE Crash(c)
  BY <1>0, <1>9, QuietWays DEF Crash
<1> QED
  BY <1>1, <1>2, <1>3, <1>4, <1>5, <1>6, <1>7, <1>8, <1>9

\* Delivering ends the call, with the ledger's answer or none.
LEMMA DeliverQuiet ==
    ASSUME TInv, NEW c \in Callers, Deliver(c)
    PROVE  /\ Quiet(c)
           /\ \/ UNCHANGED answers
              \/ /\ ops[call[c].op].status = "COMPLETED"
                 /\ answers' = [answers EXCEPT ![call[c].op] = @ \cup {ops[call[c].op].answer}]
<1>0. UNCHANGED <<ops, sent, authorized>>
  BY DEF Deliver
<1>1. Return(c) \/ Raise(c)
  BY DEF Deliver
<1>2. ops[call[c].op].status = "COMPLETED" /\ call[c].answer = ops[call[c].op].answer
  BY DEF Deliver, At, TInv, AnswerInv, HeldAnswer
<1>3. Quiet(c)
  BY <1>0, <1>1, QuietWays
<1> QED
  BY <1>2, <1>3 DEF Deliver, Op

-----------------------------------------------------------------------------
(***************************************************************************)
(* Steps that write the operation ledger.                                  *)
(***************************************************************************)

\* A completed operation is left alone.
CompletedKept == \A o \in Operations : ops[o].status = "COMPLETED" => ops'[o] = ops[o]

\* A write of the row of operation o.
RowWrite(o, new) ==
    /\ new \in OpRecord
    /\ ops[o].status # "COMPLETED"
    /\ ops' = [ops EXCEPT ![o] = new]

\* Such a write keeps the completed rows.
LEMMA RowWriteEffect ==
    ASSUME MType, NEW o \in Operations, NEW new, RowWrite(o, new)
    PROVE  /\ ops' \in [Operations -> OpRecord]
           /\ ops'[o] = new
           /\ \A p \in Operations : p # o => ops'[p] = ops[p]
           /\ CompletedKept
  BY DEF MType, RowWrite, CompletedKept

\* _reserve either takes a ticket and goes to send, or sends nothing.
LEMMA ReserveEffect ==
    ASSUME TInv, NEW c \in Callers, Reserve(c)
    PROVE  /\ UNCHANGED <<sent, authorized, answers>>
           /\ call[c].pc = "reserve"
           /\ \/ Quiet(c)
              \/ /\ Only(c) /\ call'[c].pc = "send" /\ call'[c].op = call[c].op
                 /\ ops[call[c].op].status \in {"NONE", "RETRY_AUTHORIZED"}
                 /\ \E new : RowWrite(call[c].op, new) /\ new.status = "PENDING"
<1> DEFINE o == call[c].op
           hash == call[c].hash
           new == [status |-> "PENDING", hash |-> hash, answer |-> NoAnswer]
<1>0. /\ o \in Operations /\ hash \in Hashes
      /\ UNCHANGED <<sent, authorized, answers>> /\ call[c].pc = "reserve"
  BY DEF Reserve, At, TInv, MType, CallRecord
<1>1. CASE Reservable(ops[o], hash)
  <2>1. ops' = [ops EXCEPT ![o] = new] /\ Goto(c, "send")
    BY <1>1 DEF Reserve, Op
  <2>2. "send" \in PCs
    BY DEF PCs
  <2>3. Only(c) /\ call'[c].pc = "send" /\ call'[c].op = call[c].op
    BY <2>1, <2>2, GotoEffect DEF TInv
  <2>4. ops[o].status \in {"NONE", "RETRY_AUTHORIZED"}
    BY <1>1 DEF Reservable, Miss
  <2>5. new \in OpRecord /\ new.status = "PENDING"
    BY <1>0 DEF OpRecord, Statuses, NoAnswer
  <2>6. RowWrite(o, new)
    BY <2>1, <2>4, <2>5 DEF RowWrite
  <2> QED
    BY <1>0, <2>3, <2>4, <2>5, <2>6
<1>2. CASE ~Reservable(ops[o], hash)
  <2>1. UNCHANGED ops /\ Goto(c, IF ops[o].hash = hash THEN "relook" ELSE "failing")
    BY <1>2 DEF Reserve, Op
  <2>2. CASE ops[o].hash = hash
    BY <1>0, <2>1, <2>2, Places, QuietWays
  <2>3. CASE ops[o].hash # hash
    BY <1>0, <2>1, <2>3, Places, QuietWays
  <2> QED
    BY <1>0, <2>2, <2>3
<1> QED
  BY <1>1, <1>2

\* Storing completes a PENDING row with the caller's answer, or nothing.
LEMMA StoreEffect ==
    ASSUME TInv, NEW c \in Callers, Store(c) \/ StoreStrict(c)
    PROVE  /\ UNCHANGED <<sent, authorized, answers>>
           /\ \/ Quiet(c)
              \/ /\ Only(c) /\ call'[c].pc \in {"reread", "paid"}
                 /\ call'[c].op = call[c].op /\ call'[c].answer = call[c].answer
                 /\ \E new : /\ RowWrite(call[c].op, new)
                             /\ new.status = "COMPLETED" /\ new.answer = call[c].answer
<1> DEFINE o == call[c].op
           new == [ops[o] EXCEPT !.status = "COMPLETED", !.answer = call[c].answer]
<1>0. /\ o \in Operations /\ ops[o] \in OpRecord /\ call[c].answer \in Int
      /\ UNCHANGED <<sent, authorized, answers>>
  BY DEF Store, StoreStrict, TInv, MType, CallRecord
<1>p. "reread" \in PCs /\ "paid" \in PCs
  BY DEF PCs
<1>1. CASE Storable(c)
  <2>1. ops' = Stored(c) /\ (Goto(c, "reread") \/ Goto(c, "paid"))
    BY <1>1 DEF Store, StoreStrict
  <2>2. ops' = [ops EXCEPT ![o] = new]
    BY <1>0, <2>1 DEF Stored, Op, TInv, MType
  <2>3. new \in OpRecord /\ new.status = "COMPLETED" /\ new.answer = call[c].answer
    BY <1>0 DEF OpRecord, Statuses
  <2>4. ops[o].status # "COMPLETED"
    BY <1>1 DEF Storable, RowOf, Op
  <2>5. RowWrite(o, new)
    BY <2>2, <2>3, <2>4 DEF RowWrite
  <2>6. /\ Only(c) /\ call'[c].pc \in {"reread", "paid"}
        /\ call'[c].op = call[c].op /\ call'[c].answer = call[c].answer
    BY <1>p, <2>1, GotoEffect DEF TInv
  <2> QED
    BY <1>0, <2>3, <2>5, <2>6
<1>2. CASE ~Storable(c)
  <2>1. UNCHANGED ops /\ (Goto(c, "reread") \/ Raise(c))
    BY <1>2 DEF Store, StoreStrict
  <2> QED
    BY <1>0, <2>1, Places, QuietWays
<1> QED
  BY <1>1, <1>2

\* reconcile_operation writes a PENDING row and no call.
LEMMA ReconcileEffect ==
    ASSUME TInv, NEW o \in Operations, Complete(o) \/ AuthorizeRetry(o) \/ Abandon(o)
    PROVE  /\ UNCHANGED <<call, sent, answers>>
           /\ ops[o].status = "PENDING"
           /\ \E new : /\ RowWrite(o, new)
                       /\ \/ UNCHANGED authorized /\ new.status \in {"COMPLETED", "ABANDONED"}
                          \/ /\ authorized' = [authorized EXCEPT ![o] = @ + 1]
                             /\ new.status = "RETRY_AUTHORIZED"
<1>0. ops[o] \in OpRecord /\ ops[o].status = "PENDING" /\ UNCHANGED <<call, sent, answers>>
  BY DEF Complete, AuthorizeRetry, Abandon, Reconcilable, TInv, MType
<1>1. CASE Complete(o)
  <2> DEFINE new == [ops[o] EXCEPT !.status = "COMPLETED", !.answer = Attested]
  <2>a. Attested \in Int
    BY DEF Attested
  <2>1. new \in OpRecord /\ new.status = "COMPLETED"
    BY <1>0, <2>a DEF OpRecord, Statuses
  <2>2. ops' = [ops EXCEPT ![o] = new] /\ UNCHANGED authorized
    BY <1>1 DEF Complete, TInv, MType
  <2>3. RowWrite(o, new)
    BY <1>0, <2>1, <2>2 DEF RowWrite
  <2> QED
    BY <1>0, <2>1, <2>2, <2>3
<1>2. CASE AuthorizeRetry(o)
  <2> DEFINE new == [ops[o] EXCEPT !.status = "RETRY_AUTHORIZED"]
  <2>1. new \in OpRecord /\ new.status = "RETRY_AUTHORIZED"
    BY <1>0 DEF OpRecord, Statuses
  <2>2. ops' = [ops EXCEPT ![o] = new] /\ authorized' = [authorized EXCEPT ![o] = @ + 1]
    BY <1>2 DEF AuthorizeRetry
  <2>3. RowWrite(o, new)
    BY <1>0, <2>1, <2>2 DEF RowWrite
  <2> QED
    BY <1>0, <2>1, <2>2, <2>3
<1>3. CASE Abandon(o)
  <2> DEFINE new == [ops[o] EXCEPT !.status = "ABANDONED"]
  <2>1. new \in OpRecord /\ new.status = "ABANDONED"
    BY <1>0 DEF OpRecord, Statuses
  <2>2. ops' = [ops EXCEPT ![o] = new] /\ UNCHANGED authorized
    BY <1>3 DEF Abandon
  <2>3. RowWrite(o, new)
    BY <1>0, <2>1, <2>2 DEF RowWrite
  <2> QED
    BY <1>0, <2>1, <2>2, <2>3
<1> QED
  BY <1>1, <1>2, <1>3

\* The supervisor's reconcile() leaves completed rows alone and sends nothing.
LEMMA SuperviseEffect ==
    ASSUME TInv, NEW c \in Callers, Supervise(c)
    PROVE  /\ UNCHANGED <<sent, authorized, answers>>
           /\ call[c].pc = "raised"
           /\ Only(c) /\ call'[c].pc \in {"idle", "stopped"}
           /\ ops' \in [Operations -> OpRecord] /\ CompletedKept
<1>1. \A o \in Operations : [ops[o] EXCEPT !.status = "RETRY_AUTHORIZED"] \in OpRecord
  BY DEF TInv, MType, OpRecord, Statuses
<1>2. ops' \in [Operations -> OpRecord] /\ CompletedKept
  BY <1>1 DEF Supervise, TInv, MType, CompletedKept
<1>p. "idle" \in PCs /\ "stopped" \in PCs
  BY DEF PCs
<1>3. Goto(c, "idle") \/ Goto(c, "stopped")
  <2>1. Goto(c, IF attempt[c] + 1 < MaxAttempts THEN "idle" ELSE "stopped")
    BY DEF Supervise
  <2>2. CASE attempt[c] + 1 < MaxAttempts
    BY <2>1, <2>2
  <2>3. CASE ~(attempt[c] + 1 < MaxAttempts)
    BY <2>1, <2>3
  <2> QED
    BY <2>2, <2>3
<1>4. Only(c) /\ call'[c].pc \in {"idle", "stopped"}
  BY <1>p, <1>3, GotoEffect DEF TInv
<1> QED
  BY <1>2, <1>4 DEF Supervise, At

-----------------------------------------------------------------------------
(***************************************************************************)
(* One answer for all.                                                     *)
(***************************************************************************)

\* As long as completed rows stay, the answers given and held stay right.
LEMMA AnswersKept ==
    ASSUME TInv, CompletedKept, NEW c \in Callers, Only(c) \/ UNCHANGED call, UNCHANGED answers,
           Only(c) => HeldAnswer(c)'
    PROVE  AnswerInv'
<1>1. OneAnswerForAll'
  BY DEF TInv, AnswerInv, OneAnswerForAll, CompletedKept
<1>2. ASSUME NEW b \in Callers, call'[b] = call[b] PROVE HeldAnswer(b)'
  <2>1. call[b].op \in Operations
    BY DEF TInv, MType, CallRecord
  <2>2. HeldAnswer(b)
    BY DEF TInv, AnswerInv
  <2> QED
    BY <1>2, <2>1, <2>2 DEF HeldAnswer, CompletedKept
<1>3. \A b \in Callers : HeldAnswer(b)'
  BY <1>2 DEF Only
<1> QED
  BY <1>1, <1>3 DEF AnswerInv

\* A quiet step keeps the invariant.
LEMMA QuietKeeps == ASSUME TInv, NEW c \in Callers, Quiet(c), UNCHANGED answers PROVE TInv'
<1>1. CompletedKept /\ HeldAnswer(c)' /\ Only(c)
  BY DEF Quiet, CompletedKept, HeldAnswer
<1>2. AnswerInv'
  BY <1>1, AnswersKept
<1> QED
  BY <1>1, <1>2 DEF TInv, MType, Quiet, Only

\* So does the delivery of an answer: the one the ledger holds.
LEMMA DeliverKeeps == ASSUME TInv, NEW c \in Callers, Deliver(c) PROVE TInv'
<1> DEFINE o == call[c].op
<1>0. Quiet(c) /\ o \in Operations /\ ops[o].answer \in Int
  BY DeliverQuiet DEF TInv, MType, CallRecord, OpRecord
<1>1. CASE UNCHANGED answers
  BY <1>0, <1>1, QuietKeeps
<1>2. CASE /\ ops[o].status = "COMPLETED"
           /\ answers' = [answers EXCEPT ![o] = @ \cup {ops[o].answer}]
  <2>1. answers' \in [Operations -> SUBSET Int]
    BY <1>0, <1>2 DEF TInv, MType
  <2>2. UNCHANGED ops /\ Only(c)
    BY <1>0 DEF Quiet
  <2>3. ASSUME NEW p \in Operations, answers'[p] # {}
        PROVE  ops[p].status = "COMPLETED" /\ answers'[p] = {ops[p].answer}
    <3>1. CASE p = o
      BY <1>0, <1>2, <3>1 DEF TInv, MType, AnswerInv, OneAnswerForAll
    <3>2. CASE p # o
      BY <1>0, <1>2, <2>3, <3>2 DEF TInv, MType, AnswerInv, OneAnswerForAll
    <3> QED
      BY <3>1, <3>2
  <2>4. OneAnswerForAll'
    BY <2>2, <2>3 DEF OneAnswerForAll
  <2>5. \A b \in Callers : HeldAnswer(b)'
    BY <1>0, <2>2 DEF Quiet, Only, HeldAnswer, TInv, AnswerInv
  <2> QED
    BY <1>0, <2>1, <2>2, <2>4, <2>5 DEF TInv, MType, AnswerInv, Only, Quiet
<1> QED
  BY <1>1, <1>2, DeliverQuiet

\* The other steps.
LEMMA LoudKeeps ==
    ASSUME TInv, NEW c \in Callers,
           Reserve(c) \/ Send(c) \/ Store(c) \/ StoreStrict(c) \/ Supervise(c)
    PROVE  TInv' /\ CompletedKept
<1>0. call[c].op \in Operations
  BY DEF TInv, MType, CallRecord
<1>q. ASSUME Quiet(c), UNCHANGED answers PROVE TInv' /\ CompletedKept
  BY <1>q, QuietKeeps DEF Quiet, CompletedKept
<1>w. ASSUME NEW new, RowWrite(call[c].op, new), Only(c),
             UNCHANGED <<sent, authorized, answers>>, HeldAnswer(c)'
      PROVE  TInv' /\ CompletedKept
  <2>1. ops' \in [Operations -> OpRecord] /\ CompletedKept
    BY <1>0, <1>w, RowWriteEffect DEF TInv
  <2>2. AnswerInv'
    BY <1>w, <2>1, AnswersKept
  <2> QED
    BY <1>w, <2>1, <2>2 DEF TInv, MType, Only
<1>1. CASE Reserve(c)
  <2>1. CASE Quiet(c)
    BY <1>1, <1>q, <2>1, ReserveEffect
  <2>2. CASE ~Quiet(c)
    <3>1. PICK new : RowWrite(call[c].op, new)
      BY <1>1, <2>2, ReserveEffect
    <3>2. Only(c) /\ HeldAnswer(c)' /\ UNCHANGED <<sent, authorized, answers>>
      BY <1>1, <2>2, ReserveEffect DEF HeldAnswer
    <3> QED
      BY <1>w, <3>1, <3>2
  <2> QED
    BY <2>1, <2>2
<1>2. CASE Send(c)
  <2>1. sent[call[c].op] \in Nat /\ sent[call[c].op] + 1 \in Nat /\ sent[call[c].op] + 1 \in Int
    BY <1>0 DEF TInv, MType
  <2>2. sent' \in [Operations -> Nat]
    BY <1>2, <2>1 DEF Send, Op, TInv, MType
  <2>3. "receive" \in PCs
    BY DEF PCs
  <2>4. Only(c) /\ call'[c].pc = "receive"
    BY <1>2, <2>1, <2>3 DEF Send, Op, TInv, MType, Only, CallRecord
  <2>5. CompletedKept /\ UNCHANGED <<ops, authorized, answers>> /\ HeldAnswer(c)'
    BY <1>2, <2>4 DEF Send, CompletedKept, HeldAnswer
  <2>6. AnswerInv'
    BY <2>4, <2>5, AnswersKept
  <2> QED
    BY <2>2, <2>4, <2>5, <2>6 DEF TInv, MType, Only
<1>3. CASE Store(c) \/ StoreStrict(c)
  <2>1. CASE Quiet(c)
    BY <1>3, <1>q, <2>1, StoreEffect
  <2>2. CASE ~Quiet(c)
    <3>1. PICK new : /\ RowWrite(call[c].op, new)
                     /\ new.status = "COMPLETED" /\ new.answer = call[c].answer
      BY <1>3, <2>2, StoreEffect
    <3>2. /\ Only(c) /\ call'[c].op = call[c].op /\ call'[c].answer = call[c].answer
          /\ UNCHANGED <<sent, authorized, answers>>
      BY <1>3, <2>2, StoreEffect
    <3>3. ops'[call[c].op] = new
      BY <1>0, <3>1, RowWriteEffect DEF TInv
    <3>4. HeldAnswer(c)'
      BY <3>1, <3>2, <3>3 DEF HeldAnswer
    <3> QED
      BY <1>w, <3>1, <3>2, <3>4
  <2> QED
    BY <2>1, <2>2
<1>4. CASE Supervise(c)
  <2>1. /\ UNCHANGED <<sent, authorized, answers>> /\ Only(c)
        /\ ops' \in [Operations -> OpRecord] /\ CompletedKept /\ HeldAnswer(c)'
    BY <1>4, SuperviseEffect DEF HeldAnswer
  <2>2. AnswerInv'
    BY <2>1, AnswersKept
  <2> QED
    BY <2>1, <2>2 DEF TInv, MType, Only
<1> QED
  BY <1>1, <1>2, <1>3, <1>4

\* An operator's reconciliation.
LEMMA ReconcileKeeps ==
    ASSUME TInv, NEW o \in Operations, Complete(o) \/ AuthorizeRetry(o) \/ Abandon(o)
    PROVE  TInv' /\ CompletedKept
<1>1. PICK new : /\ RowWrite(o, new)
                 /\ \/ UNCHANGED authorized
                    \/ authorized' = [authorized EXCEPT ![o] = @ + 1]
  BY ReconcileEffect
<1>2. UNCHANGED <<call, sent, answers>>
  BY ReconcileEffect
<1>3. ops' \in [Operations -> OpRecord] /\ CompletedKept
  BY <1>1, RowWriteEffect DEF TInv
<1>4. authorized[o] + 1 \in Nat
  BY DEF TInv, MType
<1>5. authorized' \in [Operations -> Nat]
  BY <1>1, <1>4 DEF TInv, MType
<1>6. OneAnswerForAll'
  BY <1>2, <1>3 DEF TInv, AnswerInv, OneAnswerForAll, CompletedKept
<1>7. ASSUME NEW b \in Callers PROVE HeldAnswer(b)'
  <2>1. call[b].op \in Operations /\ HeldAnswer(b)
    BY DEF TInv, AnswerInv, MType, CallRecord
  <2> QED
    BY <1>2, <1>3, <2>1 DEF HeldAnswer, CompletedKept
<1> QED
  BY <1>2, <1>3, <1>5, <1>6, <1>7 DEF TInv, MType, AnswerInv

\* Every step keeps the invariant and the completed rows.
LEMMA NextKeeps == TInv /\ [TNext]_tvars => TInv' /\ CompletedKept
<1> SUFFICES ASSUME TInv, [TNext]_tvars PROVE TInv' /\ CompletedKept
  OBVIOUS
<1>1. CASE UNCHANGED <<ops, call, sent, authorized, answers>>
  BY <1>1 DEF TInv, MType, AnswerInv, OneAnswerForAll, HeldAnswer, CompletedKept
<1>2. ASSUME NEW c \in Callers, NEW o \in Operations, NEW h \in Requests[o], Begin(c, o, h)
      PROVE  TInv' /\ CompletedKept
  BY <1>2, BeginQuiet, QuietKeeps DEF Quiet, CompletedKept
<1>3. ASSUME NEW c \in Callers, Step(c) PROVE TInv' /\ CompletedKept
  BY <1>3, StepQuiet, QuietKeeps, DeliverKeeps, DeliverQuiet, LoudKeeps
  DEF Step, Quiet, CompletedKept
<1>4. ASSUME NEW c \in Callers, Crash(c) PROVE TInv' /\ CompletedKept
  BY <1>4, StepQuiet, QuietKeeps DEF Quiet, CompletedKept
<1>5. ASSUME NEW o \in Operations, Complete(o) \/ AuthorizeRetry(o) \/ Abandon(o)
      PROVE  TInv' /\ CompletedKept
  BY <1>5, ReconcileKeeps
<1>6. CASE TimePasses
  BY <1>1, <1>6 DEF TimePasses, ledgerVars
<1>7. CASE UNCHANGED tvars
  BY <1>1, <1>7 DEF tvars
<1> QED
  BY <1>2, <1>3, <1>4, <1>5, <1>6, <1>7 DEF TNext

\* At first nothing was asked, sent or answered.
LEMMA InitTInv == TInit => TInv
<1> SUFFICES ASSUME TInit PROVE TInv
  OBVIOUS
<1>1. (CHOOSE h \in Hashes : TRUE) \in Hashes /\ NoAnswer \in Int
  BY TransportAssumption DEF NoAnswer
<1>2. MType
  BY <1>1, IdleType DEF TInit, MType, OpRecord, Statuses
<1>3. AnswerInv
  BY IdleType DEF TInit, AnswerInv, OneAnswerForAll, HeldAnswer
<1> QED
  BY <1>2, <1>3 DEF TInv

\* Theorem: types and answers are right throughout.
THEOREM TransportInvariance == TSpec => []TInv
  BY InitTInv, NextKeeps, PTL DEF TSpec

\* Theorem: all callers of an operation get one answer, the ledger's, whatever
\* retries operators and supervisors authorize while calls are in flight.
THEOREM AgreementOnAnswers == TSpec => []OneAnswerForAll
<1>1. TInv => OneAnswerForAll
  BY DEF TInv, AnswerInv
<1> QED
  BY <1>1, TransportInvariance, PTL

\* Theorem: a completed operation never changes again.
THEOREM CompletionIsFinal == TSpec => CompletedIsFinal
<1>1. TSpec => [][CompletedKept]_tvars
  BY NextKeeps, TransportInvariance, PTL DEF TSpec
<1> QED
  BY <1>1 DEF CompletedIsFinal, CompletedKept

\* A row that exists keeps the request it was made for.
HashesKept == \A o \in Operations : ops[o].status # "NONE" => ops'[o].hash = ops[o].hash

\* Only _reserve writes a hash, and over a row that exists only its own.
LEMMA ReserveHash ==
    ASSUME MType, NEW c \in Callers, Reserve(c)
    PROVE  HashesKept
<1> DEFINE o == call[c].op
           new == [status |-> "PENDING", hash |-> call[c].hash, answer |-> NoAnswer]
<1>1. CASE Reservable(ops[o], call[c].hash)
  <2>1. ops' = [ops EXCEPT ![o] = new]
    BY <1>1 DEF Reserve, Op
  <2>2. ops[o].status # "NONE" => new.hash = ops[o].hash
    BY <1>1 DEF Reservable, Miss
  <2> HIDE DEF new
  <2> QED
    BY <2>1, <2>2 DEF MType, HashesKept
<1>2. CASE ~Reservable(ops[o], call[c].hash)
  BY <1>2 DEF Reserve, Op, HashesKept
<1> QED
  BY <1>1, <1>2

\* Completing or reconciling a row changes its status and its answer.
LEMMA StatusWriteHash ==
    ASSUME MType, NEW o \in Operations, NEW new, new.hash = ops[o].hash,
           ops' = [ops EXCEPT ![o] = new]
    PROVE  HashesKept
  BY DEF MType, HashesKept

LEMMA StoreHash ==
    ASSUME MType, NEW c \in Callers, Store(c) \/ StoreStrict(c)
    PROVE  HashesKept
<1> DEFINE o == call[c].op
           new == [ops[o] EXCEPT !.status = "COMPLETED", !.answer = call[c].answer]
<1>1. o \in Operations /\ ops[o] \in OpRecord
  BY DEF MType, CallRecord
<1>2. new.hash = ops[o].hash
  BY <1>1 DEF OpRecord
<1>3. UNCHANGED ops \/ ops' = [ops EXCEPT ![o] = new]
  BY <1>1 DEF Store, StoreStrict, Stored, Op, MType
<1> HIDE DEF new
<1> QED
  BY <1>1, <1>2, <1>3, StatusWriteHash DEF HashesKept

LEMMA ReconcileHash ==
    ASSUME MType, NEW o \in Operations, Complete(o) \/ AuthorizeRetry(o) \/ Abandon(o)
    PROVE  HashesKept
<1>1. ops[o] \in OpRecord
  BY DEF MType
<1>2. CASE Complete(o)
  <2> DEFINE new == [ops[o] EXCEPT !.status = "COMPLETED", !.answer = Attested]
  <2>1. new.hash = ops[o].hash /\ ops' = [ops EXCEPT ![o] = new]
    BY <1>1, <1>2 DEF Complete, MType, OpRecord
  <2> HIDE DEF new
  <2> QED
    BY <2>1, StatusWriteHash
<1>3. CASE AuthorizeRetry(o) \/ Abandon(o)
  <2>1. PICK status : ops' = [ops EXCEPT ![o] = [ops[o] EXCEPT !.status = status]]
    BY <1>3 DEF AuthorizeRetry, Abandon
  <2> DEFINE new == [ops[o] EXCEPT !.status = status]
  <2>2. new.hash = ops[o].hash
    BY <1>1 DEF OpRecord
  <2> HIDE DEF new
  <2> QED
    BY <2>1, <2>2, StatusWriteHash DEF new
<1> QED
  BY <1>2, <1>3

LEMMA SuperviseHash ==
    ASSUME MType, NEW c \in Callers, Supervise(c)
    PROVE  HashesKept
<1>1. \A o \in Operations : [ops[o] EXCEPT !.status = "RETRY_AUTHORIZED"].hash = ops[o].hash
  BY DEF MType, OpRecord
<1> QED
  BY <1>1 DEF Supervise, HashesKept

LEMMA NextHash ==
    ASSUME MType, [TNext]_tvars
    PROVE  HashesKept
<1>1. CASE UNCHANGED ops
  BY <1>1 DEF HashesKept
<1>2. CASE \E c \in Callers : Step(c) \/ Crash(c)
  <2>1. PICK c \in Callers : Step(c) \/ Crash(c)
    BY <1>2
  <2>2. CASE Reserve(c)
    BY <2>2, ReserveHash
  <2>3. CASE Store(c) \/ StoreStrict(c)
    BY <2>3, StoreHash
  <2>4. CASE Supervise(c)
    BY <2>4, SuperviseHash
  <2>5. CASE /\ Step(c) \/ Crash(c)
             /\ ~Reserve(c) /\ ~Store(c) /\ ~StoreStrict(c) /\ ~Supervise(c)
    BY <1>1, <2>5 DEF Step, Crash, Lookup, Session, Admit, Relook, Raced, Send, Receive, Fail,
                      Succeed, Reread, Deliver, ledgerVars
  <2> QED
    BY <2>1, <2>2, <2>3, <2>4, <2>5
<1>3. CASE \E c \in Callers, o \in Operations : \E h \in Requests[o] : Begin(c, o, h)
  BY <1>1, <1>3 DEF Begin, ledgerVars
<1>4. CASE \E o \in Operations : Complete(o) \/ AuthorizeRetry(o) \/ Abandon(o)
  BY <1>4, ReconcileHash
<1>5. CASE TimePasses \/ UNCHANGED tvars
  BY <1>1, <1>5 DEF TimePasses, tvars, ledgerVars
<1> QED
  BY <1>2, <1>3, <1>4, <1>5 DEF TNext

\* Theorem: an operation id stands for one request for ever, also when a
\* supervisor rewrites the ledger and other requests come under the same id.
THEOREM RequestsAreFixed == TSpec => OneRequestPerOperation
<1>1. TInv => MType
  BY DEF TInv
<1>2. TSpec => [][HashesKept]_tvars
  BY <1>1, NextHash, TransportInvariance, PTL DEF TSpec
<1> QED
  BY <1>2 DEF OneRequestPerOperation, HashesKept

-----------------------------------------------------------------------------
(***************************************************************************)
(* No double charge, where no supervisor rewrites the ledger.  A row that  *)
(* may be reserved is a ticket for one transmission; reserving passes the  *)
(* ticket to the caller, sending uses it up, a crash loses it, and only    *)
(* authorize_retry issues a new one.                                       *)
(***************************************************************************)

Sending(o) == {c \in Callers : call[c].pc = "send" /\ call[c].op = o}

Ticket(o) == IF ops[o].status \in {"NONE", "RETRY_AUTHORIZED"} THEN 1 ELSE 0

\* What was sent, may be sent and can still be reserved is authorized.
Balanced(o) == sent[o] + Cardinality(Sending(o)) + Ticket(o) <= 1 + authorized[o]

TicketInv ==
    /\ \A o \in Operations : Balanced(o)
    /\ \A c \in Callers : call[c].pc # "raised"

\* A ticket is zero or one.
LEMMA TicketType == ASSUME NEW o PROVE Ticket(o) \in {0, 1}
  BY DEF Ticket

\* Sets of callers have a size, which grows with the set.
LEMMA CallerSets ==
    ASSUME IsFiniteSet(Callers)
    PROVE  /\ \A S \in SUBSET Callers : IsFiniteSet(S) /\ Cardinality(S) \in Nat
           /\ \A S \in SUBSET Callers : \A T \in SUBSET S : Cardinality(T) <= Cardinality(S)
  BY FS_Subset, FS_CardinalityType

\* A step that lets nobody start sending and issues no ticket keeps the balance.
LEMMA NoNewSender ==
    ASSUME IsFiniteSet(Callers), MType, TicketInv, UNCHANGED <<sent, authorized>>,
           \A o \in Operations : Sending(o)' \subseteq Sending(o) /\ Ticket(o)' <= Ticket(o)
    PROVE  \A o \in Operations : Balanced(o)'
<1> SUFFICES ASSUME NEW o \in Operations PROVE Balanced(o)'
  OBVIOUS
<1> DEFINE n == Cardinality(Sending(o))
           m == Cardinality(Sending(o)')
<1>1. Sending(o) \in SUBSET Callers
  BY DEF Sending
<1>2. n \in Nat /\ m \in Nat /\ m <= n
  BY <1>1, CallerSets
<1>3. Ticket(o) \in {0, 1} /\ Ticket(o)' \in {0, 1} /\ Ticket(o)' <= Ticket(o)
  BY DEF Ticket
<1>4. sent[o] \in Nat /\ authorized[o] \in Nat /\ sent[o] + n + Ticket(o) <= 1 + authorized[o]
  BY DEF MType, TicketInv, Balanced
<1> HIDE DEF n, m
<1>5. sent[o] + m + Ticket(o)' <= 1 + authorized[o]
  BY <1>2, <1>3, <1>4
<1> QED
  BY <1>5 DEF Balanced, m

\* After a step of c alone, the other senders are the same.
LEMMA OthersSend ==
    ASSUME NEW c \in Callers, Only(c), NEW o
    PROVE  /\ Sending(o)' \ {c} = Sending(o) \ {c}
           /\ c \in Sending(o)' <=> (call'[c].pc = "send" /\ call'[c].op = o)
           /\ c \in Sending(o) <=> (call[c].pc = "send" /\ call[c].op = o)
           /\ call'[c].pc # "send" => Sending(o)' \subseteq Sending(o)
  BY DEF Sending, Only

\* A quiet step keeps the balance, and raises nothing without a supervisor.
LEMMA QuietTicket ==
    ASSUME IsFiniteSet(Callers), Supervised = {}, MType, TicketInv, NEW c \in Callers, Quiet(c)
    PROVE  TicketInv'
<1>1. \A o \in Operations : Sending(o)' \subseteq Sending(o)
  BY OthersSend DEF Quiet
<1>2. \A o \in Operations : Ticket(o)' <= Ticket(o)
  BY TicketType DEF Quiet, Ticket
<1>3. \A o \in Operations : Balanced(o)'
  BY <1>1, <1>2, NoNewSender DEF Quiet
<1> QED
  BY <1>3 DEF TicketInv, Quiet, Only

\* Reserving passes the ticket of the row to the caller.
LEMMA ReserveTicket ==
    ASSUME IsFiniteSet(Callers), Supervised = {}, TInv, TicketInv, NEW c \in Callers, Reserve(c)
    PROVE  TicketInv'
<1>o. PICK o \in Operations : o = call[c].op
  BY DEF TInv, MType, CallRecord
<1>0. call[c].pc = "reserve" /\ UNCHANGED <<sent, authorized>>
  BY ReserveEffect
<1>1. CASE Quiet(c)
  BY <1>1, QuietTicket DEF TInv
<1>2. CASE ~Quiet(c)
  <2>1. /\ Only(c) /\ call'[c].pc = "send" /\ call'[c].op = o
        /\ ops[o].status \in {"NONE", "RETRY_AUTHORIZED"}
    BY <1>o, <1>2, ReserveEffect
  <2>2. PICK new : RowWrite(o, new) /\ new.status = "PENDING"
    BY <1>o, <1>2, ReserveEffect
  <2>3. ops'[o] = new /\ \A p \in Operations : p # o => ops'[p] = ops[p]
    BY <1>0, <2>2, RowWriteEffect DEF TInv
  <2>4. Balanced(o)'
    <3> DEFINE n == Cardinality(Sending(o))
               s == Sending(o)
    <3>1. s \in SUBSET Callers /\ c \notin s
      BY <1>0 DEF Sending
    <3>3. Sending(o)' = s \cup {c}
      BY <2>1 DEF Sending, Only
    <3>4. IsFiniteSet(s) /\ n \in Nat
      BY <3>1, CallerSets
    <3>5. Cardinality(s \cup {c}) = n + 1
      BY <3>1, <3>4, FS_AddElement
    <3>6. ops[o].status \in {"NONE", "RETRY_AUTHORIZED"} /\ Ticket(o) = 1
      BY <2>1 DEF Ticket
    <3>7. sent[o] \in Nat /\ authorized[o] \in Nat /\ sent[o] + n + 1 <= 1 + authorized[o]
      BY <1>0, <3>6 DEF TInv, MType, TicketInv, Balanced
    <3> HIDE DEF n
    <3>8. sent[o] + (n + 1) + 0 <= 1 + authorized[o]
      BY <3>4, <3>7
    <3> QED
      BY <1>0, <2>2, <2>3, <3>3, <3>5, <3>8 DEF Balanced, Ticket
  <2>5. ASSUME NEW p \in Operations, p # o PROVE Balanced(p)'
    <3>1. Sending(p)' = Sending(p)
      BY <1>0, <2>1, <2>5 DEF Sending, Only
    <3>2. Ticket(p)' = Ticket(p)
      BY <2>3, <2>5 DEF Ticket
    <3> QED
      BY <1>0, <3>1, <3>2 DEF TicketInv, Balanced
  <2> QED
    BY <2>1, <2>4, <2>5 DEF TicketInv, Only
<1> QED
  BY <1>1, <1>2

\* Sending uses the caller's ticket up.
LEMMA SendTicket ==
    ASSUME IsFiniteSet(Callers), TInv, TicketInv, NEW c \in Callers, Send(c)
    PROVE  TicketInv'
<1>o. PICK o \in Operations : o = call[c].op
  BY DEF TInv, MType, CallRecord
<1>1. call[c].pc = "send" /\ UNCHANGED <<ops, authorized>> /\ sent' = [sent EXCEPT ![o] = @ + 1]
  BY <1>o DEF Send, At, Op
<1>2. Only(c) /\ call'[c].pc = "receive"
  <2>1. "receive" \in PCs /\ sent[o] + 1 \in Int
    BY DEF PCs, TInv, MType
  <2> QED
    BY <1>o, <2>1 DEF Send, Op, TInv, MType, Only, CallRecord
<1>3. Balanced(o)'
  <2> DEFINE s == Sending(o)
             n == Cardinality(s)
  <2>1. s \in SUBSET Callers /\ c \in s
    BY <1>o, <1>1 DEF Sending
  <2>2. Sending(o)' = s \ {c}
    BY <1>2 DEF Sending, Only
  <2>3. IsFiniteSet(s) /\ n \in Nat
    BY <2>1, CallerSets
  <2>4. Cardinality(s \ {c}) = n - 1
    BY <2>1, <2>3, FS_RemoveElement
  <2>5. /\ sent[o] \in Nat /\ authorized[o] \in Nat
        /\ sent[o] + n + Ticket(o) <= 1 + authorized[o]
    BY DEF TInv, MType, TicketInv, Balanced
  <2>6. sent'[o] = sent[o] + 1 /\ Ticket(o)' = Ticket(o) /\ Ticket(o) \in {0, 1}
    BY <1>1, TicketType DEF Ticket, TInv, MType
  <2> HIDE DEF n
  <2>7. (sent[o] + 1) + (n - 1) + Ticket(o) <= 1 + authorized[o]
    BY <2>3, <2>5, <2>6
  <2> QED
    BY <1>1, <2>2, <2>4, <2>6, <2>7 DEF Balanced
<1>4. ASSUME NEW p \in Operations, p # o PROVE Balanced(p)'
  <2>1. Sending(p)' = Sending(p)
    BY <1>o, <1>2, <1>4 DEF Sending, Only
  <2>2. Ticket(p)' = Ticket(p) /\ sent'[p] = sent[p]
    BY <1>1, <1>4 DEF Ticket, TInv, MType
  <2> QED
    BY <1>1, <2>1, <2>2 DEF TicketInv, Balanced
<1> QED
  BY <1>2, <1>3, <1>4 DEF TicketInv, Only

\* A stored response leaves no ticket.
LEMMA StoreTicket ==
    ASSUME IsFiniteSet(Callers), Supervised = {}, TInv, TicketInv, NEW c \in Callers,
           Store(c) \/ StoreStrict(c)
    PROVE  TicketInv'
<1>o. PICK o \in Operations : o = call[c].op
  BY DEF TInv, MType, CallRecord
<1>1. CASE Quiet(c)
  BY <1>1, QuietTicket DEF TInv
<1>2. CASE ~Quiet(c)
  <2>1. Only(c) /\ call'[c].pc \in {"reread", "paid"} /\ UNCHANGED <<sent, authorized>>
    BY <1>2, StoreEffect
  <2>2. PICK new : RowWrite(o, new) /\ new.status = "COMPLETED"
    BY <1>o, <1>2, StoreEffect
  <2>3. ops'[o] = new /\ \A p \in Operations : p # o => ops'[p] = ops[p]
    BY <2>2, RowWriteEffect DEF TInv
  <2>4. \A p \in Operations : Sending(p)' \subseteq Sending(p)
    BY <2>1, OthersSend
  <2>5. \A p \in Operations : Ticket(p)' <= Ticket(p)
    <3> SUFFICES ASSUME NEW p \in Operations PROVE Ticket(p)' <= Ticket(p)
      OBVIOUS
    <3>1. CASE p = o
      BY <2>2, <2>3, <3>1 DEF Ticket
    <3>2. CASE p # o
      BY <2>3, <3>2 DEF Ticket
    <3> QED
      BY <3>1, <3>2
  <2>6. \A p \in Operations : Balanced(p)'
    BY <2>1, <2>4, <2>5, NoNewSender DEF TInv
  <2> QED
    BY <2>1, <2>6 DEF TicketInv, Only
<1> QED
  BY <1>1, <1>2

\* authorize_retry issues one ticket and counts it; the other reconciliations none.
LEMMA ReconcileTicket ==
    ASSUME IsFiniteSet(Callers), TInv, TicketInv, NEW o \in Operations,
           Complete(o) \/ AuthorizeRetry(o) \/ Abandon(o)
    PROVE  TicketInv'
<1>0. UNCHANGED <<call, sent>> /\ ops[o].status = "PENDING"
  BY ReconcileEffect
<1>1. PICK new : /\ RowWrite(o, new)
                 /\ \/ UNCHANGED authorized /\ new.status \in {"COMPLETED", "ABANDONED"}
                    \/ /\ authorized' = [authorized EXCEPT ![o] = @ + 1]
                       /\ new.status = "RETRY_AUTHORIZED"
  BY ReconcileEffect
<1>2. ops'[o] = new /\ \A p \in Operations : p # o => ops'[p] = ops[p]
  BY <1>1, RowWriteEffect DEF TInv
<1>3. \A p \in Operations : Sending(p)' = Sending(p)
  BY <1>0 DEF Sending
<1>4. Balanced(o)'
  <2> DEFINE n == Cardinality(Sending(o))
  <2>1. Sending(o) \in SUBSET Callers
    BY DEF Sending
  <2>2. n \in Nat
    BY <2>1, CallerSets
  <2>3. sent[o] \in Nat /\ authorized[o] \in Nat /\ sent[o] + n + 0 <= 1 + authorized[o]
    BY <1>0 DEF TInv, MType, TicketInv, Balanced, Ticket
  <2> HIDE DEF n
  <2>4. sent[o] + n + Ticket(o)' <= 1 + authorized'[o]
    <3>1. CASE UNCHANGED authorized /\ new.status \in {"COMPLETED", "ABANDONED"}
      BY <1>2, <2>2, <2>3, <3>1 DEF Ticket
    <3>2. CASE /\ authorized' = [authorized EXCEPT ![o] = @ + 1]
               /\ new.status = "RETRY_AUTHORIZED"
      <4>1. authorized'[o] = authorized[o] + 1 /\ Ticket(o)' = 1
        BY <1>2, <3>2 DEF Ticket, TInv, MType
      <4> QED
        BY <2>2, <2>3, <4>1
    <3> QED
      BY <1>1, <3>1, <3>2
  <2> QED
    BY <1>0, <1>3, <2>4 DEF Balanced, n
<1>5. ASSUME NEW p \in Operations, p # o PROVE Balanced(p)'
  <2>1. Ticket(p)' = Ticket(p) /\ authorized'[p] = authorized[p]
    BY <1>1, <1>2, <1>5 DEF Ticket, TInv, MType
  <2> QED
    BY <1>0, <1>3, <2>1 DEF TicketInv, Balanced
<1> QED
  BY <1>0, <1>4, <1>5 DEF TicketInv

\* Every step keeps the balance.
LEMMA NextTicket ==
    ASSUME IsFiniteSet(Callers), Supervised = {}
    PROVE  TInv /\ TicketInv /\ [TNext]_tvars => TicketInv'
<1> SUFFICES ASSUME TInv, TicketInv, [TNext]_tvars PROVE TicketInv'
  OBVIOUS
<1>0. MType
  BY DEF TInv
<1>1. CASE UNCHANGED <<ops, call, sent, authorized>>
  BY <1>1 DEF TicketInv, Balanced, Sending, Ticket
<1>2. ASSUME NEW c \in Callers, NEW o \in Operations, NEW h \in Requests[o], Begin(c, o, h)
      PROVE  TicketInv'
  BY <1>0, <1>2, BeginQuiet, QuietTicket
<1>3. ASSUME NEW c \in Callers, Step(c) PROVE TicketInv'
  <2>1. CASE Reserve(c)
    BY <2>1, ReserveTicket
  <2>2. CASE Send(c)
    BY <2>2, SendTicket
  <2>3. CASE Store(c) \/ StoreStrict(c)
    BY <2>3, StoreTicket
  <2>4. CASE Supervise(c)
    BY <2>4, SuperviseEffect DEF TicketInv
  <2>5. CASE Deliver(c)
    BY <1>0, <2>5, DeliverQuiet, QuietTicket
  <2>6. CASE \/ Lookup(c) \/ Session(c) \/ Admit(c) \/ Relook(c) \/ Raced(c)
             \/ Receive(c) \/ Fail(c) \/ Succeed(c) \/ Reread(c)
    BY <1>0, <2>6, StepQuiet, QuietTicket
  <2> QED
    BY <1>3, <2>1, <2>2, <2>3, <2>4, <2>5, <2>6 DEF Step
<1>4. ASSUME NEW c \in Callers, Crash(c) PROVE TicketInv'
  BY <1>0, <1>4, StepQuiet, QuietTicket
<1>5. ASSUME NEW o \in Operations, Complete(o) \/ AuthorizeRetry(o) \/ Abandon(o)
      PROVE  TicketInv'
  BY <1>5, ReconcileTicket
<1>6. CASE TimePasses
  BY <1>1, <1>6 DEF TimePasses, ledgerVars
<1>7. CASE UNCHANGED tvars
  BY <1>1, <1>7 DEF tvars
<1> QED
  BY <1>2, <1>3, <1>4, <1>5, <1>6, <1>7 DEF TNext

\* At first every operation has its one ticket.
LEMMA InitTicket == TInit => TicketInv
<1> SUFFICES ASSUME TInit PROVE TicketInv
  OBVIOUS
<1>1. \A c \in Callers : call[c].pc = "idle"
  BY IdleType DEF TInit
<1>2. \A o \in Operations : Sending(o) = {}
  BY <1>1 DEF Sending
<1>3. \A o \in Operations : sent[o] = 0 /\ authorized[o] = 0 /\ Ticket(o) = 1
  BY DEF TInit, Ticket
<1>4. ASSUME NEW o \in Operations PROVE Balanced(o)
  <2>1. Cardinality(Sending(o)) = 0
    BY <1>2, FS_EmptySet
  <2> QED
    BY <1>3, <2>1 DEF Balanced
<1> QED
  BY <1>1, <1>4 DEF TicketInv

\* Theorem: no double charge.  However many callers race, time out, crash and
\* restart, a request reaches the provider once, and once more per retry an
\* operator authorized, as long as no supervisor rewrites PENDING rows itself.
THEOREM NoDoubleCharge ==
    ASSUME IsFiniteSet(Callers), Supervised = {}
    PROVE  TSpec => []TransmissionsAuthorised
<1>1. TInv /\ TicketInv => TransmissionsAuthorised
  <2> SUFFICES ASSUME TInv, TicketInv, NEW o \in Operations PROVE sent[o] <= 1 + authorized[o]
    BY DEF TransmissionsAuthorised
  <2> DEFINE n == Cardinality(Sending(o))
  <2>1. Sending(o) \in SUBSET Callers
    BY DEF Sending
  <2>2. n \in Nat /\ Ticket(o) \in {0, 1}
    BY <2>1, CallerSets, TicketType
  <2>3. sent[o] \in Nat /\ authorized[o] \in Nat /\ sent[o] + n + Ticket(o) <= 1 + authorized[o]
    BY DEF TInv, MType, TicketInv, Balanced
  <2> HIDE DEF n
  <2> QED
    BY <2>2, <2>3
<1>2. TInv /\ TicketInv /\ [TNext]_tvars => TicketInv'
  BY NextTicket
<1> QED
  BY <1>1, <1>2, InitTicket, TransportInvariance, PTL DEF TSpec
=============================================================================
