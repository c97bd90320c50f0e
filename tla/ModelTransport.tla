--------------------------- MODULE ModelTransport ---------------------------
(***************************************************************************)
(* Paid calls through the operation ledger: the complete() methods of      *)
(* OpenCodeStructuredTransport and ClaudeCodeStructuredTransport, search() *)
(* and content() of CachedSciverseTransport, the BudgetedTransport around  *)
(* the first two, and the operator's reconcile_operation.  Callers are     *)
(* processes that share the database; a step of one is the work between    *)
(* two accesses to the database or to the provider.                        *)
(*                                                                         *)
(* The provider is external: it answers a transmission or the answer is    *)
(* lost or unusable.  An answer is named by the number of the transmission *)
(* it belongs to, so two transmissions never answer alike.  A transport    *)
(* without a budget is one whose MaxTokens no run reaches.                 *)
(***************************************************************************)
EXTENDS CircuitBreaker, FiniteSets, FiniteSetsExt

CONSTANTS
    Callers,
    Hashes,             \* request_sha256 values
    Requests,           \* the requests callers bring under an operation id
    Transports,         \* which of "opencode", "claude_code", "sciverse" to consider
    Cost,               \* tokens an answer costs, a function on Operations
    MaxTokens,          \* max_tokens of the BudgetedTransport
    Supervised,         \* callers run by the loop of experiments/run_semifinal_v1.py
    MaxRetries,         \* bound: authorize_retry reconciliations per operation
    MaxAttempts,        \* attempts of the supervisor's loop; 20 in the script
    MaxCrashes          \* bound: callers killed in a behaviour

ASSUME TransportAssumption ==
    /\ Operations # {} /\ Hashes # {}
    /\ Requests \in [Operations -> SUBSET Hashes]
    /\ Transports \subseteq {"opencode", "claude_code", "sciverse"}
    /\ Cost \in [Operations -> Nat] /\ MaxTokens \in Nat
    /\ Supervised \subseteq Callers
    /\ MaxRetries \in Nat /\ MaxAttempts \in Nat /\ MaxCrashes \in Nat

VARIABLES
    transport,    \* the transport this behaviour is about
    ops,          \* operation_id -> row of model_operations / retrieval_operations
    call,         \* caller -> local variables of its complete()
    sent,         \* operation_id -> transmissions to the provider
    authorized,   \* operation_id -> authorize_retry rows of operation_reconciliations
    answers,      \* operation_id -> the answers callers were given
    attempt,      \* caller -> failed attempts of its supervisor
    crashes

tvars == <<circuit, last_event, transport, ops, call, sent, authorized, answers, attempt, crashes>>

ledgerVars == <<ops, sent, authorized, answers>>

\* The transport is fixed; the supervisor counts only when an attempt failed.
fixedVars == <<transport, attempt>>

Statuses == {"NONE", "PENDING", "COMPLETED", "RETRY_AUTHORIZED", "ABANDONED"}

NoAnswer == -1
Attested == 0     \* the response an operator attests

IdleCall == [pc |-> "idle", op |-> CHOOSE o \in Operations : TRUE,
             hash |-> CHOOSE h \in Hashes : TRUE, answer |-> NoAnswer]

TInit ==
    /\ CInit
    /\ transport \in Transports
    /\ ops = [o \in Operations |-> [status |-> "NONE", hash |-> CHOOSE h \in Hashes : TRUE,
                                    answer |-> NoAnswer]]
    /\ call = [c \in Callers |-> IdleCall]
    /\ sent = [o \in Operations |-> 0]
    /\ authorized = [o \in Operations |-> 0]
    /\ answers = [o \in Operations |-> {}]
    /\ attempt = [c \in Callers |-> 0]
    /\ crashes = 0

-----------------------------------------------------------------------------
(***************************************************************************)
(* Local control of a call.                                                *)
(***************************************************************************)

At(c, pc) == call[c].pc = pc

Op(c) == call[c].op

RowOf(c) == ops[Op(c)]

Goto(c, pc) == call' = [call EXCEPT ![c].pc = pc]

Return(c) == call' = [call EXCEPT ![c] = IdleCall]

\* An exception leaves complete(); the supervisor's loop catches it.
Raise(c) ==
    call' = [call EXCEPT ![c] = [IdleCall EXCEPT !.pc =
                 IF c \in Supervised THEN "raised" ELSE "idle"]]

\* _spent: the tokens of the COMPLETED rows.
Spent == MapThenSumSet(LAMBDA o : Cost[o], {o \in Operations : ops[o].status = "COMPLETED"})

-----------------------------------------------------------------------------
(***************************************************************************)
(* Until the call is admitted.                                             *)
(***************************************************************************)

\* BudgetedTransport.complete: refuse once the budget is spent.
Begin(c, o, h) ==
    /\ At(c, "idle")
    /\ IF Spent >= MaxTokens
       THEN Raise(c)
       ELSE call' = [call EXCEPT ![c] = [IdleCall EXCEPT !.pc = "lookup", !.op = o, !.hash = h]]
    /\ UNCHANGED <<fixedVars, cvars, ledgerVars, crashes>>

\* Mutant: an authorized retry is not compared with the request.
MissAnyRequest(row, hash) == row.status \in {"NONE", "RETRY_AUTHORIZED"}

\* What _lookup makes of a row: a miss lets the call go on, a hit answers it,
\* anything else raises.
Miss(row, hash) ==
    \/ row.status = "NONE"
    \/ row.hash = hash /\ row.status = "RETRY_AUTHORIZED"

\* Mutant: an attested completion is not replayed.
HitOwnAnswer(row, hash) == row.hash = hash /\ row.status = "COMPLETED" /\ row.answer # Attested

Hit(row, hash) == row.hash = hash /\ row.status = "COMPLETED"

Answered(c, pc) ==
    call' = [call EXCEPT ![c].pc = pc, ![c].answer = RowOf(c).answer]

Lookup(c) ==
    /\ At(c, "lookup")
    /\ CASE Miss(RowOf(c), call[c].hash) ->
                Goto(c, IF transport = "opencode" THEN "session" ELSE "admit")
         [] Hit(RowOf(c), call[c].hash)  -> Answered(c, "paid")
         [] OTHER                        -> Raise(c)
    /\ UNCHANGED <<fixedVars, cvars, ledgerVars, crashes>>

\* OpenCode creates a session first; a failure is not reported to the circuit.
Session(c) ==
    /\ At(c, "session")
    /\ Goto(c, "admit") \/ Raise(c)
    /\ UNCHANGED <<fixedVars, cvars, ledgerVars, crashes>>

\* circuit.before_call
Admit(c) ==
    /\ At(c, "admit")
    /\ \E d \in Delays :
        \/ (AdmitClosed \/ AdmitProbe(Op(c), d)) /\ Goto(c, "reserve")
        \/ (Reject(d) \/ ExpireProbe(d)) /\ Raise(c)
    /\ UNCHANGED <<fixedVars, ledgerVars, crashes>>

-----------------------------------------------------------------------------
(***************************************************************************)
(* _reserve: one transaction that takes a new row, or an authorized one,   *)
(* to PENDING; for any other row it looks again, outside the transaction.  *)
(***************************************************************************)

\* Mutant: a pending reservation is taken over.
ReservableAgain(row, hash) == Miss(row, hash) \/ (row.hash = hash /\ row.status = "PENDING")

Reservable(row, hash) == Miss(row, hash)

Reserve(c) ==
    LET o == Op(c)
        hash == call[c].hash
    IN  /\ At(c, "reserve")
        /\ \/ /\ Reservable(ops[o], hash)
              /\ ops' = [ops EXCEPT ![o] = [status |-> "PENDING", hash |-> hash, answer |-> NoAnswer]]
              /\ Goto(c, "send")
           \/ /\ ~Reservable(ops[o], hash)
              /\ Goto(c, IF ops[o].hash = hash THEN "relook" ELSE "failing")
              /\ UNCHANGED ops
        /\ UNCHANGED <<fixedVars, cvars, sent, authorized, answers, crashes>>

Relook(c) ==
    /\ At(c, "relook")
    /\ IF Hit(RowOf(c), call[c].hash) THEN Answered(c, "raced") ELSE Goto(c, "failing")
    /\ UNCHANGED <<fixedVars, cvars, ledgerVars, crashes>>

\* Somebody else completed the operation: report a success and return it.  A
\* refusal of the report is caught by complete() itself.
Raced(c) ==
    /\ At(c, "raced")
    /\ \/ RecordSuccess(Op(c)) /\ Goto(c, "paid")
       \/ SuccessRefused(Op(c)) /\ Goto(c, "failing")
    /\ UNCHANGED <<fixedVars, ledgerVars, crashes>>

-----------------------------------------------------------------------------
(***************************************************************************)
(* The transmission and its outcome.                                       *)
(***************************************************************************)

Send(c) ==
    /\ At(c, "send")
    /\ sent' = [sent EXCEPT ![Op(c)] = @ + 1]
    /\ call' = [call EXCEPT ![c].pc = "receive", ![c].answer = sent[Op(c)] + 1]
    /\ UNCHANGED <<fixedVars, cvars, ops, authorized, answers, crashes>>

\* An answer, or a timeout, an HTTP error, an unusable envelope.
Receive(c) ==
    /\ At(c, "receive")
    /\ \/ Goto(c, "succeed")
       \/ call' = [call EXCEPT ![c].pc = "failing", ![c].answer = NoAnswer]
    /\ UNCHANGED <<fixedVars, cvars, ledgerVars, crashes>>

\* record_failure, whether it is accepted or raises: the call is over and the
\* row keeps its status.
Fail(c) ==
    /\ At(c, "failing")
    /\ \/ \E d \in Delays : RecordFailure(Op(c), d)
       \/ FailureRefused(Op(c))
    /\ Raise(c)
    /\ UNCHANGED <<fixedVars, ledgerVars, crashes>>

\* record_success comes before the response is stored: refused, it loses it.
Succeed(c) ==
    /\ At(c, "succeed")
    /\ \/ RecordSuccess(Op(c)) /\ Goto(c, "store")
       \/ SuccessRefused(Op(c)) /\ Raise(c)
    /\ UNCHANGED <<fixedVars, ledgerVars, crashes>>

\* Mutant: the UPDATE has lost its AND status='PENDING'.
StorableAlways(c) == RowOf(c).hash = call[c].hash

\* UPDATE ... WHERE status='PENDING'.
Storable(c) == RowOf(c).status = "PENDING" /\ RowOf(c).hash = call[c].hash

Stored(c) == [ops EXCEPT ![Op(c)].status = "COMPLETED", ![Op(c)].answer = call[c].answer]

\* The model transports do not look at the row count; they read the row again.
Store(c) ==
    /\ At(c, "store")
    /\ transport # "sciverse"
    /\ IF Storable(c) THEN ops' = Stored(c) ELSE UNCHANGED ops
    /\ Goto(c, "reread")
    /\ UNCHANGED <<fixedVars, cvars, sent, authorized, answers, crashes>>

Reread(c) ==
    /\ At(c, "reread")
    /\ IF Hit(RowOf(c), call[c].hash) THEN Answered(c, "paid") ELSE Raise(c)
    /\ UNCHANGED <<fixedVars, cvars, ledgerVars, crashes>>

\* The retrieval transport's _complete insists on having changed one row.
StoreStrict(c) ==
    /\ At(c, "store")
    /\ transport = "sciverse"
    /\ \/ Storable(c) /\ ops' = Stored(c) /\ Goto(c, "paid")
       \/ ~Storable(c) /\ UNCHANGED ops /\ Raise(c)
    /\ UNCHANGED <<fixedVars, cvars, sent, authorized, answers, crashes>>

\* BudgetedTransport.complete: an answer past the budget is discarded.
Deliver(c) ==
    /\ At(c, "paid")
    /\ \/ /\ Spent <= MaxTokens
          /\ answers' = [answers EXCEPT ![Op(c)] = @ \cup {call[c].answer}]
          /\ Return(c)
       \/ /\ Spent > MaxTokens
          /\ Raise(c)
          /\ UNCHANGED answers
    /\ UNCHANGED <<fixedVars, cvars, ops, sent, authorized, crashes>>

-----------------------------------------------------------------------------
(***************************************************************************)
(* Operators, supervisors and crashes.                                     *)
(***************************************************************************)

\* Mutant: any operation can be reconciled.
ReconcilableAlways(o) == ops[o].status # "NONE"

\* reconcile_operation: only a PENDING operation can be reconciled.
Reconcilable(o) == ops[o].status = "PENDING"

Complete(o) ==
    /\ Reconcilable(o)
    /\ ops' = [ops EXCEPT ![o].status = "COMPLETED", ![o].answer = Attested]
    /\ UNCHANGED <<fixedVars, cvars, call, sent, authorized, answers, crashes>>

AuthorizeRetry(o) ==
    /\ Reconcilable(o)
    /\ authorized[o] < MaxRetries
    /\ authorized' = [authorized EXCEPT ![o] = @ + 1]
    /\ ops' = [ops EXCEPT ![o].status = "RETRY_AUTHORIZED"]
    /\ UNCHANGED <<fixedVars, cvars, call, sent, answers, crashes>>

Abandon(o) ==
    /\ Reconcilable(o)
    /\ ops' = [ops EXCEPT ![o].status = "ABANDONED"]
    /\ UNCHANGED <<fixedVars, cvars, call, sent, authorized, answers, crashes>>

\* The except branch of the stage loop in run_semifinal_v1.py: its reconcile()
\* turns every PENDING row to RETRY_AUTHORIZED, without a reconciliation row, and
\* the stage starts again, unless this was the last attempt.
Supervise(c) ==
    /\ At(c, "raised")
    /\ ops' = [o \in Operations |-> IF ops[o].status = "PENDING"
                                    THEN [ops[o] EXCEPT !.status = "RETRY_AUTHORIZED"]
                                    ELSE ops[o]]
    /\ attempt' = [attempt EXCEPT ![c] = @ + 1]
    /\ Goto(c, IF attempt[c] + 1 < MaxAttempts THEN "idle" ELSE "stopped")
    /\ UNCHANGED <<transport, cvars, sent, authorized, answers, crashes>>

Crash(c) ==
    /\ crashes < MaxCrashes
    /\ call[c].pc \notin {"idle", "stopped"}
    /\ crashes' = crashes + 1
    /\ Return(c)
    /\ UNCHANGED <<fixedVars, cvars, ledgerVars>>

TimePasses == CTick /\ UNCHANGED <<fixedVars, ledgerVars, call, crashes>>

Step(c) ==
    \/ Lookup(c) \/ Session(c) \/ Admit(c) \/ Reserve(c) \/ Relook(c)
    \/ Raced(c) \/ Send(c) \/ Receive(c) \/ Fail(c) \/ Succeed(c) \/ Store(c)
    \/ Reread(c) \/ StoreStrict(c) \/ Deliver(c) \/ Supervise(c)

TNext ==
    \/ \E c \in Callers, o \in Operations : \E h \in Requests[o] : Begin(c, o, h)
    \/ \E c \in Callers : Step(c) \/ Crash(c)
    \/ \E o \in Operations : Complete(o) \/ AuthorizeRetry(o) \/ Abandon(o)
    \/ TimePasses

TSpec == TInit /\ [][TNext]_tvars

(***************************************************************************)
(* Fairness: a running call goes on, and a resumed run keeps asking for    *)
(* each of its operations (operation ids are derived from the content).    *)
(***************************************************************************)
TFairSpec ==
    /\ TSpec
    /\ \A c \in Callers :
        /\ WF_tvars(Step(c))
        /\ \A o \in Operations : \A h \in Requests[o] : SF_tvars(Begin(c, o, h))

-----------------------------------------------------------------------------
(***************************************************************************)
(* Properties.                                                             *)
(***************************************************************************)

\* No double charge: however callers race, time out, crash and restart, a request
\* reaches the provider once, and once more per retry an operator authorized.
TransmissionsAuthorised == \A o \in Operations : sent[o] <= 1 + authorized[o]

\* All callers of an operation get one answer, and it is the ledger's, although a
\* late caller may store its response over a reservation another caller made.
OneAnswerForAll ==
    \A o \in Operations :
        answers[o] # {} => ops[o].status = "COMPLETED" /\ answers[o] = {ops[o].answer}

\* A completed operation stays what it is: no later caller, operator or crash
\* changes its status, its request hash or its answer.
CompletedIsFinal ==
    [][\A o \in Operations : ops[o].status = "COMPLETED" => ops'[o] = ops[o]]_tvars

\* An operation id stands for one request: once reserved, its hash never changes,
\* whatever other requests callers bring under the same id.
OneRequestPerOperation ==
    [][\A o \in Operations : ops[o].status # "NONE" => ops'[o].hash = ops[o].hash]_tvars

\* The replay promise: a completed call is answered from the ledger to a run that
\* resumes and asks for it again, also when the caller that paid for it crashed.
CompletedIsReplayed ==
    \A o \in Operations : ops[o].status = "COMPLETED" ~> answers[o] # {}
=============================================================================
