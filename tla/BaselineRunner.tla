--------------------------- MODULE BaselineRunner ---------------------------
(***************************************************************************)
(* run_task of src/src/evaluation/baseline_runner.py: one blind task as a  *)
(* durable job of seven stages.  A stage handler reserves every paid call  *)
(* under a key of its own, makes it, puts an artifact under a fixed key    *)
(* and returns; the worker then commits the stage.  A process that dies in *)
(* between leaves reservations and artifacts behind, and the next one runs *)
(* the stage again.  The worker is the one of module Worker, seen from its *)
(* handlers: claim, handle, commit, fail.  The paid calls are the ones of  *)
(* module ModelTransport: an operation id always gets the same answer.     *)
(***************************************************************************)
EXTENDS EventLedger, FiniteSets

CONSTANTS
    Procs,         \* processes that run the task list
    NoProc,        \* lease_owner IS NULL
    Tasks,
    Answers,       \* what the backend may decide on a task
    NoValue,       \* an artifact or an answer that is not there
    MaxCalls,      \* budget of a task
    MaxAttempts,
    MaxFaults      \* bound: kills, provider failures and cancellations together

ASSUME NullAssumption == NoProc \notin Procs /\ NoValue \notin Answers
ASSUME RunnerBounds == MaxCalls \in Nat /\ MaxAttempts \in Nat \ {0} /\ MaxFaults \in Nat

VARIABLES
    job,           \* task -> row of its job
    reserved,      \* task -> operations whose call is reserved in the usage ledger
    artifacts,     \* task -> logical key -> value
    answers,       \* task -> the backend's decision, fixed by the first call
    task_ledger,   \* task -> its event ledger
    proc,          \* process -> where it is
    faults

bvars == <<job, reserved, artifacts, answers, task_ledger, proc, faults>>

\* Stages by their place in STAGE_ORDER.
PLAN == 0
RETRIEVE == 1
READ == 2
CHALLENGE == 4
DECIDE == 5
SYNTHESIZE == 6
VALIDATE == 7

Keys == {"plan", "support", "counter", "decision", "prediction", "failure"}

NewJob == [status |-> "NONE", stage |-> PLAN, attempts |-> 0, owner |-> NoProc,
           error |-> "none"]
Start == [pc |-> "select", task |-> 1, selected |-> {}, code |-> "none", batch |-> {},
          head |-> 0]

BaseInit ==
    /\ job = [t \in Tasks |-> NewJob]
    /\ reserved = [t \in Tasks |-> {}]
    /\ artifacts = [t \in Tasks |-> [k \in Keys |-> NoValue]]
    /\ answers = [t \in Tasks |-> NoValue]
    /\ task_ledger = [t \in Tasks |-> EmptyLedger]
    /\ proc = [p \in Procs |-> Start]
    /\ faults = 0

At(p, pc) == proc[p].pc = pc
Goto(p, pc) == proc' = [proc EXCEPT ![p].pc = pc]

\* An exception or a kill ends the process; the run is started again, from
\* its first task.
Stop(p) == proc' = [proc EXCEPT ![p] = Start]

\* One of the bounded number of faults happens.
Fault == faults < MaxFaults /\ faults' = faults + 1

InTask(p, t) == proc[p].task = t /\ proc[p].pc \in {"stage", "handle", "checkpoint", "finalize"}

-----------------------------------------------------------------------------
\* create_job under the key run:method:challenge returns the job there is.
CreateJob(p) ==
    LET t == proc[p].task
    IN  /\ At(p, "create")
        /\ job' = IF job[t].status = "NONE" THEN [job EXCEPT ![t].status = "QUEUED"] ELSE job
        /\ Goto(p, "claim")
        /\ UNCHANGED <<reserved, artifacts, answers, task_ledger, faults>>

\* The lease of a live worker does not run out; a dead one's does.
Claimable(p, t) ==
    /\ job[t].status \in {"QUEUED", "RUNNING", "RETRY_WAIT"}
    /\ job[t].owner = NoProc \/ job[t].owner = p \/ ~InTask(job[t].owner, t)

Claim(p) ==
    LET t == proc[p].task
    IN  /\ At(p, "claim")
        /\ IF Claimable(p, t)
           THEN /\ job' = [job EXCEPT ![t].status = "RUNNING", ![t].owner = p,
                                      ![t].attempts = @ + 1]
                /\ proc' = [proc EXCEPT ![p].code = "none",
                                        ![p].pc = IF job[t].stage = VALIDATE
                                                  THEN "finalize" ELSE "stage"]
           ELSE /\ Goto(p, "report")
                /\ UNCHANGED job
        /\ UNCHANGED <<reserved, artifacts, answers, task_ledger, faults>>

\* _fail, and the report run_once returns.
Failed(p, code, retryable) ==
    LET t == proc[p].task
        target == IF retryable /\ job[t].attempts < MaxAttempts
                  THEN "RETRY_WAIT" ELSE "FAILED"
    IN  IF job[t].status = "RUNNING"
        THEN /\ job' = [job EXCEPT ![t].status = target, ![t].error = code,
                                   ![t].owner = NoProc]
             /\ proc' = [proc EXCEPT ![p].code = code,
                           ![p].pc = IF target = "RETRY_WAIT" THEN "claim" ELSE "report"]
        ELSE /\ proc' = [proc EXCEPT ![p].code = code, ![p].pc = "report"]
             /\ UNCHANGED job

\* The loop's test before each handler.
BeginStage(p) ==
    /\ At(p, "stage")
    /\ job[proc[p].task].status = "RUNNING" /\ job[proc[p].task].stage # READ
    /\ Goto(p, "handle")
    /\ UNCHANGED <<job, reserved, artifacts, answers, task_ledger, faults>>

-----------------------------------------------------------------------------
(***************************************************************************)
(* The handlers.                                                           *)
(***************************************************************************)

\* The paid calls of a stage; each is reserved before it is made.
Calls(stage) ==
    CASE stage = PLAN      -> {"plan:support", "plan:counter"}
      [] stage = RETRIEVE  -> {"support:0"}
      [] stage = CHALLENGE -> {"counter:0"}
      [] stage = DECIDE    -> {"decide"}
      [] OTHER             -> {}

\* Mutant: a call that is repeated is reserved again under a new key.
UnreservedPerAttempt(t) ==
    {<<c, job[t].attempts>> : c \in Calls(job[t].stage)} \ reserved[t]

Unreserved(t) == Calls(job[t].stage) \ reserved[t]

\* _reserve_backend_calls and reserve_call: one charge of one call.
Reserve(p) ==
    LET t == proc[p].task
    IN  /\ At(p, "handle")
        /\ \E call \in Unreserved(t) :
            /\ call = "plan:counter" => "plan:support" \notin Unreserved(t)
            /\ IF Cardinality(reserved[t]) < MaxCalls
               THEN /\ reserved' = [reserved EXCEPT ![t] = @ \cup {call}]
                    /\ UNCHANGED <<job, proc>>
               ELSE Failed(p, "BUDGET_EXCEEDED", FALSE) /\ UNCHANGED reserved
        /\ UNCHANGED <<artifacts, answers, task_ledger, faults>>

\* READ checks the support artifact and PROPOSE hashes the claim; they write
\* nothing but their checkpoints.
ReadAndPropose(p) ==
    LET t == proc[p].task
    IN  /\ At(p, "stage")
        /\ job[t].status = "RUNNING" /\ job[t].stage = READ
        /\ artifacts[t]["support"] # NoValue
        /\ job' = [job EXCEPT ![t].stage = CHALLENGE]
        /\ UNCHANGED <<reserved, artifacts, answers, task_ledger, proc, faults>>

\* The artifact of a stage: the plan carries the memory injected into it, the
\* prediction the calls of the job.
Produced(p) ==
    LET t == proc[p].task
    IN  CASE job[t].stage = PLAN       -> [key |-> "plan", value |-> proc[p].selected]
          [] job[t].stage = RETRIEVE   -> [key |-> "support", value |-> "passages"]
          [] job[t].stage = CHALLENGE  -> [key |-> "counter", value |-> "passages"]
          [] job[t].stage = DECIDE     -> [key |-> "decision", value |-> answers'[t]]
          [] job[t].stage = SYNTHESIZE -> [key |-> "prediction",
                                           value |-> Cardinality(reserved[t])]

\* put_json keeps what a key holds; other content is an ArtifactConflict.
Put(p, t, produced, next) ==
    IF artifacts[t][produced.key] \in {NoValue, produced.value}
    THEN /\ artifacts' = [artifacts EXCEPT ![t][produced.key] = produced.value]
         /\ Goto(p, next)
         /\ UNCHANGED job
    ELSE Failed(p, "UNHANDLED_STAGE_ERROR", TRUE) /\ UNCHANGED artifacts

Handle(p) ==
    LET t == proc[p].task
    IN  /\ At(p, "handle")
        /\ Unreserved(t) = {}
        /\ IF job[t].stage = DECIDE /\ answers[t] = NoValue
           THEN \E a \in Answers : answers' = [answers EXCEPT ![t] = a]
           ELSE UNCHANGED answers
        /\ Put(p, t, Produced(p), "checkpoint")
        /\ UNCHANGED <<reserved, task_ledger, faults>>

\* The provider fails in a way that may be tried again.
HandlerFails(p) ==
    /\ At(p, "handle")
    /\ Fault
    /\ Failed(p, "RETRYABLE_STAGE_ERROR", TRUE)
    /\ UNCHANGED <<reserved, artifacts, answers, task_ledger>>

\* Events and charges are recorded and the stage is committed.
Checkpoint(p) ==
    LET t == proc[p].task
    IN  /\ At(p, "checkpoint")
        /\ job[t].status = "RUNNING"
        /\ job' = [job EXCEPT ![t].stage = @ + 1]
        /\ Goto(p, IF job[t].stage = SYNTHESIZE THEN "finalize" ELSE "stage")
        /\ UNCHANGED <<reserved, artifacts, answers, task_ledger, faults>>

\* The named validator accepts one decision and one prediction.
Finalize(p) ==
    LET t == proc[p].task
    IN  /\ At(p, "finalize")
        /\ job[t].status = "RUNNING"
        /\ job' = [job EXCEPT ![t].status = "SUCCEEDED", ![t].owner = NoProc]
        /\ Goto(p, "report")
        /\ UNCHANGED <<reserved, artifacts, answers, task_ledger, faults>>

\* Somebody cancels the job; a worker notices at its next stage or commit.
Cancel(t) ==
    /\ Fault
    /\ job[t].status \in {"QUEUED", "RUNNING", "RETRY_WAIT"}
    /\ job' = [job EXCEPT ![t].status = "CANCELLED", ![t].owner = NoProc]
    /\ UNCHANGED <<reserved, artifacts, answers, task_ledger, proc>>

NoticeCancel(p) ==
    /\ At(p, "stage") \/ At(p, "checkpoint") \/ At(p, "finalize")
    /\ job[proc[p].task].status = "CANCELLED"
    /\ Goto(p, "report")
    /\ UNCHANGED <<job, reserved, artifacts, answers, task_ledger, faults>>

-----------------------------------------------------------------------------
(***************************************************************************)
(* The end of run_task: the prediction is settled and committed.           *)
(***************************************************************************)
FailureCode(p, t) ==
    IF proc[p].code # "none" THEN proc[p].code
    ELSE IF job[t].error # "none" THEN job[t].error ELSE "CANCELLED"

Report(p) ==
    LET t == proc[p].task
    IN  /\ At(p, "report")
        /\ \/ /\ job[t].status = "SUCCEEDED" /\ artifacts[t]["prediction"] # NoValue
              /\ Goto(p, "commit")
              /\ UNCHANGED artifacts
           \/ /\ job[t].status \in {"FAILED", "CANCELLED"}
              /\ LET value == <<Cardinality(reserved[t]), FailureCode(p, t)>>
                 IN  IF artifacts[t]["failure"] \in {NoValue, value}
                     THEN /\ artifacts' = [artifacts EXCEPT ![t]["failure"] = value]
                          /\ Goto(p, "commit")
                     ELSE Stop(p) /\ UNCHANGED artifacts
           \/ /\ job[t].status \notin {"SUCCEEDED", "FAILED", "CANCELLED"}
              /\ Stop(p)
              /\ UNCHANGED artifacts
        /\ UNCHANGED <<job, reserved, answers, task_ledger, faults>>

Outcome(t) == IF job[t].status = "SUCCEEDED" THEN "completed" ELSE "failed"

\* The commitment: a hash of the prediction, so its content here.
Commitment(t) ==
    Event(<<"outcome", Outcome(t)>>,
          IF Outcome(t) = "completed" THEN artifacts[t]["prediction"]
                                      ELSE artifacts[t]["failure"][1])

Commit(p) ==
    LET t == proc[p].task
    IN  /\ At(p, "commit")
        /\ IF Loads(task_ledger[t]) /\ ~Conflicts(task_ledger[t], Commitment(t))
           THEN /\ task_ledger' = [task_ledger EXCEPT ![t] = Appended(@, Commitment(t))]
                /\ Goto(p, "apply")
           ELSE Stop(p) /\ UNCHANGED task_ledger
        /\ UNCHANGED <<job, reserved, artifacts, answers, faults>>

RunTask(p) ==
    \/ CreateJob(p) \/ Claim(p) \/ BeginStage(p) \/ Reserve(p) \/ Handle(p)
    \/ ReadAndPropose(p) \/ HandlerFails(p) \/ Checkpoint(p) \/ Finalize(p)
    \/ NoticeCancel(p) \/ Report(p) \/ Commit(p)
=============================================================================
