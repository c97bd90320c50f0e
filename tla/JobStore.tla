------------------------------ MODULE JobStore ------------------------------
(***************************************************************************)
(* The SQLite control-plane store of src/src/orchestration/job_store.py:   *)
(* three tables (jobs, checkpoints, usage_ledger) and one action for each  *)
(* method that writes.  Every method is one BEGIN IMMEDIATE transaction,   *)
(* so it is one atomic step; a call that raises rolls back and leaves the  *)
(* tables alone, so it is no step.                                         *)
(*                                                                         *)
(* Time.  The code only ever compares lease_expires_at with "now", so a    *)
(* row keeps the difference, left, in ticks, and Tick lets time pass.      *)
(* "now" is read BEFORE the transaction waits for the database lock, so an *)
(* operation may commit up to LockWait ticks after the instant it judges   *)
(* leases by: the parameter d of an operation is that delay.               *)
(***************************************************************************)
EXTENDS Integers, FiniteSets, FiniteSetsExt

CONSTANTS
    Jobs,            \* job identifiers (uuid4 in the code)
    Workers,         \* worker_id values
    NoWorker,        \* lease_owner IS NULL
    RequestKeys,     \* (tenant_id, idempotency_key) pairs
    Tasks,           \* task texts
    Resources,       \* budget dimensions: calls, tokens, cost_microunits
    Budgets,         \* max_* triples a request may carry
    LastStage,       \* STAGE_ORDER[VALIDATE]; 7 in the code
    CheckpointKeys,
    Payloads,        \* rendered checkpoint payloads
    ChargeKeys,
    Usages,          \* (calls, tokens, cost) triples of a charge
    ErrorCodes,
    NoError,         \* last_error_code IS NULL
    LeaseSeconds,    \* lease lengths in ticks
    LockWait,        \* longest wait for the database lock, in ticks
    MaxVersion       \* bound: no row is written past this version

ASSUME WorkerAssumption == NoWorker \notin Workers
ASSUME ErrorAssumption == NoError \notin ErrorCodes
ASSUME StageAssumption == LastStage \in Nat \ {0}
ASSUME BudgetAssumption == Budgets \subseteq [Resources -> Nat]
ASSUME UsageAssumption == Usages \subseteq [Resources -> Nat]
ASSUME TimeAssumption == LeaseSeconds \subseteq Nat \ {0} /\ LockWait \in Nat
ASSUME RequestAssumption == RequestKeys # {} /\ Tasks # {} /\ Budgets # {}
ASSUME BoundAssumption == MaxVersion \in Nat

VARIABLES
    jobs,            \* job_id -> row of the jobs table
    checkpoints,     \* rows of the checkpoints table
    usage_ledger     \* rows of the usage_ledger table

vars == <<jobs, checkpoints, usage_ledger>>

(***************************************************************************)
(* Stages are named by their place in STAGE_ORDER.                         *)
(***************************************************************************)
Stage == 0 .. LastStage
PLAN == 0
VALIDATE == LastStage

TERMINAL == {"SUCCEEDED", "FAILED", "CANCELLED"}
JobStatus == {"QUEUED", "RUNNING", "VALIDATING", "RETRY_WAIT"} \cup TERMINAL

\* Mutant: a terminal job may be failed or retried.
ALLOWED_STATUS_REOPENED(status) ==
    CASE status = "QUEUED"     -> {"RUNNING", "CANCELLED"}
      [] status = "RUNNING"    -> {"VALIDATING", "RETRY_WAIT", "FAILED", "CANCELLED"}
      [] status = "RETRY_WAIT" -> {"RUNNING", "FAILED", "CANCELLED"}
      [] status = "VALIDATING" -> {"SUCCEEDED", "RETRY_WAIT", "FAILED", "CANCELLED"}
      [] OTHER                 -> {"RETRY_WAIT", "FAILED"}

ALLOWED_STATUS(status) ==
    CASE status = "QUEUED"     -> {"RUNNING", "CANCELLED"}
      [] status = "RUNNING"    -> {"VALIDATING", "RETRY_WAIT", "FAILED", "CANCELLED"}
      [] status = "RETRY_WAIT" -> {"RUNNING", "FAILED", "CANCELLED"}
      [] status = "VALIDATING" -> {"SUCCEEDED", "RETRY_WAIT", "FAILED", "CANCELLED"}
      [] OTHER                 -> {}

(***************************************************************************)
(* A lease LockWait + 1 ticks past its expiry is expired for every reading *)
(* of the clock an operation can still hold; ageing stops there.  A row    *)
(* without a lease (both columns NULL) has the same value.                 *)
(***************************************************************************)
Expired == -(LockWait + 1)
Delays == 0 .. LockWait

Row == [key: RequestKeys, task: Tasks, max: Budgets,
        status: JobStatus \cup {"ABSENT"}, stage: Stage, version: Nat,
        owner: Workers \cup {NoWorker}, left: Int, attempts: Nat,
        used: [Resources -> Nat], error: ErrorCodes \cup {NoError}]

Exists(j) == jobs[j].status # "ABSENT"

\* The row an INSERT of create_job writes: the schema's defaults fill the rest.
NewRow(key, task, max) ==
    [key |-> key, task |-> task, max |-> max, status |-> "QUEUED",
     stage |-> PLAN, version |-> 1, owner |-> NoWorker, left |-> Expired,
     attempts |-> 0, used |-> [r \in Resources |-> 0], error |-> NoError]

\* No row yet: the columns hold arbitrary values.
AbsentRow ==
    [NewRow(CHOOSE k \in RequestKeys : TRUE, CHOOSE t \in Tasks : TRUE,
            CHOOSE m \in Budgets : TRUE) EXCEPT !.status = "ABSENT"]

Init ==
    /\ jobs = [j \in Jobs |-> AbsentRow]
    /\ checkpoints = {}
    /\ usage_ledger = {}

-----------------------------------------------------------------------------
(***************************************************************************)
(* The conditions the methods test.                                        *)
(***************************************************************************)

\* Mutant: only queued jobs hold their key.
KeyIsFreeOnceStarted(key) == \A k \in Jobs : jobs[k].status = "QUEUED" => jobs[k].key # key

KeyIsFree(key) == \A k \in Jobs : Exists(k) => jobs[k].key # key

\* Mutant: the wait for the lock is charged to the other worker's lease.
LeaseBlocksLess(row, w, d) == row.owner \notin {NoWorker, w} /\ row.left - d > 0

\* acquire_lease: another worker's lease has not run out.
LeaseBlocks(row, w, d) == row.owner \notin {NoWorker, w} /\ row.left + d > 0

\* save_checkpoint and heartbeat: the caller holds an unexpired lease.
HoldsLease(row, w, d) ==
    row.status = "RUNNING" /\ row.owner = w /\ row.left + d >= 0

\* save_checkpoint: the stage does not move backwards.
StageForward(row, stage) == stage >= row.stage

\* save_checkpoint: the key is new or carries the same content.
CheckpointFits(j, key, stage, payload) ==
    \A c \in checkpoints :
        c.job = j /\ c.key = key => c.stage = stage /\ c.payload = payload

\* Mutant: the budget is tested before the usage is added.
WithinBudgetBefore(row, usage) == \A r \in Resources : row.used[r] <= row.max[r]

\* charge: no budget dimension is exceeded.
WithinBudget(row, usage) ==
    \A r \in Resources : row.used[r] + usage[r] <= row.max[r]

\* Mutant: the usage ledger is not consulted.
ChargeForgotten(j, key) == FALSE

ChargeRecorded(j, key) == \E u \in usage_ledger : u.job = j /\ u.key = key

\* Mutant: success needs no VALIDATE stage.
StageAdmitsAll(row, target) == TRUE

\* transition: success needs the VALIDATE stage.
StageAdmits(row, target) == target = "SUCCEEDED" => row.stage = VALIDATE

VersionMatches(row, expected) == expected # 0 => row.version = expected

-----------------------------------------------------------------------------
(***************************************************************************)
(* The UPDATE statements.                                                  *)
(***************************************************************************)

\* Mutant: a new attempt starts with an unspent budget.
LeasedAfresh(row, w, left) ==
    [row EXCEPT !.status = "RUNNING", !.owner = w, !.left = left,
                !.attempts = @ + 1, !.version = @ + 1, !.used = [r \in Resources |-> 0]]

Leased(row, w, left) ==
    [row EXCEPT !.status = "RUNNING", !.owner = w, !.left = left,
                !.attempts = @ + 1, !.version = @ + 1]

Renewed(row, left) == [row EXCEPT !.left = left, !.version = @ + 1]

AtStage(row, stage) == [row EXCEPT !.stage = stage, !.version = @ + 1]

Charged(row, usage) ==
    [row EXCEPT !.used = [r \in Resources |-> row.used[r] + usage[r]],
                !.version = @ + 1]

Moved(row, target, error, release) ==
    [row EXCEPT !.status = target, !.error = error, !.version = @ + 1,
                !.owner = IF release THEN NoWorker ELSE @,
                !.left = IF release THEN Expired ELSE @]

-----------------------------------------------------------------------------
(***************************************************************************)
(* The methods.  A second create_job with the same key and content returns *)
(* the stored row, one with other content raises: neither changes a table. *)
(***************************************************************************)

create_job(j, key, task, max) ==
    /\ ~Exists(j)
    /\ KeyIsFree(key)
    /\ jobs' = [jobs EXCEPT ![j] = NewRow(key, task, max)]
    /\ UNCHANGED <<checkpoints, usage_ledger>>

\* Mutant: a job that waits for its retry cannot be leased.
acquire_lease_unless_waiting(j, w, lease, d) ==
    /\ jobs[j].status \in {"QUEUED", "RUNNING"}
    /\ ~LeaseBlocks(jobs[j], w, d)
    /\ jobs' = [jobs EXCEPT ![j] = Leased(jobs[j], w, lease - d)]
    /\ UNCHANGED <<checkpoints, usage_ledger>>

acquire_lease(j, w, lease, d) ==
    /\ jobs[j].status \in {"QUEUED", "RUNNING", "RETRY_WAIT"}
    /\ ~LeaseBlocks(jobs[j], w, d)
    /\ jobs' = [jobs EXCEPT ![j] = Leased(jobs[j], w, lease - d)]
    /\ UNCHANGED <<checkpoints, usage_ledger>>

heartbeat(j, w, lease, d) ==
    /\ HoldsLease(jobs[j], w, d)
    /\ jobs' = [jobs EXCEPT ![j] = Renewed(jobs[j], lease - d)]
    /\ UNCHANGED <<checkpoints, usage_ledger>>

save_checkpoint(j, w, stage, key, payload, d) ==
    /\ HoldsLease(jobs[j], w, d)
    /\ StageForward(jobs[j], stage)
    /\ CheckpointFits(j, key, stage, payload)
    /\ checkpoints' = checkpoints \cup
            {[job |-> j, key |-> key, stage |-> stage, payload |-> payload]}
    /\ jobs' = [jobs EXCEPT ![j] = AtStage(jobs[j], stage)]
    /\ UNCHANGED usage_ledger

\* A repeated charge (same key, same usage) returns the row unchanged.
charge(j, key, usage) ==
    /\ Exists(j)
    /\ ~ChargeRecorded(j, key)
    /\ WithinBudget(jobs[j], usage)
    /\ usage_ledger' = usage_ledger \cup {[job |-> j, key |-> key, usage |-> usage]}
    /\ jobs' = [jobs EXCEPT ![j] = Charged(jobs[j], usage)]
    /\ UNCHANGED checkpoints

\* expected = 0 stands for expected_version=None.
transition(j, target, expected, error, release) ==
    /\ VersionMatches(jobs[j], expected)
    /\ target \in ALLOWED_STATUS(jobs[j].status)
    /\ StageAdmits(jobs[j], target)
    /\ jobs' = [jobs EXCEPT ![j] = Moved(jobs[j], target, error, release)]
    /\ UNCHANGED <<checkpoints, usage_ledger>>

\* Time passes for every lease at once.
Age(row) == [row EXCEPT !.left = IF @ > Expired THEN @ - 1 ELSE @]

Tick ==
    /\ jobs' = [j \in Jobs |-> Age(jobs[j])]
    /\ UNCHANGED <<checkpoints, usage_ledger>>

(***************************************************************************)
(* runnable_job_ids: the jobs a worker looking for work is offered.        *)
(***************************************************************************)
\* Mutant: a lease is offered again only strictly after its expiry.
RunnableLater(row) ==
    \/ row.status \in {"QUEUED", "RETRY_WAIT"}
    \/ row.status = "RUNNING" /\ row.owner # NoWorker /\ row.left < 0

Runnable(row) ==
    \/ row.status \in {"QUEUED", "RETRY_WAIT"}
    \/ row.status = "RUNNING" /\ row.owner # NoWorker /\ row.left <= 0

-----------------------------------------------------------------------------
(***************************************************************************)
(* The store under arbitrary callers.  The one restriction on them is how  *)
(* the repository calls transition: nobody asks for RUNNING (only          *)
(* acquire_lease enters it), and only the step to VALIDATING keeps the     *)
(* lease (runtime.py, finalize_with_validator).                            *)
(***************************************************************************)
Targets == JobStatus \ {"QUEUED", "RUNNING"}

Write(j) ==
    \/ \E key \in RequestKeys, task \in Tasks, max \in Budgets :
            create_job(j, key, task, max)
    \/ \E w \in Workers, lease \in LeaseSeconds, d \in Delays :
            \/ acquire_lease(j, w, lease, d)
            \/ heartbeat(j, w, lease, d)
    \/ \E w \in Workers, stage \in Stage, key \in CheckpointKeys,
          payload \in Payloads, d \in Delays :
            save_checkpoint(j, w, stage, key, payload, d)
    \/ \E key \in ChargeKeys, usage \in Usages : charge(j, key, usage)
    \/ \E target \in Targets, expected \in 0 .. MaxVersion,
          error \in ErrorCodes \cup {NoError} :
            transition(j, target, expected, error, target # "VALIDATING")

Next ==
    \/ Tick
    \/ \E j \in Jobs : jobs[j].version < MaxVersion /\ Write(j)

Spec == Init /\ [][Next]_vars

-----------------------------------------------------------------------------
(***************************************************************************)
(* Properties.                                                             *)
(***************************************************************************)

CheckpointRow == [job: Jobs, key: CheckpointKeys, stage: Stage, payload: Payloads]
UsageRow == [job: Jobs, key: ChargeKeys, usage: Usages]

\* Type invariant: the tables hold rows of their schemas.
TypeOK ==
    /\ jobs \in [Jobs -> Row]
    /\ checkpoints \subseteq CheckpointRow
    /\ usage_ledger \subseteq UsageRow

\* Two submissions under one (tenant, idempotency key) never become two jobs,
\* whichever order create_job calls of concurrent clients commit in.
OneJobPerRequestKey ==
    \A i, j \in Jobs :
        Exists(i) /\ Exists(j) /\ jobs[i].key = jobs[j].key => i = j

\* charge never takes a job past any of its budgets, although charges are
\* neither fenced by the lease nor stopped by a terminal status.
BudgetRespected ==
    \A j \in Jobs, r \in Resources : jobs[j].used[r] <= jobs[j].max[r]

\* The used_* columns are the sums of the job's usage_ledger rows: charging is
\* idempotent per key, and a refused charge leaves no trace.
UsedIsLedgerSum ==
    \A j \in Jobs, r \in Resources :
        jobs[j].used[r] =
            MapThenSumSet(LAMBDA u : u.usage[r], {u \in usage_ledger : u.job = j})

\* The primary keys of the two side tables: a checkpoint key or a charge key of
\* a job stands for one content, however often the call is retried.
OneContentPerKey ==
    /\ \A a, b \in checkpoints : a.job = b.job /\ a.key = b.key => a = b
    /\ \A a, b \in usage_ledger : a.job = b.job /\ a.key = b.key => a = b

\* The stage column is what the committed checkpoints say: none lies beyond it,
\* and past PLAN one of them is of exactly that stage.
StageIsCommitted ==
    \A j \in Jobs :
        /\ \A c \in checkpoints : c.job = j => c.stage <= jobs[j].stage
        /\ jobs[j].stage # PLAN =>
              \E c \in checkpoints : c.job = j /\ c.stage = jobs[j].stage

\* transition's promise "SUCCEEDED requires a committed VALIDATE checkpoint":
\* the guard reads the stage column, the promise is about the checkpoint row.
SucceededIsValidated ==
    \A j \in Jobs : jobs[j].status = "SUCCEEDED" =>
        \E c \in checkpoints : c.job = j /\ c.stage = VALIDATE

\* A job that is neither terminal nor VALIDATING is either offered to workers by
\* runnable_job_ids or held under a lease that has not run out: it cannot fall
\* out of sight (a RUNNING row without a lease would never be offered again).
NoInvisibleJob ==
    \A j \in Jobs : jobs[j].status \in {"QUEUED", "RUNNING", "RETRY_WAIT"} =>
        Runnable(jobs[j]) \/ jobs[j].left > 0

\* Only a RUNNING or VALIDATING job has a lease holder.
LeaseOnlyWhileActive ==
    \A j \in Jobs : jobs[j].owner # NoWorker => jobs[j].status \in {"RUNNING", "VALIDATING"}

\* A terminal job keeps its status, its stage, its error code and its checkpoints,
\* whatever late worker or client still calls the store about it.
TerminalIsFinal ==
    [][\A j \in Jobs : jobs[j].status \in TERMINAL =>
        /\ jobs'[j].status = jobs[j].status
        /\ jobs'[j].stage = jobs[j].stage
        /\ jobs'[j].error = jobs[j].error
        /\ \A c \in checkpoints' : c.job = j => c \in checkpoints]_vars

\* A lease passes from one worker straight to another only once it has run out.
LeaseNotStolen ==
    [][\A j \in Jobs :
        /\ jobs[j].owner # NoWorker
        /\ jobs'[j].owner \notin {NoWorker, jobs[j].owner}
        => jobs[j].left <= 0]_vars

\* Work done is never undone: no committed checkpoint or charge disappears, the
\* stage and the counters never go back, and a submitted request is never altered.
ProgressIsDurable ==
    [][/\ checkpoints \subseteq checkpoints'
       /\ usage_ledger \subseteq usage_ledger'
       /\ \A j \in Jobs : Exists(j) =>
            /\ jobs'[j].stage >= jobs[j].stage
            /\ \A r \in Resources : jobs'[j].used[r] >= jobs[j].used[r]
            /\ jobs'[j].key = jobs[j].key
            /\ jobs'[j].task = jobs[j].task
            /\ jobs'[j].max = jobs[j].max]_vars
=============================================================================
