------------------------------- MODULE Worker -------------------------------
(***************************************************************************)
(* ExecutionWorker.run_once (src/src/orchestration/worker.py) with the     *)
(* ExecutionContext it drives (runtime.py), on top of the job store and of *)
(* the per-job event ledger.  Several workers run it at once; a step of a  *)
(* worker is the work between two accesses to shared state, so anything    *)
(* may happen between two of them: another worker's steps, a cancellation  *)
(* through the API, the expiry of the lease, a crash.                      *)
(*                                                                         *)
(* A stage handler is external code: it returns one of Results, or raises. *)
(* A result stands for the events, the charge and the checkpoint content   *)
(* of its StageResult.  The events of a stage have one idempotency key,    *)
(* and a charge and a checkpoint key likewise name the stage.  The hash    *)
(* chain head a checkpoint stores is the ledger it was computed from.      *)
(***************************************************************************)
EXTENDS JobStore, Sequences

CONSTANTS
    Procs,         \* worker processes
    WorkerIds,     \* the ways worker_ids may be given to them, functions on Procs
    Results,       \* what a stage handler may return
    UsageOf,       \* the usage a result reports, a function on Results
    Rejected,      \* results whose events the finalization validator refuses
    MaxAttempts,   \* max_attempts
    MaxCrashes     \* bound: worker processes killed in a behaviour

\* The error codes run_once and finalize_with_validator pass to transition; the four
\* codes of a failed stage, which nothing reads, are one.
Codes == {"STAGE_ERROR", "LEASE_LOST", "EVIDENCE_INVARIANT_FAILED"}

ASSUME WorkerConstants ==
    /\ WorkerIds \subseteq [Procs -> Workers] /\ WorkerIds # {}
    /\ Results # {} /\ Jobs # {}
    /\ Codes \subseteq ErrorCodes
    /\ UsageOf \in [Results -> Usages]
    /\ Rejected \subseteq Results
    /\ MaxAttempts \in Nat \ {0}
    /\ MaxCrashes \in Nat

VARIABLES
    ledger,        \* job_id -> events of its events.jsonl
    wk,            \* worker -> the local variables of its run_once
    crashes,       \* worker processes killed so far
    worker_id      \* the worker_id each process was started with

wvars == <<jobs, checkpoints, usage_ledger, ledger, wk, crashes, worker_id>>

storeVars == <<jobs, checkpoints, usage_ledger>>

EXECUTION_STAGES == Stage \ {VALIDATE}

Idle(job) == [pc |-> "idle", job |-> job, stage |-> PLAN, committed |-> {},
              result |-> CHOOSE r \in Results : TRUE, head |-> <<>>,
              retryable |-> FALSE, target |-> "FAILED", code |-> "STAGE_ERROR"]

WInit ==
    /\ Init
    /\ ledger = [j \in Jobs |-> <<>>]
    /\ wk = [p \in Procs |-> Idle(CHOOSE j \in Jobs : TRUE)]
    /\ crashes = 0
    /\ worker_id \in WorkerIds

-----------------------------------------------------------------------------
(***************************************************************************)
(* Local control.                                                          *)
(***************************************************************************)

At(p, pc) == wk[p].pc = pc

Become(p, local) == wk' = [wk EXCEPT ![p] = local]

Goto(p, pc) == Become(p, [wk[p] EXCEPT !.pc = pc])

\* run_once returns: its local variables are gone.
Return(p) == Become(p, Idle(wk[p].job))

\* An exception reaches the handler of run_once that calls _fail.
Raise(p, retryable, code) ==
    Become(p, [Idle(wk[p].job) EXCEPT !.pc = "fail",
                                     !.retryable = retryable, !.code = code])

\* Mutant: off by one, the stage at the loop's position is skipped.
RemainingAfter(p) == {s \in EXECUTION_STAGES : s > wk[p].stage /\ s \notin wk[p].committed}

\* The execution stages this attempt still has to run, as run_once's loop sees
\* them: from its position on, without those committed when it loaded them.
Remaining(p) == {s \in EXECUTION_STAGES : s >= wk[p].stage /\ s \notin wk[p].committed}

NextStage(p) == CHOOSE s \in Remaining(p) : \A t \in Remaining(p) : s <= t

-----------------------------------------------------------------------------
(***************************************************************************)
(* _claim, and the load of the committed checkpoint keys.  A worker bound  *)
(* to a job_id tries acquire_lease on it whatever runnable_job_ids says.   *)
(***************************************************************************)

Claim(p) ==
    /\ At(p, "idle")
    /\ \E j \in Jobs, lease \in LeaseSeconds, d \in Delays :
            /\ acquire_lease(j, worker_id[p], lease, d)
            /\ Become(p, [Idle(j) EXCEPT !.pc = "load"])
    /\ UNCHANGED <<ledger, crashes, worker_id>>

Load(p) ==
    /\ At(p, "load")
    /\ Become(p, [wk[p] EXCEPT !.pc = "check",
            !.committed = {c.key : c \in {c \in checkpoints : c.job = wk[p].job}}])
    /\ UNCHANGED <<storeVars, ledger, crashes, worker_id>>

(***************************************************************************)
(* The head of the stage loop re-reads the job before each stage, then     *)
(* calls the handler, which returns a result or raises: RetryableStageError *)
(* and any unexpected exception are retried, the fatal ones are not.  The  *)
(* handler touches none of the state modelled here, so it may as well      *)
(* return at once and the worker wait after it.                            *)
(***************************************************************************)

Handle(p) ==
    \/ \E r \in Results :
            Become(p, [wk[p] EXCEPT !.pc = "emit", !.stage = NextStage(p), !.result = r])
    \/ \E retryable \in BOOLEAN : Raise(p, retryable, "STAGE_ERROR")

CheckStage(p) ==
    /\ At(p, "check")
    /\ Remaining(p) # {}
    /\ CASE jobs[wk[p].job].status = "CANCELLED" -> Return(p)
         [] jobs[wk[p].job].status = "RUNNING"   -> Handle(p)
         [] OTHER                                -> Raise(p, FALSE, "STAGE_ERROR")
    /\ UNCHANGED <<storeVars, ledger, crashes, worker_id>>

(***************************************************************************)
(* context.emit: an idempotent append to the ledger, no lease needed.  A   *)
(* stage emitted before with other content is an IdempotencyConflict.      *)
(***************************************************************************)

Event(p) == [key |-> wk[p].stage, result |-> wk[p].result]

EmittedAs(j, key) == {ledger[j][i].result : i \in {i \in DOMAIN ledger[j] : ledger[j][i].key = key}}

\* Mutant: any event with the stage's key counts as the same one.
EmitKeyOnly(p) ==
    LET j == wk[p].job
    IN  /\ At(p, "emit")
        /\ ledger' = IF EmittedAs(j, wk[p].stage) = {}
                     THEN [ledger EXCEPT ![j] = Append(@, Event(p))] ELSE ledger
        /\ Goto(p, "charge")
        /\ UNCHANGED <<storeVars, crashes, worker_id>>

Emit(p) ==
    LET j == wk[p].job
        before == EmittedAs(j, wk[p].stage)
    IN  /\ At(p, "emit")
        /\ \/ /\ before = {}
              /\ ledger' = [ledger EXCEPT ![j] = Append(@, Event(p))]
              /\ Goto(p, "charge")
           \/ /\ before = {wk[p].result}
              /\ Goto(p, "charge")
              /\ UNCHANGED ledger
           \/ /\ before \notin {{}, {wk[p].result}}
              /\ Raise(p, FALSE, "STAGE_ERROR")
              /\ UNCHANGED ledger
        /\ UNCHANGED <<storeVars, crashes, worker_id>>

(***************************************************************************)
(* context.charge: no lease needed either.  A repeated charge is free, one *)
(* with other usage or past the budget is fatal.                           *)
(***************************************************************************)

ChargeStage(p) ==
    LET j == wk[p].job
        key == wk[p].stage
        usage == UsageOf[wk[p].result]
        before == {u.usage : u \in {u \in usage_ledger : u.job = j /\ u.key = key}}
    IN  /\ At(p, "charge")
        /\ \/ /\ charge(j, key, usage)
              /\ Goto(p, "verify")
           \/ /\ before = {usage}
              /\ Goto(p, "verify")
              /\ UNCHANGED storeVars
           \/ /\ IF before = {} THEN ~WithinBudget(jobs[j], usage) ELSE before # {usage}
              /\ Raise(p, FALSE, "STAGE_ERROR")
              /\ UNCHANGED storeVars
        /\ UNCHANGED <<ledger, crashes, worker_id>>

(***************************************************************************)
(* context.checkpoint: verify the ledger, then commit its head with the    *)
(* stage under the lease.                                                  *)
(***************************************************************************)

Verify(p) ==
    /\ At(p, "verify")
    /\ Become(p, [wk[p] EXCEPT !.pc = "save", !.head = ledger[wk[p].job]])
    /\ UNCHANGED <<storeVars, ledger, crashes, worker_id>>

\* save_checkpoint and the exceptions it raises.
Save(p, stage, payload, next) ==
    \E d \in Delays :
        \/ /\ save_checkpoint(wk[p].job, worker_id[p], stage, stage, payload, d)
           /\ Become(p, next)
        \/ /\ ~HoldsLease(jobs[wk[p].job], worker_id[p], d)
           /\ Become(p, [Idle(wk[p].job) EXCEPT !.pc = "lost"])
           /\ UNCHANGED storeVars
        \/ /\ HoldsLease(jobs[wk[p].job], worker_id[p], d)
           /\ \/ ~StageForward(jobs[wk[p].job], stage)
              \/ ~CheckpointFits(wk[p].job, stage, stage, payload)
           /\ Raise(p, FALSE, "STAGE_ERROR")
           /\ UNCHANGED storeVars

Checkpoint(p) ==
    /\ At(p, "save")
    /\ Save(p, wk[p].stage, [result |-> wk[p].result, head |-> wk[p].head],
            [Idle(wk[p].job) EXCEPT !.pc = "check", !.stage = wk[p].stage + 1,
                                    !.committed = wk[p].committed])
    /\ UNCHANGED <<ledger, crashes, worker_id>>

-----------------------------------------------------------------------------
(***************************************************************************)
(* finalize_with_validator, once no stage remains: validate the ledger and *)
(* refuse it, or commit the VALIDATE checkpoint (with its own, later,      *)
(* reading of the ledger) and take the job through VALIDATING to SUCCEEDED *)
(* in two transactions.                                                    *)
(***************************************************************************)

Accepted(events) == \A i \in DOMAIN events : events[i].result \notin Rejected

\* Mutant: the validator's verdict is ignored.
ValidateNothing(p) ==
    /\ At(p, "check")
    /\ Remaining(p) = {}
    /\ Goto(p, "seal")
    /\ UNCHANGED <<storeVars, ledger, crashes, worker_id>>

Validate(p) ==
    /\ At(p, "check")
    /\ Remaining(p) = {}
    /\ Goto(p, IF Accepted(ledger[wk[p].job]) THEN "seal" ELSE "refuse")
    /\ UNCHANGED <<storeVars, ledger, crashes, worker_id>>

\* A transition of the finalizer; an illegal one raises IllegalTransition.
MoveJob(p, target, code, release, next) ==
    \/ /\ transition(wk[p].job, target, 0, code, release)
       /\ Become(p, next)
    \/ /\ \/ target \notin ALLOWED_STATUS(jobs[wk[p].job].status)
          \/ ~StageAdmits(jobs[wk[p].job], target)
       /\ Raise(p, FALSE, "STAGE_ERROR")
       /\ UNCHANGED storeVars

Refuse(p) ==
    /\ At(p, "refuse")
    /\ MoveJob(p, "FAILED", "EVIDENCE_INVARIANT_FAILED", TRUE, Idle(wk[p].job))
    /\ UNCHANGED <<ledger, crashes, worker_id>>

Seal(p) ==
    /\ At(p, "seal")
    /\ Become(p, [wk[p] EXCEPT !.pc = "commit", !.head = ledger[wk[p].job]])
    /\ UNCHANGED <<storeVars, ledger, crashes, worker_id>>

CommitValidation(p) ==
    /\ At(p, "commit")
    /\ Save(p, VALIDATE, [result |-> Idle(wk[p].job).result, head |-> wk[p].head],
            [Idle(wk[p].job) EXCEPT !.pc = "validating"])
    /\ UNCHANGED <<ledger, crashes, worker_id>>

ToValidating(p) ==
    /\ At(p, "validating")
    /\ MoveJob(p, "VALIDATING", NoError, FALSE, [wk[p] EXCEPT !.pc = "succeed"])
    /\ UNCHANGED <<ledger, crashes, worker_id>>

ToSucceeded(p) ==
    /\ At(p, "succeed")
    /\ MoveJob(p, "SUCCEEDED", NoError, TRUE, Idle(wk[p].job))
    /\ UNCHANGED <<ledger, crashes, worker_id>>

-----------------------------------------------------------------------------
(***************************************************************************)
(* The exception paths.  A LeaseConflict looks at the job first; _fail     *)
(* reads the job, decides, and writes in a transaction of its own, without *)
(* asking who holds the lease by then.                                     *)
(***************************************************************************)

LeaseLost(p) ==
    /\ At(p, "lost")
    /\ IF jobs[wk[p].job].status = "CANCELLED"
       THEN Return(p)
       ELSE Raise(p, TRUE, "LEASE_LOST")
    /\ UNCHANGED <<storeVars, ledger, crashes, worker_id>>

FailTarget(p) ==
    IF wk[p].retryable /\ jobs[wk[p].job].attempts < MaxAttempts
    THEN "RETRY_WAIT" ELSE "FAILED"

FailRead(p) ==
    /\ At(p, "fail")
    /\ IF jobs[wk[p].job].status \in TERMINAL
       THEN Return(p)
       ELSE Become(p, [wk[p] EXCEPT !.pc = "give_up", !.target = FailTarget(p)])
    /\ UNCHANGED <<storeVars, ledger, crashes, worker_id>>

\* An IllegalTransition raised here leaves run_once: the attempt is over.
FailWrite(p) ==
    /\ At(p, "give_up")
    /\ \/ transition(wk[p].job, wk[p].target, 0, wk[p].code, TRUE)
       \/ /\ wk[p].target \notin ALLOWED_STATUS(jobs[wk[p].job].status)
          /\ UNCHANGED storeVars
    /\ Return(p)
    /\ UNCHANGED <<ledger, crashes, worker_id>>

-----------------------------------------------------------------------------
(***************************************************************************)
(* The rest of the world.                                                  *)
(***************************************************************************)

\* POST /v1/jobs
Submit(j) ==
    /\ \E key \in RequestKeys, task \in Tasks, max \in Budgets :
            create_job(j, key, task, max)
    /\ UNCHANGED <<ledger, wk, crashes, worker_id>>

\* POST /v1/jobs/{id}/cancel: refused with 409 or answered as is when terminal.
Cancel(j) ==
    /\ transition(j, "CANCELLED", 0, NoError, TRUE)
    /\ UNCHANGED <<ledger, wk, crashes, worker_id>>

\* The worker process dies; the next one starts with the same worker_id.
Crash(p) ==
    /\ crashes < MaxCrashes
    /\ ~At(p, "idle")
    /\ crashes' = crashes + 1
    /\ Return(p)
    /\ UNCHANGED <<storeVars, ledger, worker_id>>

TimePasses == Tick /\ UNCHANGED <<ledger, wk, crashes, worker_id>>

Step(p) ==
    \/ Load(p) \/ CheckStage(p) \/ Emit(p)
    \/ ChargeStage(p) \/ Verify(p) \/ Checkpoint(p) \/ Validate(p) \/ Refuse(p)
    \/ Seal(p) \/ CommitValidation(p) \/ ToValidating(p) \/ ToSucceeded(p)
    \/ LeaseLost(p) \/ FailRead(p) \/ FailWrite(p)

WNext ==
    \/ \E p \in Procs : Claim(p) \/ Step(p) \/ Crash(p)
    \/ \E j \in Jobs : Submit(j) \/ Cancel(j)
    \/ TimePasses

WSpec == WInit /\ [][WNext]_wvars

-----------------------------------------------------------------------------
(***************************************************************************)
(* Fairness: a live worker process keeps executing, some worker keeps      *)
(* asking for work (run_once is called in a loop), and the clock runs.     *)
(***************************************************************************)
Fairness ==
    /\ \A p \in Procs : WF_wvars(Claim(p)) /\ WF_wvars(Step(p))
    /\ WF_wvars(TimePasses)

FairSpec == WSpec /\ Fairness

-----------------------------------------------------------------------------
(***************************************************************************)
(* Properties.                                                             *)
(***************************************************************************)

Committed(j) == {c.stage : c \in {c \in checkpoints : c.job = j}}

\* However attempts, workers and crashes interleave, stages commit in the order
\* of STAGE_ORDER without a gap: a resumed attempt skips only finished stages.
StagesCommitInOrder ==
    \A j \in Jobs : \A s \in Committed(j) : 0 .. s \subseteq Committed(j)

\* A checkpoint never vouches for evidence the ledger does not hold: the head it
\* stores is a prefix of the ledger, and a stage's head contains the stage's own
\* event with the result the checkpoint records.
CheckpointIsBackedByLedger ==
    \A c \in checkpoints :
        LET head == c.payload.head
            events == ledger[c.job]
        IN  /\ Len(head) <= Len(events) /\ head = SubSeq(events, 1, Len(head))
            /\ c.stage # VALIDATE =>
                \E i \in DOMAIN head : head[i] = [key |-> c.stage, result |-> c.payload.result]

\* A SUCCEEDED job finished every stage, paid for every stage, and the ledger it
\* was sealed with passed the validator.
SuccessIsEarned ==
    \A j \in Jobs : jobs[j].status = "SUCCEEDED" =>
        /\ Committed(j) = Stage
        /\ \A s \in EXECUTION_STAGES : ChargeRecorded(j, s)
        /\ \A c \in checkpoints :
            c.job = j /\ c.stage = VALIDATE => Accepted(c.payload.head) /\ c.payload.head = ledger[j]

\* Implementation of the submitter's view.
PhaseOf(j) ==
    CASE jobs[j].status = "ABSENT"    -> "none"
      [] jobs[j].status = "SUCCEEDED" -> "succeeded"
      [] jobs[j].status = "FAILED"    -> "failed"
      [] jobs[j].status = "CANCELLED" -> "cancelled"
      [] OTHER                        -> "open"

Abstract == INSTANCE JobLifecycle WITH
    StageCount <- LastStage + 1,
    phase <- [j \in Jobs |-> PhaseOf(j)],
    done <- [j \in Jobs |-> Cardinality(Committed(j))]

\* The workers on the job store implement the lifecycle promised to a submitter.
ImplementsLifecycle == Abstract!Spec

\* Liveness: whatever leases expire and whichever bounded number of workers
\* crashes, a submitted job stops being claimable: it ends, or it reaches the
\* VALIDATING status between the last two transactions of the finalizer.
EveryJobSettles ==
    \A j \in Jobs : Exists(j) ~> jobs[j].status \in TERMINAL \cup {"VALIDATING"}

\* The recovery promise: every submitted job ends, crash or not.
EveryJobEnds ==
    \A j \in Jobs : Exists(j) ~> jobs[j].status \in TERMINAL

\* The lease promise: while a worker's lease runs, nobody but that worker (or a
\* cancellation) takes the job out of its hands.
LeaseExcludesOthers ==
    [][\A j \in Jobs, p \in Procs :
        /\ jobs[j].status = "RUNNING" /\ jobs[j].owner = worker_id[p] /\ jobs[j].left > 0
        /\ jobs'[j].owner # worker_id[p]
        => wk'[p] # wk[p] \/ jobs'[j].status = "CANCELLED"]_wvars
=============================================================================
