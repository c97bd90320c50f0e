----------------------------- MODULE Retention -----------------------------
(***************************************************************************)
(* Retention, src/src/operations/retention.py, on the artifact store, the  *)
(* jobs table and the jobs' ledger files.  A plan is computed and reviewed *)
(* at one time and executed at another.  The execution moves files into    *)
(* the plan's quarantine, deletes rows in one transaction and then removes *)
(* the quarantine; every move is a step, and the process may be killed     *)
(* between any two of them.                                                *)
(*                                                                         *)
(* The other actors are what the plan must be safe against: a job that     *)
(* ends, a ledger that grows (a runner appends its commitment after the    *)
(* job has ended), artifacts that are put.  The maintenance lock of the    *)
(* code only excludes a second execution.  Under Quiesced the writers are  *)
(* also stopped while a plan is executed.                                  *)
(***************************************************************************)
EXTENDS ArtifactStore

CONSTANTS
    Plans,       \* plan_id values
    NoPlan,
    Quiesced,    \* writers are stopped while a plan is executed
    MaxEvents,   \* bound: events of one ledger
    MaxCrashes   \* bound: processes killed

ASSUME PlanAssumption == NoPlan \notin Plans
ASSUME BoundsAssumption == MaxEvents \in Nat /\ MaxCrashes \in Nat
ASSUME QuiescedAssumption == Quiesced \in BOOLEAN

VARIABLES
    status,      \* job -> "ACTIVE", a TERMINAL status in one, "DELETED": no row
    updated_at,  \* job -> when its row was written last: its place among the ends
    ledger,      \* job -> events in its ledger file; 0: no file
    plan,        \* plan_id -> the written plan
    quarantine,  \* plan_id -> maintenance/quarantine/<plan_id>
    exec,        \* the execution that holds the maintenance lock
    audit,       \* receipts of the retention audit log
    reopened,    \* history: plans executed again over their own quarantine
    crashes

retentionVars == <<status, updated_at, ledger, plan, quarantine, exec, audit,
                   reopened, crashes>>

\* A target of a plan with the preconditions of its deletion.
Target(j, at, n, bindings) ==
    [job |-> j, updated_at |-> at, events |-> n, bindings |-> bindings]

EmptyPlan == [pc |-> "none", cutoff |-> 0, todo |-> {}, targets |-> {}, blobs |-> {}]
NoQuarantine == [exists |-> FALSE, ledgers |-> [j \in Jobs |-> 0], blobs |-> {}]
NoExec == [pc |-> "idle", plan |-> NoPlan, ledgers |-> {}, blobs |-> {}]

RInit ==
    /\ AInit
    /\ status = [j \in Jobs |-> "ACTIVE"]
    /\ updated_at = [j \in Jobs |-> 0]
    /\ ledger = [j \in Jobs |-> 0]
    /\ plan = [p \in Plans |-> EmptyPlan]
    /\ quarantine = [p \in Plans |-> NoQuarantine]
    /\ exec = NoExec
    /\ audit = {}
    /\ reopened = {}
    /\ crashes = 0

WritersRun == Quiesced => exec.pc = "idle"

\* The transaction of an execution holds the write locks of both databases.
Locked == exec.pc = "moving"

-----------------------------------------------------------------------------
(***************************************************************************)
(* The actors around retention.                                            *)
(***************************************************************************)
Put(w) ==
    /\ \/ WritersRun /\ \E b \in Binding : status[b.job] # "DELETED" /\ PutLookup(w, b)
       \/ PutWrite(w)
       \/ ~Locked /\ PutCommit(w)
    /\ UNCHANGED retentionVars

KillWriter(w) ==
    /\ crashes < MaxCrashes
    /\ PutCrash(w)
    /\ crashes' = crashes + 1
    /\ UNCHANGED <<status, updated_at, ledger, plan, quarantine, exec, audit, reopened>>

Ended == {j \in Jobs : status[j] # "ACTIVE"}

\* The job ends: its row is written for the last time.
EndJob(j) ==
    /\ ~Locked /\ WritersRun
    /\ status[j] = "ACTIVE"
    /\ status' = [status EXCEPT ![j] = "TERMINAL"]
    /\ updated_at' = [updated_at EXCEPT ![j] = Cardinality(Ended) + 1]
    /\ UNCHANGED <<astoreVars, ledger, plan, quarantine, exec, audit, reopened, crashes>>

\* EventLedger.append by a worker or, after the end, by the runner.
Append(j) ==
    /\ WritersRun
    /\ status[j] # "DELETED"
    /\ ledger[j] < MaxEvents
    /\ ledger' = [ledger EXCEPT ![j] = @ + 1]
    /\ UNCHANGED <<astoreVars, status, updated_at, plan, quarantine, exec, audit,
                   reopened, crashes>>

-----------------------------------------------------------------------------
(***************************************************************************)
(* build_retention_plan and write_plan.  The jobs are read first, then     *)
(* each one's ledger and artifacts, then the blobs.                        *)
(***************************************************************************)
SetPlan(p, value) ==
    /\ plan' = [plan EXCEPT ![p] = value]
    /\ UNCHANGED <<astoreVars, status, updated_at, ledger, quarantine, exec, audit,
                   reopened, crashes>>

\* Terminal jobs with updated_at at or before the cutoff.
Eligible(cutoff) == {j \in Jobs : status[j] = "TERMINAL" /\ updated_at[j] <= cutoff}

PlanRead(p) ==
    /\ plan[p].pc = "none"
    /\ \E cutoff \in 1 .. Cardinality(Jobs) :
        /\ Eligible(cutoff) # {}
        /\ SetPlan(p, [EmptyPlan EXCEPT !.pc = "read", !.cutoff = cutoff,
                                        !.todo = Eligible(cutoff)])

\* A job without a ledger file raises, which ends the planning.
PlanTarget(p, j) ==
    /\ plan[p].pc = "read" /\ j \in plan[p].todo
    /\ SetPlan(p, IF ledger[j] = 0 THEN EmptyPlan
                  ELSE [plan[p] EXCEPT
                          !.todo = @ \ {j},
                          !.targets = @ \cup {Target(j, updated_at[j], ledger[j],
                                                     BindingsOf(j))}])

TargetJobs(p) == {t.job : t \in plan[p].targets}

\* A digest that no job outside the targets refers to.
Exclusive(d, targets) == \A r \in rows : r.digest = d => r.job \in targets

PlanDigests(p) ==
    {d \in Digests : /\ \E t \in plan[p].targets : \E b \in t.bindings : b.digest = d
                     /\ Exclusive(d, TargetJobs(p))}

\* A blob that is absent raises; otherwise the plan is digested and written.
PlanBlobs(p) ==
    /\ plan[p].pc = "read" /\ plan[p].todo = {}
    /\ SetPlan(p, IF PlanDigests(p) \subseteq blobs
                  THEN [plan[p] EXCEPT !.pc = "ready", !.blobs = PlanDigests(p)]
                  ELSE EmptyPlan)

-----------------------------------------------------------------------------
(***************************************************************************)
(* execute_retention_plan.                                                 *)
(***************************************************************************)

\* The lock is free; with Quiesced the writers have been stopped before.
MayExecute(p) ==
    /\ exec.pc = "idle"
    /\ plan[p].pc = "ready"
    /\ Quiesced => \A w \in Writers : put[w].pc = "idle"

Execute(p) ==
    /\ MayExecute(p)
    /\ ~quarantine[p].exists
    /\ audit' = audit \cup {[plan |-> p, event |-> "RETENTION_PREPARED"]}
    /\ quarantine' = [quarantine EXCEPT ![p].exists = TRUE]
    /\ exec' = [NoExec EXCEPT !.pc = "moving", !.plan = p]
    /\ UNCHANGED <<astoreVars, status, updated_at, ledger, plan, reopened, crashes>>

\* The quarantine of a killed execution is there: the call raises, and its
\* handler, which has moved nothing itself, removes the directory.
ExecuteAgain(p) ==
    /\ MayExecute(p)
    /\ quarantine[p].exists
    /\ audit' = audit \cup {[plan |-> p, event |-> e] :
                              e \in {"RETENTION_PREPARED", "RETENTION_ABORTED"}}
    /\ quarantine' = [quarantine EXCEPT ![p] = NoQuarantine]
    /\ reopened' = reopened \cup {p}
    /\ UNCHANGED <<astoreVars, status, updated_at, ledger, plan, exec, crashes>>

\* Mutant: the artifacts are not compared with the plan again.
TargetUnchangedButArtifacts(t, cutoff) ==
    /\ status[t.job] = "TERMINAL" /\ updated_at[t.job] = t.updated_at
    /\ updated_at[t.job] <= cutoff
    /\ ledger[t.job] = t.events

\* Row, bindings and ledger of a target are the ones that were reviewed.
TargetUnchanged(t, cutoff) ==
    /\ status[t.job] = "TERMINAL" /\ updated_at[t.job] = t.updated_at
    /\ updated_at[t.job] <= cutoff
    /\ BindingsOf(t.job) = t.bindings
    /\ ledger[t.job] = t.events

MoveLedger(t) ==
    /\ exec.pc = "moving"
    /\ t \in plan[exec.plan].targets /\ t.job \notin exec.ledgers
    /\ IF TargetUnchanged(t, plan[exec.plan].cutoff)
       THEN /\ quarantine' = [quarantine EXCEPT ![exec.plan].ledgers[t.job] = ledger[t.job]]
            /\ ledger' = [ledger EXCEPT ![t.job] = 0]
            /\ exec' = [exec EXCEPT !.ledgers = @ \cup {t.job}]
       ELSE exec' = [exec EXCEPT !.pc = "restore"] /\ UNCHANGED <<quarantine, ledger>>
    /\ UNCHANGED <<astoreVars, status, updated_at, plan, audit, reopened, crashes>>

LedgersMoved == exec.pc = "moving" /\ exec.ledgers = TargetJobs(exec.plan)

\* A planned blob is still there and gained no surviving reference.
BlobUnchanged(d) == d \in blobs /\ Exclusive(d, exec.ledgers)

MoveBlob(d) ==
    /\ LedgersMoved
    /\ d \in plan[exec.plan].blobs \ exec.blobs
    /\ IF BlobUnchanged(d)
       THEN /\ quarantine' = [quarantine EXCEPT ![exec.plan].blobs = @ \cup {d}]
            /\ blobs' = blobs \ {d}
            /\ exec' = [exec EXCEPT !.blobs = @ \cup {d}]
       ELSE exec' = [exec EXCEPT !.pc = "restore"] /\ UNCHANGED <<quarantine, blobs>>
    /\ UNCHANGED <<rows, put, status, updated_at, ledger, plan, audit, reopened, crashes>>

\* Both tables lose the targets in the transaction that COMMIT ends.
DeleteRows ==
    /\ LedgersMoved /\ exec.blobs = plan[exec.plan].blobs
    /\ rows' = {r \in rows : r.job \notin exec.ledgers}
    /\ status' = [j \in Jobs |-> IF j \in exec.ledgers THEN "DELETED" ELSE status[j]]
    /\ exec' = [exec EXCEPT !.pc = "purge"]
    /\ UNCHANGED <<blobs, put, updated_at, ledger, plan, quarantine, audit, reopened,
                   crashes>>

\* Mutant: the quarantine is left behind.
PurgeNothing ==
    /\ exec.pc = "purge"
    /\ exec' = [exec EXCEPT !.pc = "receipt"]
    /\ UNCHANGED <<astoreVars, status, updated_at, ledger, plan, quarantine, audit,
                   reopened, crashes>>

\* After the commit: the write-ahead logs are truncated, the quarantine goes.
Purge ==
    /\ exec.pc = "purge"
    /\ quarantine' = [quarantine EXCEPT ![exec.plan] = NoQuarantine]
    /\ exec' = [exec EXCEPT !.pc = "receipt"]
    /\ UNCHANGED <<astoreVars, status, updated_at, ledger, plan, audit, reopened, crashes>>

Receipt ==
    /\ exec.pc = "receipt"
    /\ audit' = audit \cup {[plan |-> exec.plan, event |-> "RETENTION_COMPLETED"]}
    /\ exec' = NoExec
    /\ UNCHANGED <<astoreVars, status, updated_at, ledger, plan, quarantine, reopened,
                   crashes>>

\* Mutant: the handler puts the blobs back but forgets the ledgers.
RestoredBlobsOnly(q) == [ledger |-> ledger, blobs |-> blobs \cup q.blobs]

\* A moved file goes back unless a file took its place.
Restored(q) ==
    [ledger |-> [j \in Jobs |-> IF ledger[j] = 0 THEN q.ledgers[j] ELSE ledger[j]],
     blobs |-> blobs \cup q.blobs]

\* The handler of a failure before the commit.
Restore ==
    /\ exec.pc = "restore"
    /\ ledger' = Restored(quarantine[exec.plan]).ledger
    /\ blobs' = Restored(quarantine[exec.plan]).blobs
    /\ quarantine' = [quarantine EXCEPT ![exec.plan] = NoQuarantine]
    /\ audit' = audit \cup {[plan |-> exec.plan, event |-> "RETENTION_ABORTED"]}
    /\ exec' = NoExec
    /\ UNCHANGED <<rows, put, status, updated_at, plan, reopened, crashes>>

\* The process is killed: its transaction rolls back, its files stay moved,
\* and the operating system drops its lock.
KillExecution ==
    /\ crashes < MaxCrashes
    /\ exec.pc # "idle"
    /\ exec' = NoExec
    /\ crashes' = crashes + 1
    /\ UNCHANGED <<astoreVars, status, updated_at, ledger, plan, quarantine, audit,
                   reopened>>

RetentionStep ==
    \/ \E w \in Writers : Put(w) \/ KillWriter(w)
    \/ \E j \in Jobs : EndJob(j) \/ Append(j)
    \/ \E p \in Plans : PlanRead(p) \/ PlanBlobs(p) \/ Execute(p) \/ ExecuteAgain(p)
    \/ \E p \in Plans, j \in Jobs : PlanTarget(p, j)
    \/ exec.plan # NoPlan /\ \E t \in plan[exec.plan].targets : MoveLedger(t)
    \/ \E d \in Digests : MoveBlob(d)
    \/ DeleteRows \/ Purge \/ Receipt \/ Restore \/ KillExecution

-----------------------------------------------------------------------------
(***************************************************************************)
(* Properties.                                                             *)
(***************************************************************************)

\* The files of a plan are still in its quarantine.
Quarantined(d) == \E p \in Plans : d \in quarantine[p].blobs
LedgerQuarantined(j) == \E p \in Plans : quarantine[p].ledgers[j] > 0

\* What execute_retention_plan promises of files: "Any pre-commit failure
\* restores moved files".  An artifact row has its blob, and a job that had a
\* ledger when a plan was made keeps it, in place or in a quarantine.
NothingIsLost ==
    /\ \A r \in rows : r.digest \in blobs \/ Quarantined(r.digest)
    /\ \A p \in Plans : \A t \in plan[p].targets :
        status[t.job] = "TERMINAL" => ledger[t.job] > 0 \/ LedgerQuarantined(t.job)

\* The one way to lose a file: a plan is executed again over the quarantine
\* that a killed execution of the same plan left.  Nothing else that planners,
\* executions, writers and kills do in any order loses one.
LossOnlyByReopening == reopened = {} => NothingIsLost

\* A job is deleted only with exactly the artifacts and the ledger that were
\* reviewed: what was added after the planning makes the execution abort.
DeletedAsReviewed ==
    [][\A j \in Jobs : status[j] # "DELETED" /\ status'[j] = "DELETED" =>
        \E t \in plan[exec.plan].targets :
            /\ t.job = j /\ status[j] = "TERMINAL"
            /\ BindingsOf(j) = t.bindings
            /\ quarantine[exec.plan].ledgers[j] = t.events]_<<astoreVars, retentionVars>>

\* A receipt RETENTION_COMPLETED is the truth: no row, artifact or ledger of a
\* target is left, nor anything in the plan's quarantine.  Another copy of a
\* ledger exists only where an execution of another plan was killed and left its
\* quarantine behind, before the ledger was started anew.
CompletedMeansErased ==
    \A p \in Plans : [plan |-> p, event |-> "RETENTION_COMPLETED"] \in audit =>
        /\ \A j \in TargetJobs(p) :
            status[j] = "DELETED" /\ BindingsOf(j) = {} /\ ledger[j] = 0
        /\ \A j \in TargetJobs(p), q \in Plans :
            quarantine[q].ledgers[j] > 0 => q # p /\ exec.plan # q /\ crashes > 0
        /\ quarantine[p].blobs = {}
=============================================================================
