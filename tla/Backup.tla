------------------------------ MODULE Backup ------------------------------
(***************************************************************************)
(* Backup and restore, src/src/operations/backup.py, beside running        *)
(* writers and retention.  create_backup takes no lock on the system: it   *)
(* snapshots the jobs, then the artifact index, then copies the blobs the  *)
(* snapshot names, then the ledger files it finds, and publishes the       *)
(* result under its final name once verify_backup accepts it.              *)
(***************************************************************************)
EXTENDS Retention

VARIABLES
    backup,     \* the staging directory, and under pc = "done" the published one
    restored    \* a restore of it has been published

backupVars == <<backup, restored>>
storageVars == <<astoreVars, retentionVars, backupVars>>

NoBackup ==
    [pc |-> "none", jobs |-> {}, rows |-> {}, blobs |-> {}, found |-> {},
     ledgers |-> [j \in Jobs |-> 0],
     since |-> [j \in Jobs |-> 0]]  \* history: the ledgers when the jobs were read

BInit == RInit /\ backup = NoBackup /\ restored = FALSE

Stage(value) ==
    /\ backup' = value
    /\ UNCHANGED <<astoreVars, retentionVars, restored>>

\* The output must not exist yet.
SnapshotJobs ==
    /\ backup.pc = "none"
    /\ Stage([NoBackup EXCEPT !.pc = "rows", !.since = ledger,
                              !.jobs = {j \in Jobs : status[j] # "DELETED"}])

SnapshotRows ==
    /\ backup.pc = "rows"
    /\ Stage([backup EXCEPT !.pc = "blobs", !.rows = rows])

StagedDigests == {r.digest : r \in backup.rows}

\* Each indexed blob is copied once; one that is gone fails the backup.
CopyBlob ==
    /\ backup.pc = "blobs"
    /\ \E d \in StagedDigests \ backup.blobs :
        Stage(IF d \in blobs THEN [backup EXCEPT !.blobs = @ \cup {d}] ELSE NoBackup)

\* Mutant: only jobs with artifacts are looked for.
ListLedgersOfRows ==
    /\ backup.pc = "blobs" /\ backup.blobs = StagedDigests
    /\ Stage([backup EXCEPT !.pc = "ledgers",
                   !.found = {j \in Jobs : ledger[j] > 0 /\ \E r \in backup.rows : r.job = j}])

ListLedgers ==
    /\ backup.pc = "blobs" /\ backup.blobs = StagedDigests
    /\ Stage([backup EXCEPT !.pc = "ledgers", !.found = {j \in Jobs : ledger[j] > 0}])

\* Under a shared lock; a ledger that is gone since the listing fails.
CopyLedger(j) ==
    /\ backup.pc = "ledgers" /\ j \in backup.found
    /\ Stage(IF ledger[j] > 0
                THEN [backup EXCEPT !.found = @ \ {j}, !.ledgers[j] = ledger[j]]
                ELSE NoBackup)

\* verify_backup: the files are the manifest's, and every row has its blob.
Verified == \A r \in backup.rows : r.digest \in backup.blobs

Publish ==
    /\ backup.pc = "ledgers" /\ backup.found = {}
    /\ Verified
    /\ Stage([backup EXCEPT !.pc = "done", !.since = NoBackup.since])

\* restore_backup copies a verified backup into a directory that must not
\* exist, and verifies the copy.
RestoreBackup ==
    /\ backup.pc = "done" /\ ~restored
    /\ Verified
    /\ restored' = TRUE
    /\ UNCHANGED <<astoreVars, retentionVars, backup>>

\* The backup process is killed: the staging directory is abandoned.
KillBackup ==
    /\ crashes < MaxCrashes
    /\ backup.pc \notin {"none", "done"}
    /\ backup' = NoBackup
    /\ crashes' = crashes + 1
    /\ UNCHANGED <<astoreVars, status, updated_at, ledger, plan, quarantine, exec, audit,
                   reopened, restored>>

BNext ==
    \/ RetentionStep /\ UNCHANGED backupVars
    \/ SnapshotJobs \/ SnapshotRows \/ CopyBlob \/ ListLedgers \/ Publish
    \/ \E j \in Jobs : CopyLedger(j)
    \/ RestoreBackup \/ KillBackup

StorageSpec == BInit /\ [][BNext]_storageVars

-----------------------------------------------------------------------------
\* Retention has started to delete the job: its files move while it runs.
Touched(j) ==
    \E p \in Plans : /\ [plan |-> p, event |-> "RETENTION_PREPARED"] \in audit
                     /\ j \in TargetJobs(p)

\* A published backup is a restore point although jobs, writers and retention
\* went on while it was taken, without a lock: its index finds every blob, and
\* a job it holds has a ledger that is not older than the job's row, unless a
\* retention plan for that very job was being executed.
RestorePoint ==
    [][backup.pc # "done" /\ backup'.pc = "done" =>
        /\ \A r \in backup'.rows : r.digest \in backup'.blobs
        /\ \A j \in backup'.jobs :
            ~Touched(j) => backup'.ledgers[j] >= backup.since[j]]_storageVars
=============================================================================
