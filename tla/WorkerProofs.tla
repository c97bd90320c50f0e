---------------------------- MODULE WorkerProofs ----------------------------
(***************************************************************************)
(* What the workers guarantee on top of the job store, for any number of   *)
(* jobs, processes, worker ids, stages, leases, attempts and crashes: the  *)
(* three safety invariants of module Worker, and that the workers          *)
(* implement the lifecycle promised to a submitter.                        *)
(*                                                                         *)
(* Nothing here rests on the lease: two processes may hold the same id,    *)
(* and a worker whose lease was taken keeps emitting and charging.  What   *)
(* carries the proof is that the shared state only grows (Grows): what a   *)
(* worker knows of it stays true, whoever comes between two of its steps.  *)
(* And the ledger of a job stops growing once every stage is committed,    *)
(* because each stage has its event by then: what the validator has seen   *)
(* is what the job is sealed with.                                         *)
(***************************************************************************)
EXTENDS Worker, JobStoreProofs, FiniteSetTheorems, WellFoundedInduction

EventRow == [key : EXECUTION_STAGES, result : Results]
SavedPayload == [result : Results, head : Seq(EventRow)]
SavedRow == [job : Jobs, key : Stage, stage : Stage, payload : SavedPayload]

\* Places of run_once: in a stage, after its event, after its charge.
InStage == {"emit", "charge", "verify", "save"}
Emitted == {"charge", "verify", "save"}
AfterCharge == {"verify", "save"}
Sealing == {"seal", "commit"}

Places == {"idle", "load", "check", "refuse", "validating", "succeed", "lost", "fail",
           "give_up"} \cup InStage \cup Sealing

Local == [pc : Places, job : Jobs, stage : Stage, committed : SUBSET Stage,
          result : Results, head : Seq(EventRow), retryable : BOOLEAN,
          target : {"RETRY_WAIT", "FAILED"}, code : Codes]

\* The facts about the shared tables, as operators of their contents.
Done(cps, j) == {c.stage : c \in {c \in cps : c.job = j}}
Paid(usage, j, key) == \E u \in usage : u.job = j /\ u.key = key
Holds(events, stage, result) ==
    \E i \in DOMAIN events : events[i] = [key |-> stage, result |-> result]
Extends(new, old) ==
    Len(old) <= Len(new) /\ \A i \in 1 .. Len(old) : old[i] = new[i]

\* A committed checkpoint: its stages below are committed, its head is in the
\* ledger and holds its event, its stage is paid for; the VALIDATE checkpoint
\* holds the whole ledger, which the validator accepted.
SavedOK(c, cps, usage, led) ==
    /\ c \in SavedRow /\ c.key = c.stage
    /\ \A s \in Stage : s <= c.stage => s \in Done(cps, c.job)
    /\ Extends(led[c.job], c.payload.head)
    /\ c.stage # VALIDATE =>
        Holds(c.payload.head, c.stage, c.payload.result) /\ Paid(usage, c.job, c.stage)
    /\ c.stage = VALIDATE => Accepted(c.payload.head) /\ c.payload.head = led[c.job]

\* What a worker at its place knows of the shared state.
LocalOK(l, cps, usage, led) ==
    /\ l.committed \subseteq Done(cps, l.job)
    /\ l.pc = "load" => l.stage = PLAN
    /\ l.pc \in {"check"} \cup InStage => \A s \in Stage : s < l.stage => s \in Done(cps, l.job)
    /\ l.pc \in InStage => l.stage # VALIDATE
    /\ l.pc \in Emitted => Holds(led[l.job], l.stage, l.result)
    /\ l.pc \in AfterCharge => Paid(usage, l.job, l.stage)
    /\ l.pc = "save" => Extends(led[l.job], l.head) /\ Holds(l.head, l.stage, l.result)
    /\ l.pc \in Sealing => EXECUTION_STAGES \subseteq Done(cps, l.job) /\ Accepted(led[l.job])
    /\ l.pc = "commit" => l.head = led[l.job]

\* The rows of the jobs: success is at VALIDATE, which is committed.
RowsOK ==
    \A j \in Jobs :
        /\ jobs[j].stage = VALIDATE => VALIDATE \in Done(checkpoints, j)
        /\ jobs[j].status = "SUCCEEDED" => jobs[j].stage = VALIDATE

SavedInv == \A c \in checkpoints : SavedOK(c, checkpoints, usage_ledger, ledger)
LocalInv == \A p \in Procs : LocalOK(wk[p], checkpoints, usage_ledger, ledger)

WType ==
    /\ jobs \in [Jobs -> Row]
    /\ ledger \in [Jobs -> Seq(EventRow)]
    /\ wk \in [Procs -> Local]
    /\ worker_id \in [Procs -> Workers]

WInv == WType /\ RowsOK /\ SavedInv /\ LocalInv

\* The tables only grow, and a ledger whose stages are all committed is final.
Grows(cps, cps2, usage, usage2, led, led2) ==
    /\ cps \subseteq cps2
    /\ usage \subseteq usage2
    /\ \A j \in Jobs :
        /\ Extends(led2[j], led[j])
        /\ EXECUTION_STAGES \subseteq Done(cps, j) => led2[j] = led[j]

-----------------------------------------------------------------------------
\* Stages are natural numbers from PLAN to VALIDATE, and there are two at least.
LEMMA StageFacts ==
    /\ Stage \subseteq Nat /\ VALIDATE \in Stage /\ PLAN \in Stage /\ PLAN # VALIDATE
    /\ PLAN = 0 /\ VALIDATE = LastStage
    /\ \A s \in Stage : PLAN <= s /\ s <= VALIDATE
    /\ \A s \in EXECUTION_STAGES : s \in Stage /\ s < VALIDATE /\ s + 1 \in Stage
  BY StageAssumption DEF Stage, VALIDATE, PLAN, EXECUTION_STAGES

\* A head that is in the ledger stays in it when the ledger grows.
LEMMA ExtendsTrans ==
    ASSUME NEW a \in Seq(EventRow), NEW b \in Seq(EventRow), NEW c \in Seq(EventRow),
           Extends(b, a), Extends(c, b)
    PROVE  Extends(c, a)
<1>1. Len(a) \in Nat /\ Len(b) \in Nat /\ Len(c) \in Nat
  OBVIOUS
<1> QED
  BY <1>1 DEF Extends

\* So does an event.
LEMMA HoldsExtends ==
    ASSUME NEW a \in Seq(EventRow), NEW b \in Seq(EventRow), NEW stage, NEW result,
           Extends(b, a), Holds(a, stage, result)
    PROVE  Holds(b, stage, result)
<1>1. Len(a) \in Nat /\ Len(b) \in Nat /\ DOMAIN a = 1 .. Len(a) /\ DOMAIN b = 1 .. Len(b)
  OBVIOUS
<1> QED
  BY <1>1 DEF Extends, Holds

\* Every sequence is in itself.
LEMMA ExtendsSelf == ASSUME NEW a \in Seq(EventRow) PROVE Extends(a, a)
  BY DEF Extends

\* What is committed stays committed.
LEMMA DoneGrows ==
    ASSUME NEW cps, NEW cps2, cps \subseteq cps2, NEW j
    PROVE  Done(cps, j) \subseteq Done(cps2, j)
  BY DEF Done

\* A checkpoint stays good when the tables grow.
LEMMA SavedGrows ==
    ASSUME NEW cps, NEW cps2, NEW usage, NEW usage2,
           NEW led \in [Jobs -> Seq(EventRow)], NEW led2 \in [Jobs -> Seq(EventRow)],
           Grows(cps, cps2, usage, usage2, led, led2),
           NEW c, SavedOK(c, cps, usage, led)
    PROVE  SavedOK(c, cps2, usage2, led2)
<1>1. /\ c \in SavedRow /\ c.job \in Jobs /\ c.payload.head \in Seq(EventRow)
      /\ c.stage \in Stage
  BY DEF SavedOK, SavedRow, SavedPayload
<1>2. Done(cps, c.job) \subseteq Done(cps2, c.job)
  BY DoneGrows DEF Grows
<1>3. Extends(led2[c.job], c.payload.head)
  BY <1>1, ExtendsTrans DEF SavedOK, Grows
<1>4. Paid(usage, c.job, c.stage) => Paid(usage2, c.job, c.stage)
  BY DEF Paid, Grows
<1>5. c.stage = VALIDATE => led2[c.job] = led[c.job]
  <2>1. c.stage = VALIDATE => EXECUTION_STAGES \subseteq Done(cps, c.job)
    BY StageFacts DEF SavedOK
  <2> QED BY <1>1, <2>1 DEF Grows
<1> QED
  BY <1>1, <1>2, <1>3, <1>4, <1>5 DEF SavedOK

\* What a worker knows stays true when the tables grow.
LEMMA LocalGrows ==
    ASSUME NEW cps, NEW cps2, NEW usage, NEW usage2,
           NEW led \in [Jobs -> Seq(EventRow)], NEW led2 \in [Jobs -> Seq(EventRow)],
           Grows(cps, cps2, usage, usage2, led, led2),
           NEW l \in Local, LocalOK(l, cps, usage, led)
    PROVE  LocalOK(l, cps2, usage2, led2)
<1>1. l.job \in Jobs /\ l.head \in Seq(EventRow)
  BY DEF Local
<1>2. Done(cps, l.job) \subseteq Done(cps2, l.job)
  BY DoneGrows DEF Grows
<1>3. Extends(led2[l.job], led[l.job])
  BY <1>1 DEF Grows
<1>4. l.pc = "save" => Extends(led2[l.job], l.head)
  BY <1>1, <1>3, ExtendsTrans DEF LocalOK
<1>5. l.pc \in Emitted => Holds(led2[l.job], l.stage, l.result)
  BY <1>1, <1>3, HoldsExtends DEF LocalOK
<1>6. Paid(usage, l.job, l.stage) => Paid(usage2, l.job, l.stage)
  BY DEF Paid, Grows
<1>7. l.pc \in Sealing => led2[l.job] = led[l.job]
  BY <1>1 DEF LocalOK, Grows
<1>8. l.pc = "commit" => l.pc \in Sealing
  BY DEF Sealing
<1> QED
  BY <1>2, <1>4, <1>5, <1>6, <1>7, <1>8 DEF LocalOK

\* The store and the ledger step together: every worker but one is left alone.
LEMMA Combine ==
    ASSUME WInv, jobs' \in [Jobs -> Row], ledger' \in [Jobs -> Seq(EventRow)],
           RowsOK', worker_id' = worker_id,
           Grows(checkpoints, checkpoints', usage_ledger, usage_ledger', ledger, ledger'),
           \A c \in checkpoints' \ checkpoints :
               SavedOK(c, checkpoints', usage_ledger', ledger'),
           NEW p \in Procs, NEW l \in Local,
           LocalOK(l, checkpoints', usage_ledger', ledger'),
           wk' = [wk EXCEPT ![p] = l]
    PROVE  WInv'
<1>1. WType'
  BY DEF WInv, WType
<1>2. \A c \in checkpoints : SavedOK(c, checkpoints', usage_ledger', ledger')
  BY SavedGrows DEF WInv, WType, SavedInv
<1>3. \A q \in Procs : LocalOK(wk[q], checkpoints', usage_ledger', ledger')
  BY LocalGrows DEF WInv, WType, LocalInv
<1>4. \A q \in Procs : wk'[q] = IF q = p THEN l ELSE wk[q]
  BY DEF WInv, WType
<1>5. SavedInv'
  BY <1>2 DEF SavedInv
<1>6. LocalInv'
  BY <1>3, <1>4 DEF LocalInv
<1> QED
  BY <1>1, <1>5, <1>6 DEF WInv

-----------------------------------------------------------------------------
(***************************************************************************)
(* The submitter's view.  Every step of the store moves one job at most.   *)
(***************************************************************************)
OnlyMoves(j) ==
    \A i \in Jobs \ {j} :
        PhaseOf(i)' = PhaseOf(i) /\ Done(checkpoints', i) = Done(checkpoints, i)

Moves(j) ==
    LET done == Done(checkpoints, j)
        same == Done(checkpoints', j) = done
    IN  \/ PhaseOf(j)' = PhaseOf(j) /\ same
        \/ PhaseOf(j) = "none" /\ PhaseOf(j)' = "open" /\ same
        \/ /\ PhaseOf(j) = "open" /\ PhaseOf(j)' = "open"
           /\ \E s \in Stage \ done : Done(checkpoints', j) = done \cup {s}
        \/ PhaseOf(j) = "open" /\ PhaseOf(j)' = "succeeded" /\ done = Stage /\ same
        \/ PhaseOf(j) = "open" /\ PhaseOf(j)' \in {"failed", "cancelled"} /\ same

Tracks == \E j \in Jobs : OnlyMoves(j) /\ Moves(j)

\* What every step does to the tables of the store.
StoreOK ==
    /\ jobs' \in [Jobs -> Row] /\ RowsOK' /\ Tracks
    /\ checkpoints \subseteq checkpoints' /\ usage_ledger \subseteq usage_ledger'

\* The phase of a job is read off its status.
LEMMA PhaseFacts ==
    ASSUME NEW j \in Jobs
    PROVE  /\ jobs[j].status = "ABSENT" => PhaseOf(j) = "none"
           /\ jobs[j].status \in {"QUEUED", "RUNNING", "VALIDATING", "RETRY_WAIT"} =>
                PhaseOf(j) = "open"
           /\ jobs[j].status = "SUCCEEDED" => PhaseOf(j) = "succeeded"
           /\ jobs[j].status = "FAILED" => PhaseOf(j) = "failed"
           /\ jobs[j].status = "CANCELLED" => PhaseOf(j) = "cancelled"
           /\ jobs'[j].status \in {"QUEUED", "RUNNING", "VALIDATING", "RETRY_WAIT"} =>
                PhaseOf(j)' = "open"
           /\ jobs'[j].status = "SUCCEEDED" => PhaseOf(j)' = "succeeded"
           /\ jobs'[j].status = "FAILED" => PhaseOf(j)' = "failed"
           /\ jobs'[j].status = "CANCELLED" => PhaseOf(j)' = "cancelled"
           /\ jobs'[j].status = jobs[j].status => PhaseOf(j)' = PhaseOf(j)
  BY DEF PhaseOf

\* A step that writes one job row and no checkpoint.
LEMMA RowStore ==
    ASSUME WInv, NEW j \in Jobs, NEW new \in Row, jobs' = [jobs EXCEPT ![j] = new],
           checkpoints' = checkpoints, usage_ledger \subseteq usage_ledger',
           new.stage = VALIDATE => jobs[j].stage = VALIDATE,
           new.status = "SUCCEEDED" => new.stage = VALIDATE,
           Moves(j)
    PROVE  StoreOK
<1>1. jobs' \in [Jobs -> Row] /\ \A i \in Jobs : jobs'[i] = IF i = j THEN new ELSE jobs[i]
  BY DEF WInv, WType
<1>2. RowsOK'
  BY <1>1 DEF WInv, RowsOK
<1>3. OnlyMoves(j)
  BY <1>1, PhaseFacts DEF OnlyMoves
<1> QED
  BY <1>1, <1>2, <1>3 DEF StoreOK, Tracks

\* A step that leaves the tables alone.
LEMMA SameStore == ASSUME WInv, UNCHANGED storeVars PROVE StoreOK
<1>1. jobs' = jobs /\ checkpoints' = checkpoints /\ usage_ledger' = usage_ledger
  BY DEF storeVars
<1>2. \A j \in Jobs : PhaseOf(j)' = PhaseOf(j)
  BY <1>1, PhaseFacts
<1>3. Tracks
  BY <1>1, <1>2, WorkerConstants DEF Tracks, OnlyMoves, Moves
<1> QED
  BY <1>1, <1>3 DEF StoreOK, WInv, WType, RowsOK

\* The passing of time touches no status and no stage.
LEMMA TickStore == ASSUME WInv, Tick PROVE StoreOK
<1>1. \A j \in Jobs : jobs[j] \in Row /\ jobs'[j] = Age(jobs[j]) /\ Age(jobs[j]) \in Row
  BY AgeType DEF Tick, WInv, WType
<1>2. jobs' \in [Jobs -> Row] /\ checkpoints' = checkpoints /\ usage_ledger' = usage_ledger
  BY <1>1 DEF Tick
<1>3. \A j \in Jobs : jobs'[j].status = jobs[j].status /\ jobs'[j].stage = jobs[j].stage
  <2>1. ASSUME NEW row \in Row PROVE Age(row).status = row.status /\ Age(row).stage = row.stage
    BY DEF Age, Row
  <2> QED BY <1>1, <2>1
<1>4. \A j \in Jobs : PhaseOf(j)' = PhaseOf(j)
  BY <1>3, PhaseFacts
<1>5. Tracks
  BY <1>2, <1>4, WorkerConstants DEF Tracks, OnlyMoves, Moves
<1>6. RowsOK'
  BY <1>2, <1>3 DEF WInv, RowsOK
<1> QED
  BY <1>2, <1>5, <1>6 DEF StoreOK

\* create_job opens a job.
LEMMA CreateStore ==
    ASSUME WInv, NEW j \in Jobs, NEW key \in RequestKeys, NEW task \in Tasks,
           NEW max \in Budgets, create_job(j, key, task, max)
    PROVE  StoreOK
<1> DEFINE new == NewRow(key, task, max)
<1>1. new \in Row /\ new.status = "QUEUED" /\ new.stage = PLAN
  BY NewRowType DEF NewRow
<1> HIDE DEF new
<1>2. /\ jobs' = [jobs EXCEPT ![j] = new] /\ jobs[j].status = "ABSENT"
      /\ checkpoints' = checkpoints /\ usage_ledger' = usage_ledger
  BY DEF create_job, new, Exists
<1>3. jobs'[j] = new
  BY <1>2 DEF WInv, WType
<1>4. Moves(j)
  BY <1>1, <1>2, <1>3, PhaseFacts DEF Moves
<1> QED
  BY <1>1, <1>2, <1>4, RowStore, StageFacts

\* acquire_lease keeps an open job open.
LEMMA AcquireStore ==
    ASSUME WInv, NEW j \in Jobs, NEW w \in Workers, NEW lease \in LeaseSeconds,
           NEW d \in Delays, acquire_lease(j, w, lease, d)
    PROVE  StoreOK
<1> DEFINE new == Leased(jobs[j], w, lease - d)
<1>0. jobs[j] \in Row /\ lease - d \in Int
  BY TimeAssumption DEF WInv, WType, Delays
<1>1. new \in Row /\ new.status = "RUNNING" /\ new.stage = jobs[j].stage
  BY <1>0, LeasedRow
<1> HIDE DEF new
<1>2. /\ jobs' = [jobs EXCEPT ![j] = new]
      /\ jobs[j].status \in {"QUEUED", "RUNNING", "RETRY_WAIT"}
      /\ checkpoints' = checkpoints /\ usage_ledger' = usage_ledger
  BY DEF acquire_lease, new
<1>3. jobs'[j] = new
  BY <1>2 DEF WInv, WType
<1>4. PhaseOf(j) = "open" /\ PhaseOf(j)' = "open"
  BY <1>1, <1>2, <1>3, PhaseFacts
<1>5. Moves(j)
  BY <1>2, <1>4 DEF Moves
<1> QED
  BY <1>1, <1>2, <1>5, RowStore

\* charge touches neither status nor stage.
LEMMA ChargeStore ==
    ASSUME WInv, NEW j \in Jobs, NEW key, NEW usage \in Usages, charge(j, key, usage)
    PROVE  StoreOK /\ checkpoints' = checkpoints /\ Paid(usage_ledger', j, key)
<1> DEFINE new == Charged(jobs[j], usage)
           row == [job |-> j, key |-> key, usage |-> usage]
<1>0. jobs[j] \in Row
  BY DEF WInv, WType
<1>1. new \in Row /\ new.status = jobs[j].status /\ new.stage = jobs[j].stage
  BY <1>0, ChargedRow
<1> HIDE DEF new
<1>2. /\ jobs' = [jobs EXCEPT ![j] = new] /\ checkpoints' = checkpoints
      /\ usage_ledger' = usage_ledger \cup {row} /\ row.job = j /\ row.key = key
  BY DEF charge, new
<1> HIDE DEF row
<1>3. jobs'[j] = new
  BY <1>2 DEF WInv, WType
<1>4. Moves(j)
  BY <1>1, <1>2, <1>3, PhaseFacts DEF Moves
<1>5. new.status = "SUCCEEDED" => new.stage = VALIDATE
  BY <1>1 DEF WInv, RowsOK
<1>6. Paid(usage_ledger', j, key)
  BY <1>2 DEF Paid
<1> QED
  BY <1>1, <1>2, <1>4, <1>5, <1>6, RowStore

\* A job at VALIDATE has committed every stage.
LEMMA AllDone ==
    ASSUME WInv, NEW j \in Jobs, jobs[j].stage = VALIDATE
    PROVE  Done(checkpoints, j) = Stage
<1>1. PICK c \in checkpoints : c.job = j /\ c.stage = VALIDATE
  BY DEF WInv, RowsOK, Done
<1>2. \A s \in Stage : s \in Done(checkpoints, j)
  BY <1>1, StageFacts DEF WInv, SavedInv, SavedOK
<1>3. Done(checkpoints, j) \subseteq Stage
  BY DEF WInv, SavedInv, SavedOK, SavedRow, Done
<1> QED
  BY <1>2, <1>3

\* transition closes an open job or keeps it open; it succeeds at VALIDATE only.
LEMMA TransitionStore ==
    ASSUME WInv, NEW j \in Jobs, NEW target \in Targets, NEW expected,
           NEW error \in ErrorCodes \cup {NoError}, NEW release,
           release = (target # "VALIDATING"), transition(j, target, expected, error, release)
    PROVE  StoreOK /\ checkpoints' = checkpoints /\ usage_ledger' = usage_ledger
<1> DEFINE new == Moved(jobs[j], target, error, target # "VALIDATING")
<1>0. jobs[j] \in Row /\ target \in JobStatus
  BY DEF WInv, WType, Targets
<1>1. new \in Row /\ new.status = target /\ new.stage = jobs[j].stage
  BY <1>0, MovedRow
<1> HIDE DEF new
<1>2. /\ jobs' = [jobs EXCEPT ![j] = new] /\ checkpoints' = checkpoints
      /\ usage_ledger' = usage_ledger
      /\ target \in ALLOWED_STATUS(jobs[j].status)
      /\ target = "SUCCEEDED" => jobs[j].stage = VALIDATE
  BY DEF transition, new, StageAdmits
<1>3. jobs'[j] = new
  BY <1>2 DEF WInv, WType
<1>4. jobs[j].status \in {"QUEUED", "RUNNING", "VALIDATING", "RETRY_WAIT"}
  BY <1>2 DEF ALLOWED_STATUS
<1>5. PhaseOf(j) = "open"
  BY <1>4, PhaseFacts
<1>6. CASE target \in {"VALIDATING", "RETRY_WAIT"}
  <2>1. PhaseOf(j)' = "open"
    BY <1>1, <1>3, <1>6, PhaseFacts
  <2>2. Moves(j)
    BY <1>2, <1>5, <2>1 DEF Moves
  <2> QED BY <1>1, <1>2, <1>6, <2>2, RowStore
<1>7. CASE target \in {"FAILED", "CANCELLED"}
  <2>1. PhaseOf(j)' \in {"failed", "cancelled"}
    BY <1>1, <1>3, <1>7, PhaseFacts
  <2>2. Moves(j)
    BY <1>2, <1>5, <2>1 DEF Moves
  <2> QED BY <1>1, <1>2, <1>7, <2>2, RowStore
<1>8. CASE target = "SUCCEEDED"
  <2>1. PhaseOf(j)' = "succeeded"
    BY <1>1, <1>3, <1>8, PhaseFacts
  <2>2. Done(checkpoints, j) = Stage
    BY <1>2, <1>8, AllDone
  <2>3. Moves(j)
    BY <1>2, <1>5, <2>1, <2>2 DEF Moves
  <2> QED BY <1>1, <1>2, <1>8, <2>3, RowStore
<1> QED
  BY <1>6, <1>7, <1>8 DEF Targets, JobStatus, TERMINAL

\* save_checkpoint commits its stage, and that stage only.
LEMMA SaveStore ==
    ASSUME WInv, NEW j \in Jobs, NEW w, NEW stage \in Stage, NEW payload, NEW d,
           save_checkpoint(j, w, stage, stage, payload, d)
    PROVE  /\ StoreOK /\ usage_ledger' = usage_ledger
           /\ checkpoints' = checkpoints \cup
                {[job |-> j, key |-> stage, stage |-> stage, payload |-> payload]}
           /\ Done(checkpoints', j) = Done(checkpoints, j) \cup {stage}
<1> DEFINE new == AtStage(jobs[j], stage)
           row == [job |-> j, key |-> stage, stage |-> stage, payload |-> payload]
<1>0. jobs[j] \in Row
  BY DEF WInv, WType
<1>1. new \in Row /\ new.status = jobs[j].status /\ new.stage = stage
  BY <1>0, AtStageRow
<1> HIDE DEF new
<1>2. /\ jobs' = [jobs EXCEPT ![j] = new] /\ checkpoints' = checkpoints \cup {row}
      /\ usage_ledger' = usage_ledger /\ jobs[j].status = "RUNNING"
  BY DEF save_checkpoint, new, HoldsLease
<1>3. jobs' \in [Jobs -> Row] /\ \A i \in Jobs : jobs'[i] = IF i = j THEN new ELSE jobs[i]
  BY <1>1, <1>2 DEF WInv, WType
<1>4. row.job = j /\ row.stage = stage
  OBVIOUS
<1> HIDE DEF row
<1>5. Done(checkpoints', j) = Done(checkpoints, j) \cup {stage}
  BY <1>2, <1>4 DEF Done
<1>6. \A i \in Jobs \ {j} : Done(checkpoints', i) = Done(checkpoints, i)
  BY <1>2, <1>4 DEF Done
<1>7. RowsOK'
  BY <1>1, <1>2, <1>3, <1>5, <1>6 DEF WInv, RowsOK
<1>8. OnlyMoves(j)
  BY <1>3, <1>6, PhaseFacts DEF OnlyMoves
<1>9. Moves(j)
  <2>1. PhaseOf(j) = "open" /\ PhaseOf(j)' = "open"
    BY <1>1, <1>2, <1>3, PhaseFacts
  <2>2. CASE stage \in Done(checkpoints, j)
    BY <1>5, <2>1, <2>2 DEF Moves
  <2>3. CASE stage \notin Done(checkpoints, j)
    BY <1>5, <2>1, <2>3 DEF Moves
  <2> QED BY <2>2, <2>3
<1> QED
  BY <1>2, <1>3, <1>5, <1>7, <1>8, <1>9 DEF StoreOK, Tracks, row

-----------------------------------------------------------------------------
(***************************************************************************)
(* The local variables of run_once.                                        *)
(***************************************************************************)

\* Places at which a worker needs to know nothing but what it loaded.
Plain == {"idle", "load", "refuse", "validating", "succeed", "lost", "fail", "give_up"}

\* What run_once starts with.
LEMMA IdleLocal ==
    ASSUME NEW j \in Jobs
    PROVE  /\ Idle(j) \in Local /\ Idle(j).pc = "idle" /\ Idle(j).job = j
           /\ Idle(j).committed = {} /\ Idle(j).stage = PLAN
<1>1. (CHOOSE r \in Results : TRUE) \in Results /\ <<>> \in Seq(EventRow) /\ PLAN \in Stage
  BY WorkerConstants, StageFacts
<1> QED
  BY <1>1 DEF Idle, Local, Codes, Places

\* Away from the stages and from the seal a worker has nothing to keep true.
LEMMA PlainOK ==
    ASSUME NEW l \in Local, l.pc \in Plain, NEW cps, NEW usage, NEW led,
           l.committed \subseteq Done(cps, l.job), l.pc = "load" => l.stage = PLAN
    PROVE  LocalOK(l, cps, usage, led)
  BY DEF LocalOK, Plain, InStage, Emitted, AfterCharge, Sealing

\* Nothing grows but what the store writes.
LEMMA SameGrows ==
    ASSUME WInv, StoreOK, ledger' = ledger
    PROVE  Grows(checkpoints, checkpoints', usage_ledger, usage_ledger', ledger, ledger')
  BY ExtendsSelf DEF WInv, WType, StoreOK, Grows

\* A step of one worker that commits no checkpoint and emits nothing.
LEMMA StoreStep ==
    ASSUME WInv, StoreOK, checkpoints' = checkpoints, ledger' = ledger,
           worker_id' = worker_id, NEW p \in Procs, NEW l \in Local,
           LocalOK(l, checkpoints', usage_ledger', ledger'), Become(p, l)
    PROVE  WInv' /\ Tracks
<1>1. Grows(checkpoints, checkpoints', usage_ledger, usage_ledger', ledger, ledger')
  BY SameGrows
<1>2. /\ jobs' \in [Jobs -> Row] /\ ledger' \in [Jobs -> Seq(EventRow)] /\ RowsOK' /\ Tracks
      /\ wk' = [wk EXCEPT ![p] = l] /\ checkpoints' \ checkpoints = {}
  BY DEF WInv, WType, StoreOK, Become
<1> QED
  BY <1>1, <1>2, Combine

\* A step of one worker that only changes its local variables.
LEMMA QuietStep ==
    ASSUME WInv, UNCHANGED <<storeVars, ledger, worker_id>>, NEW p \in Procs,
           NEW l \in Local, LocalOK(l, checkpoints, usage_ledger, ledger), Become(p, l)
    PROVE  WInv' /\ Tracks
<1>1. checkpoints' = checkpoints /\ usage_ledger' = usage_ledger
  BY DEF storeVars
<1>2. LocalOK(l, checkpoints', usage_ledger', ledger')
  BY <1>1
<1> QED
  BY <1>1, <1>2, SameStore, StoreStep

\* run_once returns, or an exception goes to one of its handlers.
LEMMA ReturnStep ==
    ASSUME WInv, UNCHANGED <<storeVars, ledger, worker_id>>, NEW p \in Procs, Return(p)
    PROVE  WInv' /\ Tracks
<1>1. wk[p].job \in Jobs
  BY DEF WInv, WType, Local
<1>2. Idle(wk[p].job) \in Local /\ LocalOK(Idle(wk[p].job), checkpoints, usage_ledger, ledger)
  BY <1>1, IdleLocal, PlainOK DEF Plain
<1> QED
  BY <1>2, QuietStep DEF Return

\* What run_once goes on with after a claim, an exception or the final checkpoint.
LEMMA RaisedLocal ==
    ASSUME NEW j \in Jobs, NEW pc \in {"fail", "lost", "load", "validating"},
           NEW retryable \in BOOLEAN, NEW code \in Codes, NEW cps, NEW usage, NEW led
    PROVE  LET l == [Idle(j) EXCEPT !.pc = pc, !.retryable = retryable, !.code = code]
               k == [Idle(j) EXCEPT !.pc = pc]
           IN  /\ l \in Local /\ LocalOK(l, cps, usage, led)
               /\ k \in Local /\ LocalOK(k, cps, usage, led)
<1> DEFINE l == [Idle(j) EXCEPT !.pc = pc, !.retryable = retryable, !.code = code]
           k == [Idle(j) EXCEPT !.pc = pc]
<1>5. pc \in Places
  BY DEF Places
<1>1. l \in Local /\ l.pc = pc /\ l.committed = {} /\ l.stage = PLAN
  <2>1. Idle(j) \in Local /\ Idle(j).committed = {} /\ Idle(j).stage = PLAN
    BY IdleLocal
  <2> DEFINE m == [Idle(j) EXCEPT !.pc = pc, !.code = code]
  <2>2. m \in Local /\ m.pc = pc /\ m.committed = {} /\ m.stage = PLAN
    BY <1>5, <2>1 DEF Local
  <2>3. l = [m EXCEPT !.retryable = retryable]
    BY <2>1 DEF Local
  <2> HIDE DEF m, l
  <2> QED BY <2>2, <2>3 DEF Local
<1>4. k \in Local /\ k.pc = pc /\ k.committed = {} /\ k.stage = PLAN
  BY <1>5, IdleLocal DEF Local
<1>2. pc \in Plain
  BY DEF Plain
<1> HIDE DEF l, k
<1>3. LocalOK(l, cps, usage, led) /\ LocalOK(k, cps, usage, led)
  BY <1>1, <1>2, <1>4, PlainOK
<1> QED
  BY <1>1, <1>3, <1>4 DEF l, k

\* An exception changes nothing but the place of its worker.
LEMMA RaiseStep ==
    ASSUME WInv, UNCHANGED <<storeVars, ledger, worker_id>>, NEW p \in Procs,
           NEW retryable \in BOOLEAN, NEW code \in Codes, Raise(p, retryable, code)
    PROVE  WInv' /\ Tracks
<1> DEFINE l == [Idle(wk[p].job) EXCEPT !.pc = "fail", !.retryable = retryable, !.code = code]
<1>1. wk[p].job \in Jobs
  BY DEF WInv, WType, Local
<1>2. l \in Local /\ LocalOK(l, checkpoints, usage_ledger, ledger)
  BY <1>1, RaisedLocal
<1>3. Become(p, l)
  BY DEF Raise
<1> HIDE DEF l
<1> QED
  BY <1>2, <1>3, QuietStep

-----------------------------------------------------------------------------
(***************************************************************************)
(* One lemma per action.                                                   *)
(***************************************************************************)

\* A claim writes the job's row and opens an attempt with nothing loaded.
LEMMA ClaimKeeps == ASSUME WInv, NEW p \in Procs, Claim(p) PROVE WInv' /\ Tracks
<1>1. PICK j \in Jobs, lease \in LeaseSeconds, d \in Delays :
        acquire_lease(j, worker_id[p], lease, d) /\ Become(p, [Idle(j) EXCEPT !.pc = "load"])
  BY DEF Claim
<1> DEFINE l == [Idle(j) EXCEPT !.pc = "load"]
<1>2. worker_id[p] \in Workers
  BY DEF WInv, WType
<1>3. StoreOK
  BY <1>1, <1>2, AcquireStore
<1>4. l \in Local /\ LocalOK(l, checkpoints', usage_ledger', ledger')
  <2>1. "STAGE_ERROR" \in Codes /\ FALSE \in BOOLEAN
    BY DEF Codes
  <2> QED BY <2>1, RaisedLocal
<1>5. checkpoints' = checkpoints /\ ledger' = ledger /\ worker_id' = worker_id /\ Become(p, l)
  BY <1>1 DEF Claim, acquire_lease
<1> HIDE DEF l
<1> QED
  BY <1>3, <1>4, <1>5, StoreStep

\* The keys loaded are stages that are committed.
LEMMA LoadKeeps == ASSUME WInv, NEW p \in Procs, Load(p) PROVE WInv' /\ Tracks
<1> DEFINE keys == {c.key : c \in {c \in checkpoints : c.job = wk[p].job}}
           l == [wk[p] EXCEPT !.pc = "check", !.committed = keys]
<1>1. keys \subseteq Done(checkpoints, wk[p].job) /\ keys \subseteq Stage
  BY DEF WInv, SavedInv, SavedOK, SavedRow, Done
<1> HIDE DEF keys
<1>2. wk[p] \in Local
  BY DEF WInv, WType
<1>3. /\ l \in Local /\ l.pc = "check" /\ l.committed = keys /\ l.job = wk[p].job
      /\ l.stage = wk[p].stage
  BY <1>1, <1>2 DEF Local, Places
<1>4. wk[p].stage = PLAN
  BY DEF WInv, LocalInv, LocalOK, Load, At
<1> HIDE DEF l
<1>5. LocalOK(l, checkpoints, usage_ledger, ledger)
  <2>1. \A s \in Stage : ~(s < PLAN)
    BY StageFacts
  <2>2. l.pc \notin InStage \cup Emitted \cup AfterCharge \cup Sealing
    BY <1>3 DEF InStage, Emitted, AfterCharge, Sealing
  <2>3. l.pc # "load" /\ l.pc # "save" /\ l.pc # "commit" /\ l.stage = PLAN
    BY <1>3, <1>4
  <2> QED BY <1>1, <1>3, <2>1, <2>2, <2>3 DEF LocalOK
<1>6. Become(p, l) /\ UNCHANGED <<storeVars, ledger, worker_id>>
  BY DEF Load, l, keys
<1> QED
  BY <1>3, <1>5, <1>6, QuietStep

\* The next stage of the loop: the stages before it are committed.
LEMMA NextStageFacts ==
    ASSUME WInv, NEW p \in Procs, At(p, "check"), Remaining(p) # {}
    PROVE  /\ NextStage(p) \in EXECUTION_STAGES
           /\ \A s \in Stage : s < NextStage(p) => s \in Done(checkpoints, wk[p].job)
<1> DEFINE R == Remaining(p)
           n == NextStage(p)
<1>1. /\ wk[p] \in Local /\ wk[p].stage \in Stage
      /\ wk[p].committed \subseteq Done(checkpoints, wk[p].job)
      /\ \A s \in Stage : s < wk[p].stage => s \in Done(checkpoints, wk[p].job)
  BY DEF WInv, WType, LocalInv, LocalOK, Local, At
<1>2. R \subseteq Nat /\ R \subseteq EXECUTION_STAGES
  BY StageFacts DEF Remaining
<1>3. \E s \in R : \A t \in R : s <= t
  BY <1>2, HasLeast
<1>4. n \in R /\ \A t \in R : n <= t
  BY <1>3 DEF NextStage
<1>5. \A s \in Stage : s < n => s \in Done(checkpoints, wk[p].job)
  <2> SUFFICES ASSUME NEW s \in Stage, s < n, s \notin Done(checkpoints, wk[p].job)
               PROVE  FALSE
    OBVIOUS
  <2>1. s \in Nat /\ wk[p].stage \in Nat /\ ~(s < wk[p].stage)
    BY <1>1, StageFacts
  <2>2. s >= wk[p].stage /\ s \notin wk[p].committed
    BY <1>1, <2>1
  <2>3. s # VALIDATE
    BY <1>2, <1>4, StageFacts
  <2>4. s \in R
    BY <2>2, <2>3 DEF Remaining, EXECUTION_STAGES
  <2>5. n \in Nat /\ s \in Nat /\ n <= s
    BY <1>2, <1>4, <2>4
  <2> QED BY <2>5
<1> QED
  BY <1>2, <1>4, <1>5

\* The handler is called for the next stage only: those before it are committed.
LEMMA CheckStageKeeps == ASSUME WInv, NEW p \in Procs, CheckStage(p) PROVE WInv' /\ Tracks
<1>1. /\ UNCHANGED <<storeVars, ledger, worker_id>> /\ At(p, "check") /\ Remaining(p) # {}
      /\ FALSE \in BOOLEAN /\ "STAGE_ERROR" \in Codes
  BY DEF CheckStage, Codes
<1>2. CASE Return(p)
  BY <1>1, <1>2, ReturnStep
<1>3. CASE \E retryable \in BOOLEAN : Raise(p, retryable, "STAGE_ERROR")
  BY <1>1, <1>3, RaiseStep
<1>4. CASE \E r \in Results :
            Become(p, [wk[p] EXCEPT !.pc = "emit", !.stage = NextStage(p), !.result = r])
  <2>1. PICK r \in Results :
            Become(p, [wk[p] EXCEPT !.pc = "emit", !.stage = NextStage(p), !.result = r])
    BY <1>4
  <2> DEFINE n == NextStage(p)
             l == [wk[p] EXCEPT !.pc = "emit", !.stage = n, !.result = r]
  <2>2. /\ n \in Stage /\ n # VALIDATE
        /\ \A s \in Stage : s < n => s \in Done(checkpoints, wk[p].job)
    BY <1>1, NextStageFacts, StageFacts DEF EXECUTION_STAGES
  <2> HIDE DEF n
  <2>3. /\ wk[p] \in Local /\ wk[p].committed \subseteq Done(checkpoints, wk[p].job)
        /\ "emit" \in Places
    BY DEF WInv, WType, LocalInv, LocalOK, Places, InStage
  <2>4. /\ l \in Local /\ l.pc = "emit" /\ l.stage = n /\ l.job = wk[p].job
        /\ l.committed = wk[p].committed
    BY <2>2, <2>3 DEF Local
  <2>5. Become(p, l)
    BY <2>1 DEF n
  <2> HIDE DEF l
  <2>6. LocalOK(l, checkpoints, usage_ledger, ledger)
    BY <2>2, <2>3, <2>4 DEF LocalOK, InStage, Emitted, AfterCharge, Sealing
  <2> QED BY <1>1, <2>4, <2>5, <2>6, QuietStep
<1> QED
  BY <1>1, <1>2, <1>3, <1>4 DEF CheckStage, Handle

\* A committed stage has its event in the ledger.
LEMMA CommittedIsEmitted ==
    ASSUME WInv, NEW j \in Jobs, NEW s \in Done(checkpoints, j), s # VALIDATE
    PROVE  EmittedAs(j, s) # {}
<1>1. PICK c \in checkpoints : c.job = j /\ c.stage = s
  BY DEF Done
<1>2. /\ c.payload.head \in Seq(EventRow) /\ ledger[j] \in Seq(EventRow)
      /\ Extends(ledger[j], c.payload.head) /\ Holds(c.payload.head, s, c.payload.result)
  BY <1>1 DEF WInv, WType, SavedInv, SavedOK, SavedRow, SavedPayload
<1>5. Holds(ledger[j], s, c.payload.result)
  BY <1>2, HoldsExtends
<1>3. PICK i \in DOMAIN ledger[j] : ledger[j][i] = [key |-> s, result |-> c.payload.result]
  BY <1>5 DEF Holds
<1>4. ledger[j][i].key = s
  BY <1>3
<1> QED
  BY <1>4 DEF EmittedAs

\* Emit appends nothing once every stage is committed.
LEMMA EmitKeeps == ASSUME WInv, NEW p \in Procs, Emit(p) PROVE WInv' /\ Tracks
<1> DEFINE j == wk[p].job
           stage == wk[p].stage
           result == wk[p].result
           l == [wk[p] EXCEPT !.pc = "charge"]
<1>1. /\ wk[p] \in Local /\ j \in Jobs /\ stage \in Stage /\ result \in Results
      /\ stage # VALIDATE /\ stage \in EXECUTION_STAGES
      /\ ledger \in [Jobs -> Seq(EventRow)] /\ "charge" \in Places
      /\ LocalOK(wk[p], checkpoints, usage_ledger, ledger) /\ wk[p].pc = "emit"
  BY DEF WInv, WType, LocalInv, LocalOK, Local, Emit, At, InStage, EXECUTION_STAGES, Places
<1>2. /\ l \in Local /\ l.pc = "charge" /\ l.stage = stage /\ l.job = j /\ l.result = result
      /\ l.committed = wk[p].committed
  BY <1>1 DEF Local
<1>3. /\ UNCHANGED storeVars /\ worker_id' = worker_id
      /\ checkpoints' = checkpoints /\ usage_ledger' = usage_ledger
  BY DEF Emit, storeVars
<1>4. /\ l.committed \subseteq Done(checkpoints, j)
      /\ \A s \in Stage : s < stage => s \in Done(checkpoints, j)
  BY <1>1, <1>2 DEF LocalOK, InStage
<1>5. ASSUME NEW led, Holds(led[j], stage, result)
      PROVE  LocalOK(l, checkpoints, usage_ledger, led)
  <2> HIDE DEF l
  <2> QED BY <1>1, <1>2, <1>4, <1>5 DEF LocalOK, InStage, Emitted, AfterCharge, Sealing
<1>6. Goto(p, "charge") <=> Become(p, l)
  BY DEF Goto
<1> HIDE DEF l
<1>7. CASE EmittedAs(j, stage) = {} /\ ledger' = [ledger EXCEPT ![j] = Append(@, Event(p))]
           /\ Goto(p, "charge")
  <2> DEFINE e == [key |-> stage, result |-> result]
  <2>1. e \in EventRow /\ Event(p) = e
    BY <1>1 DEF EventRow, Event
  <2> HIDE DEF e
  <2>2. ledger[j] \in Seq(EventRow) /\ Append(ledger[j], e) \in Seq(EventRow)
    BY <1>1, <2>1
  <2>3. /\ ledger' \in [Jobs -> Seq(EventRow)]
        /\ \A i \in Jobs : ledger'[i] = IF i = j THEN Append(ledger[j], e) ELSE ledger[i]
    BY <1>1, <1>7, <2>1, <2>2
  <2>4. Extends(Append(ledger[j], e), ledger[j])
    BY <2>1, <2>2 DEF Extends
  <2>5. Holds(ledger'[j], stage, result)
    <3>1. Append(ledger[j], e)[Len(ledger[j]) + 1] = e
          /\ Len(ledger[j]) + 1 \in DOMAIN Append(ledger[j], e)
      BY <2>1, <2>2
    <3> QED BY <1>1, <2>3, <3>1 DEF Holds, e
  <2>6. ~(EXECUTION_STAGES \subseteq Done(checkpoints, j))
    BY <1>1, <1>7, CommittedIsEmitted
  <2>7. Grows(checkpoints, checkpoints', usage_ledger, usage_ledger', ledger, ledger')
    BY <1>1, <1>3, <2>3, <2>4, <2>6, ExtendsSelf DEF Grows
  <2>8. LocalOK(l, checkpoints', usage_ledger', ledger')
    BY <1>3, <1>5, <2>5
  <2>9. /\ StoreOK /\ jobs' \in [Jobs -> Row] /\ RowsOK' /\ Tracks
        /\ checkpoints' \ checkpoints = {} /\ wk' = [wk EXCEPT ![p] = l]
    BY <1>3, <1>6, <1>7, SameStore DEF StoreOK, Become
  <2> QED BY <1>2, <1>3, <2>3, <2>7, <2>8, <2>9, Combine
<1>8. CASE EmittedAs(j, stage) = {result} /\ Goto(p, "charge") /\ UNCHANGED ledger
  <2>1. PICK i \in DOMAIN ledger[j] : ledger[j][i].key = stage /\ ledger[j][i].result = result
    BY <1>8 DEF EmittedAs
  <2>2. ledger[j][i] \in EventRow
    BY <1>1
  <2>3. ledger[j][i] = [key |-> stage, result |-> result]
    BY <2>1, <2>2 DEF EventRow
  <2>4. LocalOK(l, checkpoints, usage_ledger, ledger)
    BY <1>5, <2>3 DEF Holds
  <2> QED BY <1>2, <1>3, <1>6, <1>8, <2>4, QuietStep
<1>9. CASE Raise(p, FALSE, "STAGE_ERROR") /\ UNCHANGED ledger
  <2>1. FALSE \in BOOLEAN /\ "STAGE_ERROR" \in Codes
    BY DEF Codes
  <2> QED BY <1>3, <1>9, <2>1, RaiseStep
<1> QED
  BY <1>7, <1>8, <1>9 DEF Emit
\* A stage that was charged, now or before, is paid for.
LEMMA ChargeStageKeeps == ASSUME WInv, NEW p \in Procs, ChargeStage(p) PROVE WInv' /\ Tracks
<1> DEFINE j == wk[p].job
           key == wk[p].stage
           usage == UsageOf[wk[p].result]
           before == {u.usage : u \in {u \in usage_ledger : u.job = j /\ u.key = key}}
           l == [wk[p] EXCEPT !.pc = "verify"]
<1>1. /\ wk[p] \in Local /\ j \in Jobs /\ wk[p].result \in Results /\ "verify" \in Places
      /\ LocalOK(wk[p], checkpoints, usage_ledger, ledger) /\ wk[p].pc = "charge"
  BY DEF WInv, WType, LocalInv, Local, ChargeStage, At, Places, InStage
<1>2. usage \in Usages
  BY <1>1, WorkerConstants
<1>3. /\ l \in Local /\ l.pc = "verify" /\ l.stage = key /\ l.job = j
      /\ l.result = wk[p].result /\ l.committed = wk[p].committed
  BY <1>1 DEF Local
<1>4. ledger' = ledger /\ worker_id' = worker_id
  BY DEF ChargeStage
<1>5. Goto(p, "verify") <=> Become(p, l)
  BY DEF Goto
<1> HIDE DEF l
<1>6. ASSUME NEW paid, Paid(paid, j, key)
      PROVE  LocalOK(l, checkpoints, paid, ledger)
  BY <1>1, <1>3, <1>6 DEF LocalOK, InStage, Emitted, AfterCharge, Sealing
<1>7. CASE charge(j, key, usage) /\ Goto(p, "verify")
  <2> HIDE DEF usage
  <2>1. StoreOK /\ checkpoints' = checkpoints /\ Paid(usage_ledger', j, key)
    BY <1>1, <1>2, <1>7, ChargeStore
  <2>2. LocalOK(l, checkpoints', usage_ledger', ledger')
    BY <1>4, <1>6, <2>1
  <2> QED BY <1>3, <1>4, <1>5, <1>7, <2>1, <2>2, StoreStep
<1>8. CASE before = {usage} /\ Goto(p, "verify") /\ UNCHANGED storeVars
  <2>1. Paid(usage_ledger, j, key)
    BY <1>8 DEF Paid
  <2> QED BY <1>3, <1>4, <1>5, <1>6, <1>8, <2>1, QuietStep
<1>9. CASE Raise(p, FALSE, "STAGE_ERROR") /\ UNCHANGED storeVars
  <2>1. FALSE \in BOOLEAN /\ "STAGE_ERROR" \in Codes
    BY DEF Codes
  <2> QED BY <1>4, <1>9, <2>1, RaiseStep
<1> QED
  BY <1>7, <1>8, <1>9 DEF ChargeStage

\* The head is the ledger as it is now, with the event of the stage.
LEMMA VerifyKeeps == ASSUME WInv, NEW p \in Procs, Verify(p) PROVE WInv' /\ Tracks
<1> DEFINE head == ledger[wk[p].job]
           l == [wk[p] EXCEPT !.pc = "save", !.head = head]
<1>1. /\ wk[p] \in Local /\ head \in Seq(EventRow) /\ "save" \in Places
      /\ LocalOK(wk[p], checkpoints, usage_ledger, ledger) /\ wk[p].pc = "verify"
  BY DEF WInv, WType, LocalInv, Local, Verify, At, Places, InStage
<1>2. /\ l \in Local /\ l.pc = "save" /\ l.stage = wk[p].stage /\ l.job = wk[p].job
      /\ l.result = wk[p].result /\ l.committed = wk[p].committed /\ l.head = head
  BY <1>1 DEF Local
<1>3. Become(p, l) /\ UNCHANGED <<storeVars, ledger, worker_id>>
  BY DEF Verify
<1>4. Extends(head, head)
  BY <1>1, ExtendsSelf
<1> HIDE DEF l
<1>5. LocalOK(l, checkpoints, usage_ledger, ledger)
  BY <1>1, <1>2, <1>4 DEF LocalOK, InStage, Emitted, AfterCharge, Sealing
<1> QED
  BY <1>2, <1>3, <1>5, QuietStep

\* A checkpoint whose stage, event, charge and head are in order may be saved.
LEMMA SaveStep ==
    ASSUME WInv, NEW p \in Procs, NEW stage \in Stage, NEW payload \in SavedPayload,
           NEW next \in Local, Save(p, stage, payload, next),
           ledger' = ledger, worker_id' = worker_id,
           \A s \in Stage : s < stage => s \in Done(checkpoints, wk[p].job),
           Extends(ledger[wk[p].job], payload.head),
           stage # VALIDATE => /\ Holds(payload.head, stage, payload.result)
                               /\ Paid(usage_ledger, wk[p].job, stage),
           stage = VALIDATE => Accepted(payload.head) /\ payload.head = ledger[wk[p].job],
           \A cps : Done(cps, wk[p].job) = Done(checkpoints, wk[p].job) \cup {stage} =>
               LocalOK(next, cps, usage_ledger, ledger)
    PROVE  WInv' /\ Tracks
<1> DEFINE j == wk[p].job
           row == [job |-> j, key |-> stage, stage |-> stage, payload |-> payload]
<1>1. j \in Jobs /\ TRUE \in BOOLEAN /\ FALSE \in BOOLEAN
      /\ "STAGE_ERROR" \in Codes
  BY DEF WInv, WType, Local, Codes
<1>2. PICK d \in Delays :
        \/ save_checkpoint(j, worker_id[p], stage, stage, payload, d) /\ Become(p, next)
        \/ Become(p, [Idle(j) EXCEPT !.pc = "lost"]) /\ UNCHANGED storeVars
        \/ Raise(p, FALSE, "STAGE_ERROR") /\ UNCHANGED storeVars
  BY DEF Save
<1>3. CASE save_checkpoint(j, worker_id[p], stage, stage, payload, d) /\ Become(p, next)
  <2>1. /\ StoreOK /\ usage_ledger' = usage_ledger /\ checkpoints' = checkpoints \cup {row}
        /\ Done(checkpoints', j) = Done(checkpoints, j) \cup {stage}
    BY <1>1, <1>3, SaveStore
  <2>2. LocalOK(next, checkpoints', usage_ledger', ledger')
    BY <2>1
  <2>3. /\ row \in SavedRow /\ row.key = row.stage /\ row.job = j /\ row.stage = stage
        /\ row.payload = payload
    BY <1>1 DEF SavedRow
  <2> HIDE DEF row
  <2>4. \A s \in Stage : s <= stage => s \in Done(checkpoints', j)
    <3>1. \A s \in Stage : s <= stage => s < stage \/ s = stage
      BY StageFacts
    <3> QED BY <2>1, <3>1
  <2>5. SavedOK(row, checkpoints', usage_ledger', ledger')
    BY <2>1, <2>3, <2>4 DEF SavedOK
  <2>6. \A c \in checkpoints' \ checkpoints :
          SavedOK(c, checkpoints', usage_ledger', ledger')
    BY <2>1, <2>5
  <2>7. Grows(checkpoints, checkpoints', usage_ledger, usage_ledger', ledger, ledger')
    BY <2>1, SameGrows
  <2>8. /\ jobs' \in [Jobs -> Row] /\ ledger' \in [Jobs -> Seq(EventRow)] /\ RowsOK'
        /\ Tracks /\ wk' = [wk EXCEPT ![p] = next]
    BY <1>3, <2>1 DEF WInv, WType, StoreOK, Become
  <2> QED BY <2>2, <2>6, <2>7, <2>8, Combine
<1>4. CASE Become(p, [Idle(j) EXCEPT !.pc = "lost"]) /\ UNCHANGED storeVars
  <2> DEFINE l == [Idle(j) EXCEPT !.pc = "lost"]
  <2>1. l \in Local /\ LocalOK(l, checkpoints, usage_ledger, ledger)
    BY <1>1, RaisedLocal
  <2> HIDE DEF l
  <2> QED BY <1>4, <2>1, QuietStep DEF l
<1>5. CASE Raise(p, FALSE, "STAGE_ERROR") /\ UNCHANGED storeVars
  BY <1>1, <1>5, RaiseStep
<1> QED
  BY <1>2, <1>3, <1>4, <1>5

\* The checkpoint of a stage.
LEMMA CheckpointKeeps == ASSUME WInv, NEW p \in Procs, Checkpoint(p) PROVE WInv' /\ Tracks
<1> DEFINE j == wk[p].job
           stage == wk[p].stage
           payload == [result |-> wk[p].result, head |-> wk[p].head]
           next == [Idle(j) EXCEPT !.pc = "check", !.stage = stage + 1,
                                   !.committed = wk[p].committed]
<1>1. /\ wk[p] \in Local /\ j \in Jobs /\ stage \in Stage /\ wk[p].result \in Results
      /\ wk[p].head \in Seq(EventRow) /\ wk[p].committed \in SUBSET Stage
      /\ LocalOK(wk[p], checkpoints, usage_ledger, ledger) /\ wk[p].pc = "save"
      /\ stage # VALIDATE /\ stage \in EXECUTION_STAGES /\ "check" \in Places
  BY DEF WInv, WType, LocalInv, LocalOK, Local, Checkpoint, At, InStage, EXECUTION_STAGES, Places
<1>2. /\ payload \in SavedPayload /\ payload.result = wk[p].result
      /\ payload.head = wk[p].head
  BY <1>1 DEF SavedPayload
<1>3. stage + 1 \in Stage /\ stage \in Nat
  BY <1>1, StageFacts
<1>4. /\ next \in Local /\ next.pc = "check" /\ next.stage = stage + 1 /\ next.job = j
      /\ next.committed = wk[p].committed
  <2>1. Idle(j) \in Local /\ Idle(j).job = j
    BY <1>1, IdleLocal
  <2> HIDE DEF j, stage
  <2> QED BY <1>1, <1>3, <2>1 DEF Local
<1>5. Save(p, stage, payload, next) /\ ledger' = ledger /\ worker_id' = worker_id
  BY DEF Checkpoint
<1> HIDE DEF payload, next
<1>6. /\ \A s \in Stage : s < stage => s \in Done(checkpoints, j)
      /\ wk[p].committed \subseteq Done(checkpoints, j)
      /\ Paid(usage_ledger, j, stage)
      /\ Extends(ledger[j], wk[p].head) /\ Holds(wk[p].head, stage, wk[p].result)
  BY <1>1 DEF LocalOK, InStage, AfterCharge
<1>7. ASSUME NEW cps, Done(cps, j) = Done(checkpoints, j) \cup {stage}
      PROVE  LocalOK(next, cps, usage_ledger, ledger)
  <2>1. \A s \in Stage : s < stage + 1 => s \in Done(cps, j)
    BY <1>3, <1>6, <1>7, StageFacts
  <2> QED BY <1>4, <1>6, <1>7, <2>1 DEF LocalOK, InStage, Emitted, AfterCharge, Sealing
<1> QED
  BY <1>1, <1>2, <1>4, <1>5, <1>6, <1>7, SaveStep
\* No stage remains: every one of them is committed, whoever committed it.
LEMMA ValidateKeeps == ASSUME WInv, NEW p \in Procs, Validate(p) PROVE WInv' /\ Tracks
<1> DEFINE j == wk[p].job
           pc == IF Accepted(ledger[j]) THEN "seal" ELSE "refuse"
           l == [wk[p] EXCEPT !.pc = pc]
<1>1. /\ wk[p] \in Local /\ wk[p].stage \in Stage /\ wk[p].committed \subseteq Done(checkpoints, j)
      /\ \A s \in Stage : s < wk[p].stage => s \in Done(checkpoints, j)
  BY DEF WInv, WType, LocalInv, LocalOK, Local, Validate, At
<1>2. Remaining(p) = {} /\ Become(p, l) /\ UNCHANGED <<storeVars, ledger, worker_id>>
  BY DEF Validate, Goto
<1>3. EXECUTION_STAGES \subseteq Done(checkpoints, j)
  <2> SUFFICES ASSUME NEW s \in EXECUTION_STAGES PROVE s \in Done(checkpoints, j)
    OBVIOUS
  <2>1. s \in Nat /\ wk[p].stage \in Nat /\ s \in Stage
    BY <1>1, StageFacts
  <2>2. s < wk[p].stage \/ s \in wk[p].committed
    BY <1>2, <2>1 DEF Remaining
  <2> QED BY <1>1, <2>1, <2>2
<1>4. pc \in Places /\ (pc = "seal" => Accepted(ledger[j])) /\ pc \in {"seal", "refuse"}
  BY DEF Places, Sealing
<1> HIDE DEF pc
<1>5. l \in Local /\ l.pc = pc /\ l.job = j /\ l.committed = wk[p].committed
  BY <1>1, <1>4 DEF Local
<1> HIDE DEF l
<1>6. LocalOK(l, checkpoints, usage_ledger, ledger)
  BY <1>1, <1>3, <1>4, <1>5 DEF LocalOK, InStage, Emitted, AfterCharge, Sealing
<1> QED
  BY <1>2, <1>5, <1>6, QuietStep

\* The ledger read for the seal is the one that was accepted: it no longer grows.
LEMMA SealKeeps == ASSUME WInv, NEW p \in Procs, Seal(p) PROVE WInv' /\ Tracks
<1> DEFINE head == ledger[wk[p].job]
           l == [wk[p] EXCEPT !.pc = "commit", !.head = head]
<1>1. /\ wk[p] \in Local /\ head \in Seq(EventRow) /\ "commit" \in Places
      /\ LocalOK(wk[p], checkpoints, usage_ledger, ledger) /\ wk[p].pc = "seal"
  BY DEF WInv, WType, LocalInv, Local, Seal, At, Places, Sealing
<1>2. /\ l \in Local /\ l.pc = "commit" /\ l.job = wk[p].job
      /\ l.committed = wk[p].committed /\ l.head = head
  BY <1>1 DEF Local
<1>3. Become(p, l) /\ UNCHANGED <<storeVars, ledger, worker_id>>
  BY DEF Seal
<1> HIDE DEF l
<1>4. LocalOK(l, checkpoints, usage_ledger, ledger)
  BY <1>1, <1>2 DEF LocalOK, InStage, Emitted, AfterCharge, Sealing
<1> QED
  BY <1>2, <1>3, <1>4, QuietStep

\* The checkpoint of VALIDATE.
LEMMA CommitKeeps == ASSUME WInv, NEW p \in Procs, CommitValidation(p) PROVE WInv' /\ Tracks
<1> DEFINE j == wk[p].job
           result == Idle(j).result
           payload == [result |-> result, head |-> wk[p].head]
           next == [Idle(j) EXCEPT !.pc = "validating"]
<1>1. /\ wk[p] \in Local /\ j \in Jobs /\ wk[p].head \in Seq(EventRow) /\ VALIDATE \in Stage
      /\ LocalOK(wk[p], checkpoints, usage_ledger, ledger) /\ wk[p].pc = "commit"
      /\ "STAGE_ERROR" \in Codes /\ TRUE \in BOOLEAN /\ ledger[j] \in Seq(EventRow)
  BY StageFacts DEF WInv, WType, LocalInv, Local, CommitValidation, At, Codes
<1>2. result \in Results
  BY <1>1, IdleLocal DEF Local
<1>3. Save(p, VALIDATE, payload, next) /\ ledger' = ledger /\ worker_id' = worker_id
  BY DEF CommitValidation
<1>4. next \in Local /\ \A cps : LocalOK(next, cps, usage_ledger, ledger)
  BY <1>1, RaisedLocal
<1> HIDE DEF result, next
<1>5. payload \in SavedPayload /\ payload.head = wk[p].head
  BY <1>1, <1>2 DEF SavedPayload
<1> HIDE DEF payload
<1>6. /\ EXECUTION_STAGES \subseteq Done(checkpoints, j) /\ Accepted(ledger[j])
      /\ wk[p].head = ledger[j]
  BY <1>1 DEF LocalOK, Sealing
<1>7. \A s \in Stage : s < VALIDATE => s \in Done(checkpoints, j)
  BY <1>6, StageFacts DEF EXECUTION_STAGES
<1>8. Extends(ledger[j], payload.head) /\ Accepted(payload.head) /\ payload.head = ledger[j]
  BY <1>1, <1>5, <1>6, ExtendsSelf
<1> QED
  BY <1>1, <1>3, <1>4, <1>5, <1>7, <1>8, SaveStep

\* A transition of the finalizer, or the exception of an illegal one.
LEMMA MoveStep ==
    ASSUME WInv, NEW p \in Procs, NEW target \in Targets,
           NEW code \in ErrorCodes \cup {NoError}, NEW release,
           release = (target # "VALIDATING"),
           NEW next \in Local, next.pc \in {"idle", "succeed"},
           next.committed \subseteq Done(checkpoints, next.job),
           MoveJob(p, target, code, release, next), ledger' = ledger, worker_id' = worker_id
    PROVE  WInv' /\ Tracks
<1>1. wk[p].job \in Jobs /\ FALSE \in BOOLEAN /\ "STAGE_ERROR" \in Codes
  BY DEF WInv, WType, Local, Codes
<1>2. CASE transition(wk[p].job, target, 0, code, release) /\ Become(p, next)
  <2>1. StoreOK /\ checkpoints' = checkpoints
    BY <1>1, <1>2, TransitionStore
  <2>2. LocalOK(next, checkpoints', usage_ledger', ledger')
    BY <2>1, PlainOK DEF Plain
  <2> QED BY <1>2, <2>1, <2>2, StoreStep
<1>3. CASE Raise(p, FALSE, "STAGE_ERROR") /\ UNCHANGED storeVars
  BY <1>1, <1>3, RaiseStep
<1> QED
  BY <1>2, <1>3 DEF MoveJob

\* The three transitions of the finalizer.
LEMMA FinalKeeps ==
    ASSUME WInv, NEW p \in Procs, Refuse(p) \/ ToValidating(p) \/ ToSucceeded(p)
    PROVE  WInv' /\ Tracks
<1> DEFINE j == wk[p].job
           l == [wk[p] EXCEPT !.pc = "succeed"]
<1>1. /\ wk[p] \in Local /\ j \in Jobs /\ wk[p].committed \subseteq Done(checkpoints, j)
      /\ ledger' = ledger /\ worker_id' = worker_id
  BY DEF WInv, WType, LocalInv, LocalOK, Local, Refuse, ToValidating, ToSucceeded
<1>2. /\ Idle(j) \in Local /\ Idle(j).pc = "idle"
      /\ Idle(j).committed \subseteq Done(checkpoints, Idle(j).job)
  BY <1>1, IdleLocal
<1>3. l \in Local /\ l.pc = "succeed" /\ l.committed \subseteq Done(checkpoints, l.job)
  BY <1>1 DEF Local, Places
<1> HIDE DEF l
<1>4. /\ "FAILED" \in Targets /\ "VALIDATING" \in Targets /\ "SUCCEEDED" \in Targets
      /\ "EVIDENCE_INVARIANT_FAILED" \in ErrorCodes
  BY WorkerConstants DEF Targets, JobStatus, TERMINAL, Codes
<1>5. CASE Refuse(p)
  BY <1>1, <1>2, <1>4, <1>5, MoveStep DEF Refuse
<1>6. CASE ToValidating(p)
  BY <1>1, <1>3, <1>4, <1>6, MoveStep DEF ToValidating, l
<1>7. CASE ToSucceeded(p)
  BY <1>1, <1>2, <1>4, <1>7, MoveStep DEF ToSucceeded
<1> QED
  BY <1>5, <1>6, <1>7

\* The exception paths: two reads, and a transition that asks for no lease.
LEMMA FailKeeps ==
    ASSUME WInv, NEW p \in Procs, LeaseLost(p) \/ FailRead(p) \/ FailWrite(p)
    PROVE  WInv' /\ Tracks
<1> DEFINE j == wk[p].job
<1>1. /\ wk[p] \in Local /\ j \in Jobs /\ wk[p].committed \subseteq Done(checkpoints, j)
      /\ wk[p].target \in {"RETRY_WAIT", "FAILED"} /\ wk[p].code \in Codes
      /\ ledger' = ledger /\ worker_id' = worker_id
      /\ TRUE \in BOOLEAN /\ "LEASE_LOST" \in Codes
  BY DEF WInv, WType, LocalInv, LocalOK, Local, LeaseLost, FailRead, FailWrite, Codes
<1>2. CASE LeaseLost(p)
  <2>1. UNCHANGED <<storeVars, ledger, worker_id>> /\ (Return(p) \/ Raise(p, TRUE, "LEASE_LOST"))
    BY <1>2 DEF LeaseLost
  <2> QED BY <1>1, <2>1, ReturnStep, RaiseStep
<1>3. CASE FailRead(p)
  <2> DEFINE target == FailTarget(p)
             l == [wk[p] EXCEPT !.pc = "give_up", !.target = target]
  <2>1. target \in {"RETRY_WAIT", "FAILED"} /\ "give_up" \in Places
    BY DEF FailTarget, Places
  <2>2. UNCHANGED <<storeVars, ledger, worker_id>> /\ (Return(p) \/ Become(p, l))
    BY <1>3 DEF FailRead
  <2> HIDE DEF target
  <2>3. /\ l \in Local /\ l.pc = "give_up" /\ l.job = j /\ l.committed = wk[p].committed
    BY <1>1, <2>1 DEF Local
  <2> HIDE DEF l
  <2>4. LocalOK(l, checkpoints, usage_ledger, ledger)
    BY <1>1, <2>3, PlainOK DEF Plain
  <2> QED BY <2>2, <2>3, <2>4, ReturnStep, QuietStep
<1>4. CASE FailWrite(p)
  <2>1. CASE UNCHANGED storeVars
    BY <1>1, <1>4, <2>1, ReturnStep DEF FailWrite
  <2>2. CASE transition(j, wk[p].target, 0, wk[p].code, TRUE)
    <3>1. /\ wk[p].target \in Targets /\ wk[p].code \in ErrorCodes
          /\ TRUE = (wk[p].target # "VALIDATING")
      BY <1>1, WorkerConstants DEF Targets, JobStatus, TERMINAL
    <3>2. StoreOK /\ checkpoints' = checkpoints
      BY <1>1, <2>2, <3>1, TransitionStore
    <3>3. Idle(j) \in Local /\ LocalOK(Idle(j), checkpoints', usage_ledger', ledger')
      BY <1>1, IdleLocal, PlainOK DEF Plain
    <3>4. Become(p, Idle(j))
      BY <1>4 DEF FailWrite, Return
    <3> QED BY <1>1, <3>2, <3>3, <3>4, StoreStep
  <2> QED BY <1>4, <2>1, <2>2 DEF FailWrite
<1> QED
  BY <1>2, <1>3, <1>4

\* A submission, a cancellation and the clock leave every worker where it is.
LEMMA OutsideStep ==
    ASSUME WInv, StoreOK, checkpoints' = checkpoints, UNCHANGED <<ledger, wk, worker_id>>
    PROVE  WInv' /\ Tracks
<1>1. Grows(checkpoints, checkpoints', usage_ledger, usage_ledger', ledger, ledger')
  BY SameGrows
<1>2. WType' /\ RowsOK' /\ Tracks
  BY DEF WInv, WType, StoreOK
<1>3. \A c \in checkpoints : SavedOK(c, checkpoints', usage_ledger', ledger')
  BY <1>1, SavedGrows DEF WInv, WType, SavedInv
<1>4. \A q \in Procs : LocalOK(wk[q], checkpoints', usage_ledger', ledger')
  BY <1>1, LocalGrows DEF WInv, WType, LocalInv
<1> QED
  BY <1>2, <1>3, <1>4 DEF WInv, SavedInv, LocalInv

\* They are the steps of the API and of the clock.
LEMMA OutsideKeeps ==
    ASSUME WInv, (\E j \in Jobs : Submit(j) \/ Cancel(j)) \/ TimePasses
    PROVE  WInv' /\ Tracks
<1>1. CASE TimePasses
  <2>1. StoreOK /\ checkpoints' = checkpoints
    BY <1>1, TickStore DEF TimePasses, Tick
  <2> QED BY <1>1, <2>1, OutsideStep DEF TimePasses
<1>2. ASSUME NEW j \in Jobs, Submit(j) PROVE WInv' /\ Tracks
  <2>1. StoreOK /\ checkpoints' = checkpoints
    BY <1>2, CreateStore DEF Submit, create_job
  <2> QED BY <1>2, <2>1, OutsideStep DEF Submit
<1>3. ASSUME NEW j \in Jobs, Cancel(j) PROVE WInv' /\ Tracks
  <2>1. "CANCELLED" \in Targets /\ TRUE = ("CANCELLED" # "VALIDATING")
    BY DEF Targets, JobStatus, TERMINAL
  <2>2. StoreOK /\ checkpoints' = checkpoints
    BY <1>3, <2>1, TransitionStore DEF Cancel
  <2> QED BY <1>3, <2>2, OutsideStep DEF Cancel
<1> QED
  BY <1>1, <1>2, <1>3
\* The invariant holds when no job was submitted and every worker is idle.
LEMMA WInitKeeps == ASSUME WInit PROVE WInv
<1> DEFINE first == CHOOSE j \in Jobs : TRUE
<1>1. first \in Jobs
  BY WorkerConstants
<1> HIDE DEF first
<1>2. /\ jobs = [j \in Jobs |-> AbsentRow] /\ checkpoints = {} /\ usage_ledger = {}
      /\ ledger = [j \in Jobs |-> <<>>] /\ wk = [p \in Procs |-> Idle(first)]
      /\ worker_id \in [Procs -> Workers]
  BY WorkerConstants DEF WInit, Init, first
<1>3. AbsentRow \in Row /\ AbsentRow.status = "ABSENT" /\ AbsentRow.stage = PLAN
  BY AbsentRowType DEF AbsentRow, NewRow
<1>4. Idle(first) \in Local /\ LocalOK(Idle(first), checkpoints, usage_ledger, ledger)
  BY <1>1, IdleLocal, PlainOK DEF Plain
<1>5. WType
  BY <1>2, <1>3, <1>4 DEF WType
<1>6. RowsOK
  BY <1>2, <1>3, StageFacts DEF RowsOK
<1> QED
  BY <1>2, <1>4, <1>5, <1>6 DEF WInv, SavedInv, LocalInv

\* Every step of the workers, of the API and of the clock keeps the invariant, and
\* moves at most one job, the way the lifecycle allows.
LEMMA WNextKeeps == ASSUME WInv, [WNext]_wvars PROVE WInv' /\ Tracks
<1>1. CASE UNCHANGED wvars
  <2>1. UNCHANGED storeVars /\ checkpoints' = checkpoints /\ UNCHANGED <<ledger, wk, worker_id>>
    BY <1>1 DEF wvars, storeVars
  <2> QED BY <2>1, SameStore, OutsideStep
<1>2. ASSUME NEW p \in Procs, Step(p) PROVE WInv' /\ Tracks
  BY <1>2, LoadKeeps, CheckStageKeeps, EmitKeeps, ChargeStageKeeps, VerifyKeeps,
     CheckpointKeeps, ValidateKeeps, SealKeeps, CommitKeeps, FinalKeeps, FailKeeps DEF Step
<1>3. ASSUME NEW p \in Procs, Crash(p) PROVE WInv' /\ Tracks
  BY <1>3, ReturnStep DEF Crash
<1> QED
  BY <1>1, <1>2, <1>3, ClaimKeeps, OutsideKeeps DEF WNext

\* The inductive invariant holds in every reachable state, for every number of
\* workers, jobs, stages, attempts and crashes.
THEOREM WorkerInvariance == WSpec => []WInv
<1>1. WInit => WInv
  BY WInitKeeps
<1>2. WInv /\ [WNext]_wvars => WInv'
  BY WNextKeeps
<1> QED
  BY <1>1, <1>2, PTL DEF WSpec

\* What the property calls committed is what the invariant calls done.
LEMMA CommittedIsDone == ASSUME NEW j PROVE Committed(j) = Done(checkpoints, j)
  BY DEF Committed, Done

\* Stages commit in the order of STAGE_ORDER without a gap, however the attempts of
\* several workers interleave and wherever they crash (worker.py run_once).
THEOREM StagesCommitInOrderAlways == WSpec => []StagesCommitInOrder
<1>1. WInv => StagesCommitInOrder
  <2> SUFFICES ASSUME WInv, NEW j \in Jobs, NEW s \in Committed(j), NEW t \in 0 .. s
               PROVE  t \in Committed(j)
    BY DEF StagesCommitInOrder
  <2>1. PICK c \in checkpoints : c.job = j /\ c.stage = s
    BY DEF Committed
  <2>2. s \in Stage /\ \A r \in Stage : r <= s => r \in Done(checkpoints, j)
    BY <2>1 DEF WInv, SavedInv, SavedOK, SavedRow
  <2>3. t \in Stage /\ t <= s
    BY <2>2, StageAssumption DEF Stage
  <2> QED BY <2>2, <2>3, CommittedIsDone
<1> QED
  BY <1>1, WorkerInvariance, PTL

\* A checkpoint never vouches for evidence the ledger does not hold, although the
\* event is appended and the checkpoint saved in separate transactions (runtime.py).
THEOREM CheckpointIsBackedByLedgerAlways == WSpec => []CheckpointIsBackedByLedger
<1>1. WInv => CheckpointIsBackedByLedger
  <2> SUFFICES ASSUME WInv, NEW c \in checkpoints
               PROVE  LET head == c.payload.head
                          events == ledger[c.job]
                      IN  /\ Len(head) <= Len(events) /\ head = SubSeq(events, 1, Len(head))
                          /\ c.stage # VALIDATE =>
                              \E i \in DOMAIN head :
                                  head[i] = [key |-> c.stage, result |-> c.payload.result]
    BY DEF CheckpointIsBackedByLedger
  <2> DEFINE head == c.payload.head
             events == ledger[c.job]
  <2>1. /\ head \in Seq(EventRow) /\ events \in Seq(EventRow) /\ Extends(events, head)
        /\ c.stage # VALIDATE => Holds(head, c.stage, c.payload.result)
    BY DEF WInv, WType, SavedInv, SavedOK, SavedRow, SavedPayload
  <2> HIDE DEF head, events
  <2>2. Len(head) <= Len(events) /\ head = SubSeq(events, 1, Len(head))
    BY <2>1 DEF Extends
  <2> QED BY <2>1, <2>2 DEF Holds, head, events
<1> QED
  BY <1>1, WorkerInvariance, PTL

\* A SUCCEEDED job finished and paid for every stage, and was sealed with the ledger
\* the validator accepted (runtime.py finalize_with_validator).
THEOREM SuccessIsEarnedAlways == WSpec => []SuccessIsEarned
<1>1. WInv => SuccessIsEarned
  <2> SUFFICES ASSUME WInv, NEW j \in Jobs, jobs[j].status = "SUCCEEDED"
               PROVE  /\ Committed(j) = Stage
                      /\ \A s \in EXECUTION_STAGES : ChargeRecorded(j, s)
                      /\ \A c \in checkpoints : c.job = j /\ c.stage = VALIDATE =>
                            Accepted(c.payload.head) /\ c.payload.head = ledger[j]
    BY DEF SuccessIsEarned
  <2>1. Done(checkpoints, j) = Stage
    BY AllDone DEF WInv, RowsOK
  <2>2. ASSUME NEW s \in EXECUTION_STAGES PROVE ChargeRecorded(j, s)
    <3>1. PICK c \in checkpoints : c.job = j /\ c.stage = s
      BY <2>1, StageFacts DEF Done
    <3>2. Paid(usage_ledger, j, s)
      BY <3>1 DEF WInv, SavedInv, SavedOK, EXECUTION_STAGES
    <3> QED BY <3>2 DEF Paid, ChargeRecorded
  <2>3. \A c \in checkpoints : c.job = j /\ c.stage = VALIDATE =>
            Accepted(c.payload.head) /\ c.payload.head = ledger[j]
    BY DEF WInv, SavedInv, SavedOK
  <2> QED BY <2>1, <2>2, <2>3, CommittedIsDone
<1> QED
  BY <1>1, WorkerInvariance, PTL
-----------------------------------------------------------------------------
(***************************************************************************)
(* The refinement: a step of the workers is a step of the lifecycle, or    *)
(* changes nothing a submitter sees.                                       *)
(***************************************************************************)

\* The committed stages of a job can be counted.
LEMMA DoneCount ==
    ASSUME WInv, NEW j \in Jobs
    PROVE  /\ Done(checkpoints, j) \subseteq Stage /\ IsFiniteSet(Done(checkpoints, j))
           /\ Cardinality(Done(checkpoints, j)) \in Nat
           /\ Cardinality(Stage) = LastStage + 1 /\ IsFiniteSet(Stage)
<1>1. Done(checkpoints, j) \subseteq Stage
  BY DEF WInv, SavedInv, SavedOK, SavedRow, Done
<1>2. IsFiniteSet(Stage) /\ Cardinality(Stage) = LastStage + 1
  BY FS_Interval, StageAssumption DEF Stage
<1>3. IsFiniteSet(Done(checkpoints, j))
  BY <1>1, <1>2, FS_Subset
<1> QED
  BY <1>1, <1>2, <1>3, FS_CardinalityType

\* One more committed stage counts for one more, and there was room for it.
LEMMA OneMoreDone ==
    ASSUME WInv, NEW j \in Jobs, NEW s \in Stage \ Done(checkpoints, j)
    PROVE  /\ Cardinality(Done(checkpoints, j) \cup {s}) = Cardinality(Done(checkpoints, j)) + 1
           /\ Cardinality(Done(checkpoints, j)) < LastStage + 1
<1> DEFINE done == Done(checkpoints, j)
<1>1. /\ done \subseteq Stage /\ IsFiniteSet(done) /\ Cardinality(done) \in Nat
      /\ Cardinality(Stage) = LastStage + 1 /\ IsFiniteSet(Stage)
  BY DoneCount
<1> HIDE DEF done
<1>2. Cardinality(done \cup {s}) = Cardinality(done) + 1 /\ s \notin done
  BY <1>1, FS_AddElement DEF done
<1>3. Cardinality(done \cup {s}) <= Cardinality(Stage)
  <2>1. done \cup {s} \in SUBSET Stage
    BY <1>1
  <2> QED BY <1>1, <2>1, FS_Subset
<1>4. Cardinality(done) < LastStage + 1
  BY <1>1, <1>2, <1>3, StageAssumption
<1> QED
  BY <1>2, <1>4 DEF done

\* A step that moves one job is a step of the lifecycle or a stutter.
LEMMA TracksLifecycle ==
    ASSUME WInv, Tracks
    PROVE  [Abstract!Next]_(Abstract!vars)
<1> DEFINE ph == [i \in Jobs |-> PhaseOf(i)]
           dn == [i \in Jobs |-> Cardinality(Committed(i))]
<1>1. PICK j \in Jobs : OnlyMoves(j) /\ Moves(j)
  BY DEF Tracks
<1>2. /\ ph' = [ph EXCEPT ![j] = PhaseOf(j)']
      /\ dn' = [dn EXCEPT ![j] = Cardinality(Done(checkpoints', j))]
      /\ ph[j] = PhaseOf(j) /\ dn[j] = Cardinality(Done(checkpoints, j))
      /\ ph'[j] = PhaseOf(j)' /\ dn'[j] = Cardinality(Done(checkpoints', j))
      /\ ph = [ph EXCEPT ![j] = ph[j]] /\ dn = [dn EXCEPT ![j] = dn[j]]
  <2>1. /\ \A i \in Jobs \ {j} : PhaseOf(i)' = PhaseOf(i)
        /\ \A i \in Jobs \ {j} : Committed(i)' = Committed(i)
        /\ Committed(j)' = Done(checkpoints', j) /\ Committed(j) = Done(checkpoints, j)
    BY <1>1 DEF OnlyMoves, Committed, Done
  <2> QED BY <2>1
<1> DEFINE same == Done(checkpoints', j) = Done(checkpoints, j)
<1>3. CASE PhaseOf(j)' = PhaseOf(j) /\ same
  <2>1. ph' = ph /\ dn' = dn
    BY <1>2, <1>3
  <2> QED BY <2>1 DEF Abstract!vars
<1>4. CASE PhaseOf(j) = "none" /\ PhaseOf(j)' = "open" /\ same
  <2>1. Abstract!Submit(j)
    BY <1>2, <1>4 DEF Abstract!Submit
  <2> QED BY <2>1 DEF Abstract!Next
<1>5. CASE /\ PhaseOf(j) = "open" /\ PhaseOf(j)' = "open"
           /\ \E s \in Stage \ Done(checkpoints, j) :
                Done(checkpoints', j) = Done(checkpoints, j) \cup {s}
  <2>1. /\ Cardinality(Done(checkpoints', j)) = Cardinality(Done(checkpoints, j)) + 1
        /\ Cardinality(Done(checkpoints, j)) < LastStage + 1
    BY <1>5, OneMoreDone
  <2>2. Abstract!FinishStage(j)
    BY <1>2, <1>5, <2>1 DEF Abstract!FinishStage
  <2> QED BY <2>2 DEF Abstract!Next
<1>6. CASE /\ PhaseOf(j) = "open" /\ PhaseOf(j)' = "succeeded"
           /\ Done(checkpoints, j) = Stage /\ same
  <2>1. Cardinality(Done(checkpoints, j)) = LastStage + 1
    BY <1>6, DoneCount
  <2>2. Abstract!Succeed(j)
    BY <1>2, <1>6, <2>1 DEF Abstract!Succeed
  <2> QED BY <2>2 DEF Abstract!Next
<1>7. CASE PhaseOf(j) = "open" /\ PhaseOf(j)' \in {"failed", "cancelled"} /\ same
  <2>1. Abstract!GiveUp(j)
    BY <1>2, <1>7 DEF Abstract!GiveUp
  <2> QED BY <2>1 DEF Abstract!Next
<1> QED
  BY <1>1, <1>3, <1>4, <1>5, <1>6, <1>7 DEF Moves

\* No job is submitted and no stage finished at the start.
LEMMA InitLifecycle == ASSUME WInit PROVE Abstract!Init
<1>1. \A j \in Jobs : PhaseOf(j) = "none"
  BY PhaseFacts DEF WInit, Init, AbsentRow, NewRow
<1>2. \A j \in Jobs : Committed(j) = {}
  BY DEF WInit, Init, Committed
<1>3. Cardinality({}) = 0
  BY FS_EmptySet
<1> QED
  BY <1>1, <1>2, <1>3 DEF Abstract!Init

\* The workers on the job store implement the lifecycle promised to a submitter: an
\* open job finishes its stages one at a time, loses none, and closes exactly once.
THEOREM WorkersImplementLifecycle == WSpec => ImplementsLifecycle
<1>1. WInit => Abstract!Init
  BY InitLifecycle
<1>2. WInv /\ [WNext]_wvars => [Abstract!Next]_(Abstract!vars)
  BY WNextKeeps, TracksLifecycle
<1>3. WSpec => Abstract!Spec
  BY <1>1, <1>2, WorkerInvariance, PTL DEF WSpec, Abstract!Spec
<1> QED
  BY <1>3 DEF ImplementsLifecycle
=============================================================================
