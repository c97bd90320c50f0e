--------------------------- MODULE JobStoreProofs ---------------------------
(***************************************************************************)
(* What the job store guarantees for every number of jobs, workers, keys,  *)
(* stages and ticks, proved from its actions.                              *)
(***************************************************************************)
EXTENDS JobStore, FiniteSetTheorems, WellFoundedInduction, TLAPS

\* The part of the inductive invariant that no run needs to state by itself:
\* a RUNNING row has an owner, a SUCCEEDED row stands at VALIDATE, and a row not
\* yet inserted stands at PLAN.
RowShape ==
    \A j \in Jobs :
        /\ jobs[j].status = "RUNNING" => jobs[j].owner # NoWorker
        /\ jobs[j].status = "SUCCEEDED" => jobs[j].stage = VALIDATE
        /\ jobs[j].status = "ABSENT" => jobs[j].stage = PLAN

IInv ==
    /\ TypeOK
    /\ OneJobPerRequestKey
    /\ BudgetRespected
    /\ OneContentPerKey
    /\ StageIsCommitted
    /\ LeaseOnlyWhileActive
    /\ RowShape

\* The row create_job inserts is a row of the schema.
LEMMA NewRowType ==
    ASSUME NEW key \in RequestKeys, NEW task \in Tasks, NEW max \in Budgets
    PROVE  NewRow(key, task, max) \in Row
  BY StageAssumption, TimeAssumption
  DEF NewRow, Row, Stage, PLAN, Expired, JobStatus

\* The placeholder of a row not yet inserted is well typed.
LEMMA AbsentRowType == AbsentRow \in Row
<1> DEFINE k == CHOOSE k \in RequestKeys : TRUE
           t == CHOOSE t \in Tasks : TRUE
           m == CHOOSE m \in Budgets : TRUE
<1>1. k \in RequestKeys /\ t \in Tasks /\ m \in Budgets
  BY RequestAssumption
<1>2. NewRow(k, t, m) \in Row
  BY <1>1, NewRowType
<1> QED
  BY <1>2 DEF AbsentRow, Row

\* Initially no job exists and the tables are empty.
LEMMA InitIInv == Init => IInv
<1> SUFFICES ASSUME Init PROVE IInv
  OBVIOUS
<1>1. TypeOK
  BY AbsentRowType DEF Init, TypeOK
<1>2. \A j \in Jobs : /\ jobs[j].status = "ABSENT" /\ jobs[j].stage = PLAN
                      /\ jobs[j].owner = NoWorker
                      /\ jobs[j].used = [r \in Resources |-> 0]
                      /\ jobs[j].max \in Budgets
  <2>1. AbsentRow \in Row
    BY AbsentRowType
  <2> QED
    BY <2>1 DEF Init, AbsentRow, NewRow, Row
<1>3. OneJobPerRequestKey
  BY <1>2 DEF OneJobPerRequestKey, Exists
<1>4. BudgetRespected
  BY <1>2, BudgetAssumption DEF BudgetRespected
<1>5. OneContentPerKey
  BY DEF Init, OneContentPerKey
<1>6. StageIsCommitted
  BY <1>2 DEF Init, StageIsCommitted
<1>7. LeaseOnlyWhileActive /\ RowShape
  BY <1>2 DEF LeaseOnlyWhileActive, RowShape
<1> QED
  BY <1>1, <1>3, <1>4, <1>5, <1>6, <1>7 DEF IInv

\* Ageing a lease keeps the row well typed.
LEMMA AgeType == ASSUME NEW row \in Row PROVE Age(row) \in Row
<1>1. (IF row.left > Expired THEN row.left - 1 ELSE row.left) \in Int
  BY TimeAssumption DEF Row, Expired
<1> QED
  BY <1>1 DEF Row, Age

\* What acquire_lease writes.
LEMMA LeasedRow ==
    ASSUME NEW row \in Row, NEW w \in Workers, NEW left \in Int
    PROVE  LET new == Leased(row, w, left)
           IN  /\ new \in Row
               /\ new.status = "RUNNING" /\ new.owner = w
               /\ new.stage = row.stage /\ new.used = row.used /\ new.max = row.max
               /\ new.key = row.key /\ new.task = row.task
<1>1. row.attempts + 1 \in Nat /\ row.version + 1 \in Nat
  BY DEF Row
<1>2. "RUNNING" \in JobStatus
  BY DEF JobStatus
<1> QED
  BY <1>1, <1>2 DEF Row, Leased

\* What heartbeat writes.
LEMMA RenewedRow ==
    ASSUME NEW row \in Row, NEW left \in Int
    PROVE  LET new == Renewed(row, left)
           IN  /\ new \in Row
               /\ new.status = row.status /\ new.owner = row.owner
               /\ new.stage = row.stage /\ new.used = row.used /\ new.max = row.max
               /\ new.key = row.key /\ new.task = row.task
<1>1. row.version + 1 \in Nat
  BY DEF Row
<1> QED
  BY <1>1 DEF Row, Renewed

\* What save_checkpoint writes to the job row.
LEMMA AtStageRow ==
    ASSUME NEW row \in Row, NEW stage \in Stage
    PROVE  LET new == AtStage(row, stage)
           IN  /\ new \in Row
               /\ new.stage = stage
               /\ new.status = row.status /\ new.owner = row.owner
               /\ new.used = row.used /\ new.max = row.max
               /\ new.key = row.key /\ new.task = row.task
<1>1. row.version + 1 \in Nat
  BY DEF Row
<1> QED
  BY <1>1 DEF Row, AtStage

\* What charge writes to the job row.
LEMMA ChargedRow ==
    ASSUME NEW row \in Row, NEW usage \in Usages
    PROVE  LET new == Charged(row, usage)
           IN  /\ new \in Row
               /\ new.used = [r \in Resources |-> row.used[r] + usage[r]]
               /\ new.max = row.max
               /\ new.status = row.status /\ new.owner = row.owner
               /\ new.stage = row.stage /\ new.error = row.error
               /\ new.key = row.key /\ new.task = row.task
<1> DEFINE sum == [r \in Resources |-> row.used[r] + usage[r]]
<1>1. row.version + 1 \in Nat
  BY DEF Row
<1>2. sum \in [Resources -> Nat]
  BY UsageAssumption DEF Row
<1>3. Charged(row, usage) = [row EXCEPT !.used = sum, !.version = row.version + 1]
  BY DEF Charged
<1> HIDE DEF sum
<1>4. LET new == Charged(row, usage)
      IN  /\ new \in Row
          /\ new.used = sum
          /\ new.max = row.max
          /\ new.status = row.status /\ new.owner = row.owner
          /\ new.stage = row.stage /\ new.error = row.error
          /\ new.key = row.key /\ new.task = row.task
  BY <1>1, <1>2, <1>3 DEF Row
<1> QED
  BY <1>4 DEF sum

\* What transition writes as its callers use it: only VALIDATING keeps the lease.
LEMMA MovedRow ==
    ASSUME NEW row \in Row, NEW target \in JobStatus,
           NEW error \in ErrorCodes \cup {NoError}
    PROVE  LET new == Moved(row, target, error, target # "VALIDATING")
           IN  /\ new \in Row
               /\ new.status = target
               /\ new.owner = IF target # "VALIDATING" THEN NoWorker ELSE row.owner
               /\ new.stage = row.stage /\ new.used = row.used /\ new.max = row.max
               /\ new.key = row.key /\ new.task = row.task
<1> DEFINE owner == IF target # "VALIDATING" THEN NoWorker ELSE row.owner
           left == IF target # "VALIDATING" THEN Expired ELSE row.left
<1>1. row.version + 1 \in Nat
  BY DEF Row
<1>2. owner \in Workers \cup {NoWorker} /\ left \in Int
  BY TimeAssumption DEF Row, Expired
<1>3. Moved(row, target, error, target # "VALIDATING") =
        [row EXCEPT !.status = target, !.error = error, !.version = row.version + 1,
                    !.owner = owner, !.left = left]
  BY DEF Moved
<1> HIDE DEF owner, left
<1>4. [row EXCEPT !.status = target, !.error = error, !.version = row.version + 1,
                  !.owner = owner, !.left = left] \in Row
  BY <1>1, <1>2 DEF Row
<1>5. LET new == Moved(row, target, error, target # "VALIDATING")
      IN  /\ new.status = target
          /\ new.owner = owner
          /\ new.stage = row.stage /\ new.used = row.used /\ new.max = row.max
          /\ new.key = row.key /\ new.task = row.task
  BY <1>3 DEF Row
<1> QED
  BY <1>3, <1>4, <1>5 DEF owner

-----------------------------------------------------------------------------
(***************************************************************************)
(* Each write preserves the inductive invariant.  In every proof new is    *)
(* the row the write leaves for j, and <1>2 says every other row stays.    *)
(***************************************************************************)

\* create_job inserts at a free identifier, under a free request key.
LEMMA CreateStep ==
    ASSUME IInv, NEW j \in Jobs, NEW key \in RequestKeys, NEW task \in Tasks,
           NEW max \in Budgets, create_job(j, key, task, max)
    PROVE  IInv'
<1> DEFINE new == NewRow(key, task, max)
<1>1. /\ new \in Row /\ new.status = "QUEUED" /\ new.owner = NoWorker
      /\ new.stage = PLAN /\ new.key = key /\ new.max = max
      /\ \A r \in Resources : new.used[r] = 0
  BY NewRowType DEF NewRow
<1> HIDE DEF new
<1>2. /\ jobs' = [jobs EXCEPT ![j] = new]
      /\ UNCHANGED <<checkpoints, usage_ledger>>
      /\ jobs[j].status = "ABSENT" /\ KeyIsFree(key)
  BY DEF create_job, new, Exists
<1>3. TypeOK'
  BY <1>1, <1>2 DEF IInv, TypeOK
<1>4. \A i \in Jobs : jobs'[i] = IF i = j THEN new ELSE jobs[i]
  BY <1>2 DEF IInv, TypeOK
<1>5. OneJobPerRequestKey'
  BY <1>1, <1>2, <1>4 DEF IInv, OneJobPerRequestKey, KeyIsFree, Exists
<1>6. BudgetRespected'
  BY <1>1, <1>4, BudgetAssumption DEF IInv, BudgetRespected
<1>7. OneContentPerKey'
  BY <1>2 DEF IInv, OneContentPerKey
<1>8. StageIsCommitted'
  BY <1>1, <1>2, <1>4 DEF IInv, StageIsCommitted, RowShape
<1>9. LeaseOnlyWhileActive' /\ RowShape'
  BY <1>1, <1>4 DEF IInv, LeaseOnlyWhileActive, RowShape
<1> QED
  BY <1>3, <1>5, <1>6, <1>7, <1>8, <1>9 DEF IInv

\* acquire_lease gives the row an owner together with status RUNNING.
LEMMA AcquireStep ==
    ASSUME IInv, NEW j \in Jobs, NEW w \in Workers, NEW lease \in LeaseSeconds,
           NEW d \in Delays, acquire_lease(j, w, lease, d)
    PROVE  IInv'
<1> DEFINE new == Leased(jobs[j], w, lease - d)
<1>0. jobs[j] \in Row /\ lease - d \in Int
  BY TimeAssumption DEF IInv, TypeOK, Delays
<1>1. /\ new \in Row /\ new.status = "RUNNING" /\ new.owner = w
      /\ new.stage = jobs[j].stage /\ new.used = jobs[j].used
      /\ new.max = jobs[j].max /\ new.key = jobs[j].key
  BY <1>0, LeasedRow
<1> HIDE DEF new
<1>2. /\ jobs' = [jobs EXCEPT ![j] = new]
      /\ UNCHANGED <<checkpoints, usage_ledger>>
      /\ jobs[j].status \in {"QUEUED", "RUNNING", "RETRY_WAIT"}
  BY DEF acquire_lease, new
<1>3. TypeOK'
  BY <1>1, <1>2 DEF IInv, TypeOK
<1>4. \A i \in Jobs : jobs'[i] = IF i = j THEN new ELSE jobs[i]
  BY <1>2 DEF IInv, TypeOK
<1>5. OneJobPerRequestKey'
  BY <1>1, <1>2, <1>4 DEF IInv, OneJobPerRequestKey, Exists
<1>6. BudgetRespected'
  BY <1>1, <1>4 DEF IInv, BudgetRespected
<1>7. OneContentPerKey'
  BY <1>2 DEF IInv, OneContentPerKey
<1>8. StageIsCommitted'
  BY <1>1, <1>2, <1>4 DEF IInv, StageIsCommitted
<1>9. LeaseOnlyWhileActive' /\ RowShape'
  BY <1>1, <1>4, WorkerAssumption DEF IInv, LeaseOnlyWhileActive, RowShape
<1> QED
  BY <1>3, <1>5, <1>6, <1>7, <1>8, <1>9 DEF IInv

\* heartbeat moves the expiry and nothing the invariant reads.
LEMMA HeartbeatStep ==
    ASSUME IInv, NEW j \in Jobs, NEW w \in Workers, NEW lease \in LeaseSeconds,
           NEW d \in Delays, heartbeat(j, w, lease, d)
    PROVE  IInv'
<1> DEFINE new == Renewed(jobs[j], lease - d)
<1>0. jobs[j] \in Row /\ lease - d \in Int
  BY TimeAssumption DEF IInv, TypeOK, Delays
<1>1. /\ new \in Row /\ new.status = jobs[j].status /\ new.owner = jobs[j].owner
      /\ new.stage = jobs[j].stage /\ new.used = jobs[j].used
      /\ new.max = jobs[j].max /\ new.key = jobs[j].key
  BY <1>0, RenewedRow
<1> HIDE DEF new
<1>2. /\ jobs' = [jobs EXCEPT ![j] = new]
      /\ UNCHANGED <<checkpoints, usage_ledger>>
  BY DEF heartbeat, new
<1>3. TypeOK'
  BY <1>1, <1>2 DEF IInv, TypeOK
<1>4. \A i \in Jobs : jobs'[i] = IF i = j THEN new ELSE jobs[i]
  BY <1>2 DEF IInv, TypeOK
<1>5. OneJobPerRequestKey'
  BY <1>1, <1>4 DEF IInv, OneJobPerRequestKey, Exists
<1>6. BudgetRespected'
  BY <1>1, <1>4 DEF IInv, BudgetRespected
<1>7. OneContentPerKey'
  BY <1>2 DEF IInv, OneContentPerKey
<1>8. StageIsCommitted'
  BY <1>1, <1>2, <1>4 DEF IInv, StageIsCommitted
<1>9. LeaseOnlyWhileActive' /\ RowShape'
  BY <1>1, <1>4 DEF IInv, LeaseOnlyWhileActive, RowShape
<1> QED
  BY <1>3, <1>5, <1>6, <1>7, <1>8, <1>9 DEF IInv

\* save_checkpoint adds the row that witnesses the stage it writes.
LEMMA CheckpointStep ==
    ASSUME IInv, NEW j \in Jobs, NEW w \in Workers, NEW stage \in Stage,
           NEW key \in CheckpointKeys, NEW payload \in Payloads, NEW d \in Delays,
           save_checkpoint(j, w, stage, key, payload, d)
    PROVE  IInv'
<1> DEFINE new == AtStage(jobs[j], stage)
           row == [job |-> j, key |-> key, stage |-> stage, payload |-> payload]
<1>0. jobs[j] \in Row
  BY DEF IInv, TypeOK
<1>1. /\ new \in Row /\ new.status = jobs[j].status /\ new.owner = jobs[j].owner
      /\ new.stage = stage /\ new.used = jobs[j].used
      /\ new.max = jobs[j].max /\ new.key = jobs[j].key
  BY <1>0, AtStageRow
<1> HIDE DEF new
<1>2. /\ jobs' = [jobs EXCEPT ![j] = new]
      /\ checkpoints' = checkpoints \cup {row}
      /\ UNCHANGED usage_ledger
      /\ jobs[j].status = "RUNNING" /\ stage >= jobs[j].stage
      /\ CheckpointFits(j, key, stage, payload)
  BY DEF save_checkpoint, new, HoldsLease, StageForward
<1>3. row \in CheckpointRow
  BY DEF CheckpointRow
<1>r. row.job = j /\ row.key = key /\ row.stage = stage /\ row.payload = payload
  OBVIOUS
<1>c. ASSUME NEW c \in checkpoints, c.job = j, c.key = key PROVE c = row
  <2>1. c \in CheckpointRow
    BY DEF IInv, TypeOK
  <2>2. c.stage = stage /\ c.payload = payload
    BY <1>2, <1>c DEF CheckpointFits
  <2> QED
    BY <1>c, <2>1, <2>2 DEF CheckpointRow
<1> HIDE DEF row
<1>t. TypeOK'
  BY <1>1, <1>2, <1>3 DEF IInv, TypeOK
<1>4. \A i \in Jobs : jobs'[i] = IF i = j THEN new ELSE jobs[i]
  BY <1>2 DEF IInv, TypeOK
<1>5. OneJobPerRequestKey'
  BY <1>1, <1>4 DEF IInv, OneJobPerRequestKey, Exists
<1>6. BudgetRespected'
  BY <1>1, <1>4 DEF IInv, BudgetRespected
<1>7. OneContentPerKey'
  BY <1>2, <1>c, <1>r DEF IInv, OneContentPerKey
<1>8. StageIsCommitted'
  <2> SUFFICES ASSUME NEW i \in Jobs
               PROVE  /\ \A c \in checkpoints' : c.job = i => c.stage <= jobs'[i].stage
                      /\ jobs'[i].stage # PLAN =>
                            \E c \in checkpoints' : c.job = i /\ c.stage = jobs'[i].stage
    BY DEF StageIsCommitted
  <2>1. CASE i = j
    <3>1. ASSUME NEW c \in checkpoints, c.job = j PROVE c.stage <= stage
      <4>1. c.stage <= jobs[j].stage
        BY <3>1 DEF IInv, StageIsCommitted
      <4>2. c.stage \in Int /\ jobs[j].stage \in Int /\ stage \in Int
        BY <1>0 DEF IInv, TypeOK, CheckpointRow, Row, Stage
      <4> QED
        BY <1>2, <4>1, <4>2
    <3>2. stage <= stage
      BY DEF Stage
    <3> QED
      BY <1>1, <1>2, <1>4, <1>r, <2>1, <3>1, <3>2
  <2>2. CASE i # j
    BY <1>2, <1>4, <1>r, <2>2 DEF IInv, StageIsCommitted
  <2> QED
    BY <2>1, <2>2
<1>9. LeaseOnlyWhileActive' /\ RowShape'
  BY <1>1, <1>2, <1>4 DEF IInv, LeaseOnlyWhileActive, RowShape
<1> QED
  BY <1>t, <1>5, <1>6, <1>7, <1>8, <1>9 DEF IInv

\* charge adds a usage row under a new key and stays within every budget.
LEMMA ChargeStep ==
    ASSUME IInv, NEW j \in Jobs, NEW key \in ChargeKeys, NEW usage \in Usages,
           charge(j, key, usage)
    PROVE  IInv'
<1> DEFINE new == Charged(jobs[j], usage)
           row == [job |-> j, key |-> key, usage |-> usage]
<1>0. jobs[j] \in Row
  BY DEF IInv, TypeOK
<1>1. /\ new \in Row /\ new.status = jobs[j].status /\ new.owner = jobs[j].owner
      /\ new.stage = jobs[j].stage /\ new.max = jobs[j].max /\ new.key = jobs[j].key
      /\ new.used = [r \in Resources |-> jobs[j].used[r] + usage[r]]
  BY <1>0, ChargedRow
<1> HIDE DEF new
<1>2. /\ jobs' = [jobs EXCEPT ![j] = new]
      /\ usage_ledger' = usage_ledger \cup {row}
      /\ UNCHANGED checkpoints
      /\ ~ChargeRecorded(j, key) /\ WithinBudget(jobs[j], usage)
  BY DEF charge, new
<1>3. row \in UsageRow /\ row.job = j /\ row.key = key
  BY DEF UsageRow
<1> HIDE DEF row
<1>t. TypeOK'
  BY <1>1, <1>2, <1>3 DEF IInv, TypeOK
<1>4. \A i \in Jobs : jobs'[i] = IF i = j THEN new ELSE jobs[i]
  BY <1>2 DEF IInv, TypeOK
<1>5. OneJobPerRequestKey'
  BY <1>1, <1>4 DEF IInv, OneJobPerRequestKey, Exists
<1>6. BudgetRespected'
  BY <1>1, <1>2, <1>4 DEF IInv, BudgetRespected, WithinBudget
<1>7. OneContentPerKey'
  BY <1>2, <1>3 DEF IInv, OneContentPerKey, ChargeRecorded
<1>8. StageIsCommitted'
  BY <1>1, <1>2, <1>4 DEF IInv, StageIsCommitted
<1>9. LeaseOnlyWhileActive' /\ RowShape'
  BY <1>1, <1>4 DEF IInv, LeaseOnlyWhileActive, RowShape
<1> QED
  BY <1>t, <1>5, <1>6, <1>7, <1>8, <1>9 DEF IInv

\* transition leaves RUNNING or VALIDATING only together with the lease, and
\* enters SUCCEEDED only at stage VALIDATE.
LEMMA TransitionStep ==
    ASSUME IInv, NEW j \in Jobs, NEW target \in Targets, NEW expected \in 0 .. MaxVersion,
           NEW error \in ErrorCodes \cup {NoError},
           transition(j, target, expected, error, target # "VALIDATING")
    PROVE  IInv'
<1> DEFINE new == Moved(jobs[j], target, error, target # "VALIDATING")
<1>0. /\ jobs[j] \in Row
      /\ target \in JobStatus /\ target \notin {"QUEUED", "RUNNING", "ABSENT"}
  BY DEF IInv, TypeOK, Targets, JobStatus, TERMINAL
<1>1. /\ new \in Row /\ new.status = target
      /\ new.owner = IF target # "VALIDATING" THEN NoWorker ELSE jobs[j].owner
      /\ new.stage = jobs[j].stage /\ new.used = jobs[j].used
      /\ new.max = jobs[j].max /\ new.key = jobs[j].key
  BY <1>0, MovedRow
<1> HIDE DEF new
<1>2. /\ jobs' = [jobs EXCEPT ![j] = new]
      /\ UNCHANGED <<checkpoints, usage_ledger>>
      /\ target \in ALLOWED_STATUS(jobs[j].status)
      /\ target = "SUCCEEDED" => jobs[j].stage = VALIDATE
  BY DEF transition, new, StageAdmits
<1>a. jobs[j].status # "ABSENT"
  BY <1>2 DEF ALLOWED_STATUS
<1>3. TypeOK'
  BY <1>1, <1>2 DEF IInv, TypeOK
<1>4. \A i \in Jobs : jobs'[i] = IF i = j THEN new ELSE jobs[i]
  BY <1>2 DEF IInv, TypeOK
<1>5. OneJobPerRequestKey'
  BY <1>1, <1>4, <1>a DEF IInv, OneJobPerRequestKey, Exists
<1>6. BudgetRespected'
  BY <1>1, <1>4 DEF IInv, BudgetRespected
<1>7. OneContentPerKey'
  BY <1>2 DEF IInv, OneContentPerKey
<1>8. StageIsCommitted'
  BY <1>1, <1>2, <1>4 DEF IInv, StageIsCommitted
<1>9. LeaseOnlyWhileActive' /\ RowShape'
  BY <1>0, <1>1, <1>2, <1>4 DEF IInv, LeaseOnlyWhileActive, RowShape
<1> QED
  BY <1>3, <1>5, <1>6, <1>7, <1>8, <1>9 DEF IInv

\* The passing of time changes no field the invariant reads.
LEMMA TickStep == ASSUME IInv, Tick PROVE IInv'
<1>1. \A i \in Jobs : jobs'[i] \in Row
  BY AgeType DEF Tick, IInv, TypeOK
<1>2. \A i \in Jobs :
        /\ jobs'[i].status = jobs[i].status /\ jobs'[i].owner = jobs[i].owner
        /\ jobs'[i].stage = jobs[i].stage /\ jobs'[i].used = jobs[i].used
        /\ jobs'[i].max = jobs[i].max /\ jobs'[i].key = jobs[i].key
  BY DEF Tick, Age, IInv, TypeOK, Row
<1>3. UNCHANGED <<checkpoints, usage_ledger>> /\ jobs' \in [Jobs -> Row]
  BY <1>1 DEF Tick
<1>4. TypeOK'
  BY <1>3 DEF IInv, TypeOK
<1>5. OneJobPerRequestKey' /\ BudgetRespected'
  BY <1>2 DEF IInv, OneJobPerRequestKey, Exists, BudgetRespected
<1>6. OneContentPerKey' /\ StageIsCommitted'
  BY <1>2, <1>3 DEF IInv, OneContentPerKey, StageIsCommitted
<1>7. LeaseOnlyWhileActive' /\ RowShape'
  BY <1>2 DEF IInv, LeaseOnlyWhileActive, RowShape
<1> QED
  BY <1>4, <1>5, <1>6, <1>7 DEF IInv

\* Every step of the store preserves the inductive invariant.
LEMMA NextStep == IInv /\ [Next]_vars => IInv'
<1> SUFFICES ASSUME IInv, [Next]_vars PROVE IInv'
  OBVIOUS
<1>1. CASE UNCHANGED vars
  BY <1>1 DEF vars, IInv, TypeOK, OneJobPerRequestKey, BudgetRespected,
     OneContentPerKey, StageIsCommitted, LeaseOnlyWhileActive, RowShape, Exists
<1>2. CASE Tick
  BY <1>2, TickStep
<1>3. ASSUME NEW j \in Jobs, Write(j) PROVE IInv'
  BY <1>3, CreateStep, AcquireStep, HeartbeatStep, CheckpointStep, ChargeStep,
     TransitionStep DEF Write
<1> QED
  BY <1>1, <1>2, <1>3 DEF Next

\* Theorem: the inductive invariant holds throughout.
THEOREM Invariance == Spec => []IInv
  BY InitIInv, NextStep, PTL DEF Spec

-----------------------------------------------------------------------------
\* Theorem: the three tables always hold rows of their schemas.
THEOREM TypeCorrect == Spec => []TypeOK
<1>1. IInv => TypeOK
  BY DEF IInv
<1> QED
  BY <1>1, Invariance, PTL

\* Theorem: concurrent submissions under one request key yield one job.
THEOREM SubmissionIsIdempotent == Spec => []OneJobPerRequestKey
<1>1. IInv => OneJobPerRequestKey
  BY DEF IInv
<1> QED
  BY <1>1, Invariance, PTL

\* Theorem: no interleaving of charges overspends any budget dimension.
THEOREM BudgetSafety == Spec => []BudgetRespected
<1>1. IInv => BudgetRespected
  BY DEF IInv
<1> QED
  BY <1>1, Invariance, PTL

\* Theorem: a SUCCEEDED job has a committed VALIDATE checkpoint row.  The guard of
\* transition only reads the stage column; StageIsCommitted links it to the row.
THEOREM SuccessIsValidated == Spec => []SucceededIsValidated
<1>1. IInv => SucceededIsValidated
  <2> SUFFICES ASSUME IInv, NEW j \in Jobs, jobs[j].status = "SUCCEEDED"
               PROVE  \E c \in checkpoints : c.job = j /\ c.stage = VALIDATE
    BY DEF SucceededIsValidated
  <2>1. jobs[j].stage = VALIDATE
    BY DEF IInv, RowShape
  <2>2. VALIDATE # PLAN
    BY StageAssumption DEF VALIDATE, PLAN
  <2> QED
    BY <2>1, <2>2 DEF IInv, StageIsCommitted
<1> QED
  BY <1>1, Invariance, PTL

\* Theorem: no active job falls out of sight of runnable_job_ids for good.
THEOREM EveryJobIsVisible == Spec => []NoInvisibleJob
<1>1. IInv => NoInvisibleJob
  <2> SUFFICES ASSUME IInv, NEW j \in Jobs,
                      jobs[j].status \in {"QUEUED", "RUNNING", "RETRY_WAIT"}
               PROVE  Runnable(jobs[j]) \/ jobs[j].left > 0
    BY DEF NoInvisibleJob
  <2>1. jobs[j].left \in Int
    BY DEF IInv, TypeOK, Row
  <2> QED
    BY <2>1 DEF IInv, RowShape, Runnable
<1> QED
  BY <1>1, Invariance, PTL

-----------------------------------------------------------------------------
(***************************************************************************)
(* Action properties.  Kept says what a write may do to the one row it     *)
(* updates and to the two side tables; every method satisfies it.          *)
(***************************************************************************)

\* What a step may do to a row: freeze a terminal one, never pass a running lease
\* to another worker, and never undo progress.
RowKept(old, new) ==
    /\ old.status \in TERMINAL =>
            new.status = old.status /\ new.stage = old.stage /\ new.error = old.error
    /\ old.owner # NoWorker /\ new.owner \notin {NoWorker, old.owner} => old.left <= 0
    /\ old.status # "ABSENT" =>
            /\ new.stage >= old.stage
            /\ \A r \in Resources : new.used[r] >= old.used[r]
            /\ new.key = old.key /\ new.task = old.task /\ new.max = old.max

Kept ==
    /\ \A i \in Jobs : RowKept(jobs[i], jobs'[i])
    /\ checkpoints \subseteq checkpoints'
    /\ usage_ledger \subseteq usage_ledger'
    /\ \A c \in checkpoints' : jobs[c.job].status \in TERMINAL => c \in checkpoints

\* A row left alone is kept, also in its numbers.
LEMMA SameRowKept ==
    ASSUME NEW old \in Row, NEW new,
           new.status = old.status, new.stage = old.stage, new.error = old.error,
           new.owner = old.owner, new.used = old.used,
           new.key = old.key, new.task = old.task, new.max = old.max
    PROVE  RowKept(old, new)
<1>1. old.stage >= old.stage /\ \A r \in Resources : old.used[r] >= old.used[r]
  BY DEF Row, Stage
<1> QED
  BY <1>1 DEF RowKept

\* A method that changes one row and keeps it, and keeps the side tables, is fine.
LEMMA OneRowKept ==
    ASSUME IInv, NEW j \in Jobs, NEW new, RowKept(jobs[j], new),
           jobs' = [jobs EXCEPT ![j] = new],
           UNCHANGED checkpoints, usage_ledger \subseteq usage_ledger'
    PROVE  Kept
<1>1. \A i \in Jobs : jobs'[i] = IF i = j THEN new ELSE jobs[i]
  BY DEF IInv, TypeOK
<1>2. \A i \in Jobs : RowKept(jobs[i], jobs[i])
  BY SameRowKept DEF IInv, TypeOK
<1> QED
  BY <1>1, <1>2 DEF Kept

\* Every write of the store keeps what is to be kept.
LEMMA WriteKeeps == ASSUME IInv, NEW j \in Jobs, Write(j) PROVE Kept
<1>0. jobs[j] \in Row
  BY DEF IInv, TypeOK
<1>r. /\ jobs[j].stage >= jobs[j].stage /\ \A r \in Resources : jobs[j].used[r] >= jobs[j].used[r]
      /\ jobs[j].left \in Int
  BY <1>0 DEF Row, Stage
<1>1. ASSUME NEW key \in RequestKeys, NEW task \in Tasks, NEW max \in Budgets,
             create_job(j, key, task, max)
      PROVE  Kept
  <2>1. jobs[j].status = "ABSENT"
    BY <1>1 DEF create_job, Exists
  <2>2. jobs[j].owner = NoWorker
    BY <2>1 DEF IInv, LeaseOnlyWhileActive
  <2>3. RowKept(jobs[j], NewRow(key, task, max))
    BY <2>1, <2>2 DEF RowKept, TERMINAL
  <2> QED
    BY <1>1, <2>3, OneRowKept DEF create_job
<1>2. ASSUME NEW w \in Workers, NEW lease \in LeaseSeconds, NEW d \in Delays,
             acquire_lease(j, w, lease, d)
      PROVE  Kept
  <2> DEFINE new == Leased(jobs[j], w, lease - d)
  <2>1. lease - d \in Int /\ d \in Int /\ d >= 0
    BY TimeAssumption DEF Delays
  <2>2. /\ new.owner = w /\ new.stage = jobs[j].stage /\ new.used = jobs[j].used
        /\ new.max = jobs[j].max /\ new.key = jobs[j].key /\ new.task = jobs[j].task
    BY <1>0, <2>1, LeasedRow
  <2> HIDE DEF new
  <2>3. jobs[j].status \notin TERMINAL /\ ~LeaseBlocks(jobs[j], w, d)
    BY <1>2 DEF acquire_lease, TERMINAL
  <2>4. jobs[j].owner \notin {NoWorker, w} => jobs[j].left <= 0
    BY <1>r, <2>1, <2>3 DEF LeaseBlocks
  <2>5. RowKept(jobs[j], new)
    BY <1>r, <2>2, <2>3, <2>4 DEF RowKept
  <2> QED
    BY <1>2, <2>5, OneRowKept DEF acquire_lease, new
<1>3. ASSUME NEW w \in Workers, NEW lease \in LeaseSeconds, NEW d \in Delays,
             heartbeat(j, w, lease, d)
      PROVE  Kept
  <2> DEFINE new == Renewed(jobs[j], lease - d)
  <2>1. lease - d \in Int
    BY TimeAssumption DEF Delays
  <2>2. /\ new.owner = jobs[j].owner /\ new.stage = jobs[j].stage /\ new.used = jobs[j].used
        /\ new.max = jobs[j].max /\ new.key = jobs[j].key /\ new.task = jobs[j].task
    BY <1>0, <2>1, RenewedRow
  <2> HIDE DEF new
  <2>3. jobs[j].status \notin TERMINAL
    BY <1>3 DEF heartbeat, HoldsLease, TERMINAL
  <2>4. RowKept(jobs[j], new)
    BY <1>r, <2>2, <2>3 DEF RowKept
  <2> QED
    BY <1>3, <2>4, OneRowKept DEF heartbeat, new
<1>4. ASSUME NEW w \in Workers, NEW stage \in Stage, NEW key \in CheckpointKeys,
             NEW payload \in Payloads, NEW d \in Delays,
             save_checkpoint(j, w, stage, key, payload, d)
      PROVE  Kept
  <2> DEFINE new == AtStage(jobs[j], stage)
             row == [job |-> j, key |-> key, stage |-> stage, payload |-> payload]
  <2>1. /\ new.stage = stage /\ new.owner = jobs[j].owner /\ new.used = jobs[j].used
        /\ new.max = jobs[j].max /\ new.key = jobs[j].key /\ new.task = jobs[j].task
    BY <1>0, AtStageRow
  <2> HIDE DEF new
  <2>2. jobs[j].status \notin TERMINAL /\ stage >= jobs[j].stage
    BY <1>4 DEF save_checkpoint, HoldsLease, StageForward, TERMINAL
  <2>3. RowKept(jobs[j], new)
    BY <1>r, <2>1, <2>2 DEF RowKept
  <2>4. /\ jobs' = [jobs EXCEPT ![j] = new] /\ usage_ledger' = usage_ledger
        /\ checkpoints' = checkpoints \cup {row}
    BY <1>4 DEF save_checkpoint, new
  <2>5. \A c \in checkpoints' : c \in checkpoints \/ c.job = j
    BY <2>4
  <2> HIDE DEF row
  <2>6. \A i \in Jobs : jobs'[i] = IF i = j THEN new ELSE jobs[i]
    BY <2>4 DEF IInv, TypeOK
  <2>7. \A i \in Jobs : RowKept(jobs[i], jobs[i])
    BY SameRowKept DEF IInv, TypeOK
  <2> QED
    BY <2>2, <2>3, <2>4, <2>5, <2>6, <2>7 DEF Kept
<1>5. ASSUME NEW key \in ChargeKeys, NEW usage \in Usages, charge(j, key, usage)
      PROVE  Kept
  <2> DEFINE new == Charged(jobs[j], usage)
  <2>1. /\ new.status = jobs[j].status /\ new.error = jobs[j].error
        /\ new.owner = jobs[j].owner /\ new.stage = jobs[j].stage
        /\ new.used = [r \in Resources |-> jobs[j].used[r] + usage[r]]
        /\ new.max = jobs[j].max /\ new.key = jobs[j].key /\ new.task = jobs[j].task
    BY <1>0, ChargedRow
  <2> HIDE DEF new
  <2>2. \A r \in Resources : jobs[j].used[r] \in Nat /\ usage[r] \in Nat
    BY <1>0, UsageAssumption DEF Row
  <2>3. \A r \in Resources : new.used[r] >= jobs[j].used[r]
    BY <2>1, <2>2
  <2>4. RowKept(jobs[j], new)
    BY <1>r, <2>1, <2>3 DEF RowKept
  <2> QED
    BY <1>5, <2>4, OneRowKept DEF charge, new
<1>6. ASSUME NEW target \in Targets, NEW expected \in 0 .. MaxVersion,
             NEW error \in ErrorCodes \cup {NoError},
             transition(j, target, expected, error, target # "VALIDATING")
      PROVE  Kept
  <2> DEFINE new == Moved(jobs[j], target, error, target # "VALIDATING")
  <2>1. target \in JobStatus
    BY DEF Targets
  <2>2. /\ new.owner \in {NoWorker, jobs[j].owner}
        /\ new.stage = jobs[j].stage /\ new.used = jobs[j].used
        /\ new.max = jobs[j].max /\ new.key = jobs[j].key /\ new.task = jobs[j].task
    BY <1>0, <2>1, MovedRow
  <2> HIDE DEF new
  <2>3. target \in ALLOWED_STATUS(jobs[j].status)
    BY <1>6 DEF transition
  <2>4. jobs[j].status \notin TERMINAL
    BY <2>3 DEF ALLOWED_STATUS, TERMINAL
  <2>5. RowKept(jobs[j], new)
    BY <1>r, <2>2, <2>4 DEF RowKept
  <2> QED
    BY <1>6, <2>5, OneRowKept DEF transition, new
<1> QED
  BY <1>1, <1>2, <1>3, <1>4, <1>5, <1>6 DEF Write

\* Time and stuttering keep everything too.
LEMMA NextKeeps == IInv /\ [Next]_vars => Kept
<1> SUFFICES ASSUME IInv, [Next]_vars PROVE Kept
  OBVIOUS
<1>1. CASE UNCHANGED vars
  BY <1>1, SameRowKept DEF vars, IInv, TypeOK, Kept
<1>2. CASE Tick
  <2>1. \A i \in Jobs :
            /\ jobs[i] \in Row
            /\ jobs'[i].status = jobs[i].status /\ jobs'[i].owner = jobs[i].owner
            /\ jobs'[i].stage = jobs[i].stage /\ jobs'[i].used = jobs[i].used
            /\ jobs'[i].max = jobs[i].max /\ jobs'[i].key = jobs[i].key
            /\ jobs'[i].error = jobs[i].error /\ jobs'[i].task = jobs[i].task
    BY <1>2 DEF Tick, Age, IInv, TypeOK, Row
  <2>2. \A i \in Jobs : RowKept(jobs[i], jobs'[i])
    BY <2>1, SameRowKept
  <2> QED
    BY <1>2, <2>2 DEF Tick, Kept
<1>3. ASSUME NEW j \in Jobs, Write(j) PROVE Kept
  BY <1>3, WriteKeeps
<1> QED
  BY <1>1, <1>2, <1>3 DEF Next

\* Theorem: no call about a terminal job changes its outcome or its checkpoints.
THEOREM TerminalFinality == Spec => TerminalIsFinal
<1> DEFINE A == \A j \in Jobs : jobs[j].status \in TERMINAL =>
                    /\ jobs'[j].status = jobs[j].status
                    /\ jobs'[j].stage = jobs[j].stage
                    /\ jobs'[j].error = jobs[j].error
                    /\ \A c \in checkpoints' : c.job = j => c \in checkpoints
<1>1. Kept => A
  BY DEF Kept, RowKept
<1>2. IInv /\ [Next]_vars => A
  BY <1>1, NextKeeps
<1> HIDE DEF A
<1>3. Spec => [][A]_vars
  BY <1>2, Invariance, PTL DEF Spec
<1> QED
  BY <1>3 DEF TerminalIsFinal, A

\* Theorem: a lease changes hands only after it has run out, although acquire_lease
\* judges it by a clock reading older than its transaction.
THEOREM LeaseSafety == Spec => LeaseNotStolen
<1> DEFINE A == \A j \in Jobs :
                    /\ jobs[j].owner # NoWorker
                    /\ jobs'[j].owner \notin {NoWorker, jobs[j].owner}
                    => jobs[j].left <= 0
<1>1. Kept => A
  BY DEF Kept, RowKept
<1>2. IInv /\ [Next]_vars => A
  BY <1>1, NextKeeps
<1> HIDE DEF A
<1>3. Spec => [][A]_vars
  BY <1>2, Invariance, PTL DEF Spec
<1> QED
  BY <1>3 DEF LeaseNotStolen, A

\* Theorem: checkpoints, charges, stages and counters only grow, and a submitted
\* request is never altered.
THEOREM ProgressDurability == Spec => ProgressIsDurable
<1> DEFINE A == /\ checkpoints \subseteq checkpoints'
                /\ usage_ledger \subseteq usage_ledger'
                /\ \A j \in Jobs : Exists(j) =>
                    /\ jobs'[j].stage >= jobs[j].stage
                    /\ \A r \in Resources : jobs'[j].used[r] >= jobs[j].used[r]
                    /\ jobs'[j].key = jobs[j].key
                    /\ jobs'[j].task = jobs[j].task
                    /\ jobs'[j].max = jobs[j].max
<1>1. Kept => A
  BY DEF Kept, RowKept, Exists
<1>2. IInv /\ [Next]_vars => A
  BY <1>1, NextKeeps
<1> HIDE DEF A
<1>3. Spec => [][A]_vars
  BY <1>2, Invariance, PTL DEF Spec
<1> QED
  BY <1>3 DEF ProgressIsDurable, A

-----------------------------------------------------------------------------
(***************************************************************************)
(* The used_* columns and the usage ledger.                                *)
(***************************************************************************)

\* The sum of a budget dimension over rows of the usage ledger.
Sum(S, r) == MapThenSumSet(LAMBDA u : u.usage[r], S)

\* A sum over the subsets of S that takes the elements in any order.
Additive(g, S, r) ==
    /\ g \in [SUBSET S -> Nat] /\ g[{}] = 0
    /\ \A T \in SUBSET S : \A x \in T : g[T] = x.usage[r] + g[T \ {x}]

Counted(S, r) == IsFiniteSet(S) /\ \A u \in S : u.usage[r] \in Nat

\* A set of numbers that is not empty has a least element.
LEMMA HasLeast ==
    ASSUME NEW T, T \subseteq Nat, T # {}
    PROVE  \E n \in T : \A m \in T : n <= m
<1> DEFINE Less == {r \in Nat \X Nat : r[1] < r[2]}
<1>1. IsWellFoundedOn(Less, Nat)
  BY NatLessThanWellFounded DEF OpToRel
<1>2. PICK n \in T : \A m \in T : ~(<<m, n>> \in Less)
  BY <1>1, WFMin
<1>3. \A m \in T : ~(m < n)
  BY <1>2
<1> QED BY <1>3

\* Among parts of a finite set there is one no smaller part of which is there.
LEMMA HasSmallest ==
    ASSUME NEW S, IsFiniteSet(S), NEW Q, Q \subseteq SUBSET S, Q # {}
    PROVE  \E T \in Q : \A x \in T : T \ {x} \notin Q
<1> DEFINE C == {Cardinality(T) : T \in Q}
<1>1. \A T \in SUBSET S : IsFiniteSet(T) /\ Cardinality(T) \in Nat
  BY FS_Subset, FS_CardinalityType
<1>2. C \subseteq Nat /\ C # {}
  BY <1>1
<1>3. PICK n \in C : \A m \in C : n <= m
  <2> HIDE DEF C
  <2> QED BY <1>2, HasLeast
<1>4. PICK T \in Q : Cardinality(T) = n
  BY <1>3
<1>5. \A U \in Q : Cardinality(T) <= Cardinality(U)
  BY <1>3, <1>4
<1>6. ASSUME NEW x \in T, T \ {x} \in Q PROVE FALSE
  <2>1. Cardinality(T \ {x}) = Cardinality(T) - 1
    BY <1>1, <1>4, FS_RemoveElement
  <2>2. Cardinality(T) \in Nat
    BY <1>1
  <2>3. Cardinality(T) <= Cardinality(T \ {x})
    BY <1>5, <1>6
  <2> HIDE DEF C
  <2> QED BY <2>1, <2>2, <2>3
<1> QED BY <1>6

\* Every finite set of charges has a sum.
LEMMA SumExists ==
    ASSUME NEW S, NEW r, Counted(S, r)
    PROVE  \E g : Additive(g, S, r)
<1> DEFINE Q == {T \in SUBSET S : ~\E g : Additive(g, T, r)}
<1>1. SUFFICES ASSUME Q # {} PROVE FALSE
  <2>1. S \in SUBSET S
    OBVIOUS
  <2> QED BY <2>1
<1> HIDE DEF Q
<1>2. PICK T \in Q : \A x \in T : T \ {x} \notin Q
  <2>1. Q \subseteq SUBSET S
    BY DEF Q
  <2> QED BY <1>1, <2>1, HasSmallest DEF Counted
<1>3. T \in SUBSET S /\ ~\E g : Additive(g, T, r)
  BY <1>2 DEF Q
<1>4. CASE T = {}
  <2>1. Additive([U \in SUBSET {} |-> 0], {}, r)
    BY DEF Additive
  <2> QED BY <1>3, <1>4, <2>1
<1>5. CASE T # {}
  <2>1. PICK x \in T : TRUE
    BY <1>5
  <2>2. PICK h : Additive(h, T \ {x}, r)
    BY <1>2, <1>3 DEF Q
  <2>3. x.usage[r] \in Nat
    BY <1>3 DEF Counted
  <2>4. /\ h \in [SUBSET (T \ {x}) -> Nat] /\ h[{}] = 0
        /\ \A U \in SUBSET (T \ {x}) : \A y \in U : h[U] = y.usage[r] + h[U \ {y}]
    BY <2>2 DEF Additive
  <2> DEFINE g == [U \in SUBSET T |-> IF x \in U THEN x.usage[r] + h[U \ {x}] ELSE h[U]]
  <2>5. \A U \in SUBSET T : U \ {x} \in SUBSET (T \ {x}) /\ (x \notin U => U = U \ {x})
    OBVIOUS
  <2>6. g \in [SUBSET T -> Nat]
    BY <2>3, <2>4, <2>5
  <2>7. g[{}] = 0
    BY <2>4
  <2>8. ASSUME NEW U \in SUBSET T, NEW y \in U PROVE g[U] = y.usage[r] + g[U \ {y}]
    <3>1. CASE y = x
      <4>1. g[U] = x.usage[r] + h[U \ {x}] /\ g[U \ {x}] = h[U \ {x}]
        BY <2>5, <3>1
      <4> QED BY <3>1, <4>1
    <3>2. CASE y # x /\ x \notin U
      <4>1. g[U] = h[U] /\ g[U \ {y}] = h[U \ {y}] /\ U \in SUBSET (T \ {x})
        BY <2>5, <3>2
      <4> QED BY <2>4, <4>1
    <3>3. CASE y # x /\ x \in U
      <4> DEFINE V == U \ {x}
      <4>1. V \in SUBSET (T \ {x}) /\ y \in V /\ V \ {y} \in SUBSET (T \ {x})
        BY <2>5, <3>3
      <4>2. (U \ {y}) \ {x} = V \ {y} /\ x \in U \ {y} /\ U \ {y} \in SUBSET T
        BY <3>3
      <4>3. g[U] = x.usage[r] + h[V] /\ g[U \ {y}] = x.usage[r] + h[V \ {y}]
        BY <3>3, <4>2
      <4>4. h[V] = y.usage[r] + h[V \ {y}] /\ h[V] \in Nat /\ h[V \ {y}] \in Nat
        BY <2>4, <4>1
      <4>5. y.usage[r] \in Nat
        BY <1>3 DEF Counted
      <4> HIDE DEF g, V
      <4> QED BY <2>3, <4>3, <4>4, <4>5
    <3> QED BY <3>1, <3>2, <3>3
  <2>9. Additive(g, T, r)
    BY <2>6, <2>7, <2>8 DEF Additive
  <2> HIDE DEF g
  <2> QED BY <1>3, <2>9
<1> QED BY <1>4, <1>5

\* The fold of the library is that sum, whatever elements it chooses.
LEMMA SumIsAdditive ==
    ASSUME NEW S, NEW r, Counted(S, r), NEW g, Additive(g, S, r)
    PROVE  Sum(S, r) = g[S]
<1> DEFINE Fold(f) == f = [s \in SUBSET S |->
                IF s = {} THEN 0
                ELSE (CHOOSE x \in s : TRUE).usage[r] + f[s \ {CHOOSE x \in s : TRUE}]]
<1>1. Sum(S, r) = (CHOOSE f : Fold(f))[S]
  BY DEF Sum, MapThenSumSet, MapThenFoldSet
<1>2. /\ g = [s \in SUBSET S |-> g[s]] /\ g[{}] = 0
      /\ \A T \in SUBSET S : \A x \in T : g[T] = x.usage[r] + g[T \ {x}]
  BY DEF Additive
<1>3. Fold(g)
  <2>1. ASSUME NEW s \in SUBSET S, s # {}
        PROVE  g[s] = (CHOOSE x \in s : TRUE).usage[r] + g[s \ {CHOOSE x \in s : TRUE}]
    <3>1. (CHOOSE x \in s : TRUE) \in s
      BY <2>1
    <3> QED BY <1>2, <3>1
  <2> QED BY <1>2, <2>1
<1>4. PICK f : Fold(f) /\ Sum(S, r) = f[S]
  BY <1>1, <1>3
<1> DEFINE Q == {T \in SUBSET S : f[T] # g[T]}
<1>5. ASSUME Q # {} PROVE FALSE
  <2> HIDE DEF Q, Fold
  <2>1. PICK T \in Q : \A x \in T : T \ {x} \notin Q
    <3>1. Q \subseteq SUBSET S
      BY DEF Q
    <3> QED BY <1>5, <3>1, HasSmallest DEF Counted
  <2>2. T \in SUBSET S /\ f[T] # g[T] /\ \A x \in T : f[T \ {x}] = g[T \ {x}]
    BY <2>1 DEF Q
  <2> DEFINE x == CHOOSE x \in T : TRUE
  <2>3. f[T] = IF T = {} THEN 0 ELSE x.usage[r] + f[T \ {x}]
    BY <1>4, <2>2 DEF Fold
  <2>4. T # {} => x \in T
    OBVIOUS
  <2> HIDE DEF x
  <2> QED BY <1>2, <2>2, <2>3, <2>4
<1> QED BY <1>4, <1>5

\* One more charge adds its usage to the sum.
LEMMA SumGrows ==
    ASSUME NEW S, NEW r, Counted(S, r), NEW u, u \notin S, u.usage[r] \in Nat
    PROVE  Sum(S \cup {u}, r) = Sum(S, r) + u.usage[r]
<1> DEFINE V == S \cup {u}
<1>1. Counted(V, r)
  BY FS_AddElement DEF Counted
<1>2. PICK g : Additive(g, V, r)
  BY <1>1, SumExists
<1>3. Sum(V, r) = g[V]
  BY <1>1, <1>2, SumIsAdditive
<1>4. /\ g \in [SUBSET V -> Nat] /\ g[{}] = 0
      /\ \A T \in SUBSET V : \A x \in T : g[T] = x.usage[r] + g[T \ {x}]
  BY <1>2 DEF Additive
<1> DEFINE h == [T \in SUBSET S |-> g[T]]
<1>5. Additive(h, S, r)
  <2>1. h \in [SUBSET S -> Nat] /\ h[{}] = 0
    BY <1>4
  <2>2. \A T \in SUBSET S : \A x \in T : h[T] = x.usage[r] + h[T \ {x}]
    BY <1>4
  <2> QED BY <2>1, <2>2 DEF Additive
<1>6. Sum(S, r) = g[S]
  <2> HIDE DEF V
  <2>1. Sum(S, r) = h[S]
    <3> HIDE DEF h
    <3> QED BY <1>5, SumIsAdditive
  <2> QED BY <2>1
<1>7. g[V] = u.usage[r] + g[S] /\ g[S] \in Nat
  <2>1. V \in SUBSET V /\ S \in SUBSET V /\ u \in V /\ V \ {u} = S
    OBVIOUS
  <2> QED BY <1>4, <2>1
<1> HIDE DEF V
<1>8. Sum(V, r) = Sum(S, r) + u.usage[r]
  BY <1>3, <1>6, <1>7
<1> QED BY <1>8 DEF V

\* No charge, no usage.
LEMMA SumOfNone == ASSUME NEW r PROVE Sum({}, r) = 0
<1>1. Counted({}, r)
  BY FS_EmptySet DEF Counted
<1>2. Additive([U \in SUBSET {} |-> 0], {}, r)
  BY DEF Additive
<1>3. Sum({}, r) = [U \in SUBSET {} |-> 0][{}]
  BY <1>1, <1>2, SumIsAdditive
<1> QED BY <1>3

\* What the ledger invariant says besides the sums: rows not yet inserted have
\* used nothing, and the ledger is finite.
LedgerInv ==
    /\ IsFiniteSet(usage_ledger)
    /\ \A j \in Jobs : ~Exists(j) => \A r \in Resources : jobs[j].used[r] = 0
    /\ UsedIsLedgerSum

ChargesOf(j) == {u \in usage_ledger : u.job = j}

\* The property in terms of Sum, now and after a step.
SumsAgree == \A j \in Jobs, r \in Resources : jobs[j].used[r] = Sum(ChargesOf(j), r)

\* The property says it of the fold over the job's charges.
LEMMA LedgerSums == UsedIsLedgerSum <=> SumsAgree
  BY DEF UsedIsLedgerSum, SumsAgree, Sum, ChargesOf

\* And so it does after a step.
LEMMA LedgerSumsNext == UsedIsLedgerSum' <=> SumsAgree'
  BY LedgerSums, PTL

\* Charges can be summed up.
LEMMA ChargesCounted ==
    ASSUME TypeOK, IsFiniteSet(usage_ledger), NEW j \in Jobs, NEW r \in Resources
    PROVE  Counted(ChargesOf(j), r)
<1>1. IsFiniteSet(ChargesOf(j))
  BY FS_Subset DEF ChargesOf
<1>2. \A u \in ChargesOf(j) : u.usage[r] \in Nat
  BY UsageAssumption DEF ChargesOf, TypeOK, UsageRow
<1> QED BY <1>1, <1>2 DEF Counted

\* A step that charges nobody: what was used stays, and so does the ledger.
LEMMA UnchargedKeeps ==
    ASSUME LedgerInv, usage_ledger' = usage_ledger,
           \A i \in Jobs :
              /\ Exists(i)' \/ ~Exists(i)
              /\ \A r \in Resources : jobs'[i].used[r] = jobs[i].used[r]
    PROVE  LedgerInv'
<1>1. UsedIsLedgerSum'
  <2>1. SumsAgree /\ \A i \in Jobs : ChargesOf(i)' = ChargesOf(i)
    BY LedgerSums DEF LedgerInv, ChargesOf
  <2>2. SumsAgree'
    BY <2>1 DEF SumsAgree
  <2> QED BY <2>2, LedgerSumsNext
<1>2. (\A j \in Jobs : ~Exists(j) => \A r \in Resources : jobs[j].used[r] = 0)'
  BY DEF LedgerInv
<1>3. IsFiniteSet(usage_ledger)'
  BY DEF LedgerInv
<1> QED BY <1>1, <1>2, <1>3 DEF LedgerInv

\* A charge is added to the columns and to the ledger, under a new key.
LEMMA ChargeLedger ==
    ASSUME IInv, LedgerInv, NEW j \in Jobs, NEW key \in ChargeKeys, NEW usage \in Usages,
           charge(j, key, usage)
    PROVE  LedgerInv'
<1> DEFINE new == Charged(jobs[j], usage)
           row == [job |-> j, key |-> key, usage |-> usage]
<1>0. jobs[j] \in Row
  BY DEF IInv, TypeOK
<1>1. new.used = [r \in Resources |-> jobs[j].used[r] + usage[r]] /\ new.status = jobs[j].status
  BY <1>0, ChargedRow
<1> HIDE DEF new
<1>2. /\ jobs' = [jobs EXCEPT ![j] = new]
      /\ usage_ledger' = usage_ledger \cup {row}
      /\ Exists(j) /\ ~ChargeRecorded(j, key)
  BY DEF charge, new
<1>3. /\ row.job = j /\ row.key = key /\ row.usage = usage
      /\ \A r \in Resources : usage[r] \in Nat
  BY UsageAssumption
<1> HIDE DEF row
<1>4. \A i \in Jobs : jobs'[i] = IF i = j THEN new ELSE jobs[i]
  BY <1>2 DEF IInv, TypeOK
<1>5. IsFiniteSet(usage_ledger)'
  BY <1>2, FS_AddElement DEF LedgerInv
<1>6. (\A i \in Jobs : ~Exists(i) => \A r \in Resources : jobs[i].used[r] = 0)'
  BY <1>1, <1>2, <1>4 DEF LedgerInv, Exists
<1>7. ASSUME NEW i \in Jobs, NEW r \in Resources
      PROVE  jobs'[i].used[r] = Sum(ChargesOf(i)', r)
  <2>1. jobs[i].used[r] = Sum(ChargesOf(i), r)
    BY LedgerSums DEF LedgerInv, SumsAgree
  <2>2. CASE i # j
    <3>1. ChargesOf(i)' = ChargesOf(i)
      BY <1>2, <1>3, <2>2 DEF ChargesOf
    <3> QED BY <1>4, <2>1, <2>2, <3>1
  <2>3. CASE i = j
    <3>1. ChargesOf(j)' = ChargesOf(j) \cup {row} /\ row \notin ChargesOf(j)
      BY <1>2, <1>3 DEF ChargesOf, ChargeRecorded
    <3>2. Counted(ChargesOf(j), r)
      BY ChargesCounted DEF LedgerInv, IInv
    <3>3. Sum(ChargesOf(j) \cup {row}, r) = Sum(ChargesOf(j), r) + usage[r]
      BY <1>3, <3>1, <3>2, SumGrows
    <3>4. jobs'[j].used[r] = jobs[j].used[r] + usage[r]
      BY <1>1, <1>4
    <3> QED BY <2>1, <2>3, <3>1, <3>3, <3>4
  <2> QED BY <2>2, <2>3
<1>8. UsedIsLedgerSum'
  <2>1. SumsAgree'
    BY <1>7 DEF SumsAgree
  <2> QED BY <2>1, LedgerSumsNext
<1> QED BY <1>5, <1>6, <1>8 DEF LedgerInv

\* No other method touches what was used, create_job included.
LEMMA WriteLedger ==
    ASSUME IInv, LedgerInv, NEW j \in Jobs, Write(j)
    PROVE  LedgerInv'
<1>0. jobs[j] \in Row
  BY DEF IInv, TypeOK
<1> DEFINE Uncharged == /\ usage_ledger' = usage_ledger
                        /\ \E new : /\ jobs' = [jobs EXCEPT ![j] = new]
                                    /\ new.status # "ABSENT"
                                    /\ \A r \in Resources : new.used[r] = jobs[j].used[r]
<1>1. ASSUME Uncharged PROVE LedgerInv'
  <2>1. PICK new : /\ jobs' = [jobs EXCEPT ![j] = new] /\ new.status # "ABSENT"
                   /\ \A r \in Resources : new.used[r] = jobs[j].used[r]
    BY <1>1
  <2>2. \A i \in Jobs : jobs'[i] = IF i = j THEN new ELSE jobs[i]
    BY <2>1 DEF IInv, TypeOK
  <2>3. \A i \in Jobs : /\ Exists(i)' \/ ~Exists(i)
                        /\ \A r \in Resources : jobs'[i].used[r] = jobs[i].used[r]
    BY <2>1, <2>2 DEF Exists
  <2> QED BY <1>1, <2>3, UnchargedKeeps
<1>2. ASSUME NEW key \in RequestKeys, NEW task \in Tasks, NEW max \in Budgets,
             create_job(j, key, task, max)
      PROVE  Uncharged
  <2> DEFINE new == NewRow(key, task, max)
  <2>1. \A r \in Resources : jobs[j].used[r] = 0
    BY <1>2 DEF create_job, LedgerInv
  <2>2. new.status = "QUEUED" /\ new.used = [r \in Resources |-> 0]
    BY DEF NewRow
  <2>3. jobs' = [jobs EXCEPT ![j] = new] /\ usage_ledger' = usage_ledger
    BY <1>2 DEF create_job
  <2> HIDE DEF new
  <2>4. \A r \in Resources : new.used[r] = jobs[j].used[r]
    BY <2>1, <2>2
  <2>5. new.status # "ABSENT"
    BY <2>2
  <2> QED BY <2>3, <2>4, <2>5
<1>3. ASSUME NEW w \in Workers, NEW lease \in LeaseSeconds, NEW d \in Delays,
             acquire_lease(j, w, lease, d)
      PROVE  Uncharged
  <2>1. lease - d \in Int
    BY TimeAssumption DEF Delays
  <2>2. Leased(jobs[j], w, lease - d).status = "RUNNING"
        /\ Leased(jobs[j], w, lease - d).used = jobs[j].used
    BY <1>0, <2>1, LeasedRow
  <2> QED BY <1>3, <2>2 DEF acquire_lease
<1>4. ASSUME NEW w \in Workers, NEW lease \in LeaseSeconds, NEW d \in Delays,
             heartbeat(j, w, lease, d)
      PROVE  Uncharged
  <2>1. lease - d \in Int
    BY TimeAssumption DEF Delays
  <2>2. Renewed(jobs[j], lease - d).status = jobs[j].status
        /\ Renewed(jobs[j], lease - d).used = jobs[j].used
    BY <1>0, <2>1, RenewedRow
  <2> QED BY <1>4, <2>2 DEF heartbeat, HoldsLease
<1>5. ASSUME NEW w \in Workers, NEW stage \in Stage, NEW key \in CheckpointKeys,
             NEW payload \in Payloads, NEW d \in Delays,
             save_checkpoint(j, w, stage, key, payload, d)
      PROVE  Uncharged
  <2>1. AtStage(jobs[j], stage).status = jobs[j].status
        /\ AtStage(jobs[j], stage).used = jobs[j].used
    BY <1>0, AtStageRow
  <2> QED BY <1>5, <2>1 DEF save_checkpoint, HoldsLease
<1>6. ASSUME NEW target \in Targets, NEW expected \in 0 .. MaxVersion,
             NEW error \in ErrorCodes \cup {NoError},
             transition(j, target, expected, error, target # "VALIDATING")
      PROVE  Uncharged
  <2>1. target \in JobStatus /\ target # "ABSENT"
    BY DEF Targets, JobStatus, TERMINAL
  <2>2. Moved(jobs[j], target, error, target # "VALIDATING").status = target
        /\ Moved(jobs[j], target, error, target # "VALIDATING").used = jobs[j].used
    BY <1>0, <2>1, MovedRow
  <2> QED BY <1>6, <2>1, <2>2 DEF transition
<1> HIDE DEF Uncharged
<1> QED BY <1>1, <1>2, <1>3, <1>4, <1>5, <1>6, ChargeLedger DEF Write

\* Every step of the store keeps the ledger and the columns in agreement.
LEMMA NextLedger == IInv /\ LedgerInv /\ [Next]_vars => LedgerInv'
<1> SUFFICES ASSUME IInv, LedgerInv, [Next]_vars PROVE LedgerInv'
  OBVIOUS
<1>1. CASE UNCHANGED vars
  BY <1>1, UnchargedKeeps DEF vars, Exists
<1>2. CASE Tick
  <2>1. \A i \in Jobs : jobs'[i].status = jobs[i].status /\ jobs'[i].used = jobs[i].used
    BY <1>2 DEF Tick, Age, IInv, TypeOK, Row
  <2> QED BY <1>2, <2>1, UnchargedKeeps DEF Tick, Exists
<1>3. ASSUME NEW j \in Jobs, Write(j) PROVE LedgerInv'
  BY <1>3, WriteLedger
<1> QED BY <1>1, <1>2, <1>3 DEF Next

\* Nothing was used before the first charge.
LEMMA InitLedger == Init => LedgerInv
<1> SUFFICES ASSUME Init PROVE LedgerInv
  OBVIOUS
<1>1. \A j \in Jobs : jobs[j].used = [r \in Resources |-> 0]
  <2>1. AbsentRow.used = [r \in Resources |-> 0]
    BY DEF AbsentRow, NewRow
  <2> QED BY <2>1 DEF Init
<1>2. \A j \in Jobs : ChargesOf(j) = {}
  BY DEF Init, ChargesOf
<1>3. UsedIsLedgerSum
  BY <1>1, <1>2, SumOfNone, LedgerSums DEF SumsAgree
<1> QED BY <1>1, <1>3, FS_EmptySet DEF Init, LedgerInv

\* Theorem: the used_* columns of a job are the sums of its usage_ledger rows,
\* through any charges, refused or repeated ones included, and any reclaims.
THEOREM UsageIsAccounted == Spec => []UsedIsLedgerSum
<1>1. LedgerInv => UsedIsLedgerSum
  BY DEF LedgerInv
<1> QED BY <1>1, InitLedger, NextLedger, Invariance, PTL DEF Spec
=============================================================================
