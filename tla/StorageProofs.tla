--------------------------- MODULE StorageProofs ---------------------------
(***************************************************************************)
(* Retention and backup for any number of jobs, keys, contents, writers,   *)
(* plans, events and kills: what a plan deletes is what was reviewed, what *)
(* a receipt of completion means, the one way in which a file is lost, and *)
(* that a published backup is a restore point.                             *)
(*                                                                         *)
(* SInv has two halves.  Base holds whether or not the writers are stopped *)
(* while a plan is executed: what the transaction of the execution locks,  *)
(* and what the record of the execution says of its quarantine.  Quiet is  *)
(* what only holds when they are.                                          *)
(***************************************************************************)
EXTENDS Backup, TLAPS

Times == {0} \cup {Cardinality(S) + 1 : S \in SUBSET Jobs}

TargetRec == [job : Jobs, updated_at : Times, events : Nat, bindings : SUBSET Binding]
PlanRec == [pc : {"none", "read", "ready"}, cutoff : {0} \cup 1 .. Cardinality(Jobs),
            todo : SUBSET Jobs, targets : SUBSET TargetRec, blobs : SUBSET Digests]
QuarantineRec == [exists : BOOLEAN, ledgers : [Jobs -> Nat], blobs : SUBSET Digests]
ExecRec == [pc : {"idle", "moving", "purge", "receipt", "restore"},
            plan : Plans \cup {NoPlan}, ledgers : SUBSET Jobs, blobs : SUBSET Digests]
PutRec == [pc : {"idle", "write", "commit"}, arg : Binding \cup {NoPut.arg}]
Receipts == [plan : Plans, event : {"RETENTION_PREPARED", "RETENTION_ABORTED",
                                    "RETENTION_COMPLETED"}]

SType ==
    /\ rows \subseteq Binding /\ blobs \subseteq Digests /\ put \in [Writers -> PutRec]
    /\ status \in [Jobs -> {"ACTIVE", "TERMINAL", "DELETED"}]
    /\ updated_at \in [Jobs -> Times] /\ ledger \in [Jobs -> Nat]
    /\ plan \in [Plans -> PlanRec] /\ quarantine \in [Plans -> QuarantineRec]
    /\ exec \in ExecRec /\ audit \subseteq Receipts /\ crashes \in Nat
    /\ \A w \in Writers : put[w].pc # "idle" => put[w].arg \in Binding

Prepared(p) == [plan |-> p, event |-> "RETENTION_PREPARED"] \in audit
Completed(p) == [plan |-> p, event |-> "RETENTION_COMPLETED"] \in audit

\* Planned jobs have ended, their ledgers had events, and a plan that was
\* executed is a written one, which no longer changes.
PlansOK ==
    \A p \in Plans :
        /\ \A t \in plan[p].targets : t.events > 0 /\ status[t.job] # "ACTIVE"
        /\ \A j \in plan[p].todo : status[j] # "ACTIVE"
        /\ plan[p].pc # "none" => plan[p].todo # {} \/ plan[p].targets # {}
        /\ plan[p].pc = "ready" => plan[p].todo = {}
        /\ Prepared(p) => plan[p].pc = "ready"
        /\ Completed(p) => Prepared(p)

\* A moved ledger: the job, its artifacts and the ledger are the reviewed ones.
Reviewed(j) ==
    /\ status[j] = "TERMINAL"
    /\ \E t \in plan[exec.plan].targets :
        /\ t.job = j /\ BindingsOf(j) = t.bindings
        /\ quarantine[exec.plan].ledgers[j] = t.events

\* The execution knows what it has moved, and holds nothing else.
ExecOK ==
    /\ exec.pc = "idle" => exec.plan = NoPlan /\ exec.ledgers = {} /\ exec.blobs = {}
    /\ exec.pc # "idle" => exec.plan \in Plans /\ Prepared(exec.plan)
    /\ exec.pc \in {"moving", "restore", "purge"} =>
        /\ \A j \in Jobs : quarantine[exec.plan].ledgers[j] > 0 => j \in exec.ledgers
        /\ quarantine[exec.plan].blobs \subseteq exec.blobs
    /\ exec.pc \in {"moving", "restore", "purge"} => quarantine[exec.plan].exists
    /\ exec.pc = "receipt" => ~quarantine[exec.plan].exists
    /\ exec.pc = "moving" => \A j \in exec.ledgers : Reviewed(j)
    /\ exec.pc = "restore" => \A j \in exec.ledgers : status[j] = "TERMINAL"
    /\ exec.pc \in {"purge", "receipt"} =>
        exec.ledgers = TargetJobs(exec.plan) /\ \A j \in exec.ledgers : status[j] = "DELETED"

\* A quarantine that is not there holds nothing.
QuarantineOK ==
    \A p \in Plans : ~quarantine[p].exists =>
        quarantine[p].blobs = {} /\ \A j \in Jobs : quarantine[p].ledgers[j] = 0

Base == SType /\ PlansOK /\ ExecOK /\ QuarantineOK

\* Nobody writes while a plan is executed.
WritersOK ==
    /\ exec.pc # "idle" => \A w \in Writers : put[w].pc = "idle"
    /\ \A w \in Writers :
        /\ put[w].pc # "idle" => status[put[w].arg.job] # "DELETED"
        /\ put[w].pc = "commit" => put[w].arg.digest \in blobs

\* A deleted job has no file and no row left in place.
DeletedOK ==
    \A j \in Jobs : status[j] = "DELETED" => ledger[j] = 0 /\ BindingsOf(j) = {}

\* What was moved stays away, and nobody else refers to it.
MovedOK ==
    /\ exec.pc = "moving" => /\ \A j \in exec.ledgers : ledger[j] = 0
                             /\ \A d \in exec.blobs : Exclusive(d, exec.ledgers)
    /\ exec.pc = "purge" => \A r \in rows : r.digest \notin exec.blobs

CompletedOK ==
    /\ \A p \in Plans : Completed(p) =>
        /\ quarantine[p].blobs = {} /\ \A j \in Jobs : quarantine[p].ledgers[j] = 0
        /\ \A j \in TargetJobs(p) : status[j] = "DELETED" /\ j \notin exec.ledgers
    /\ \A q \in Plans, j \in Jobs :
        quarantine[q].ledgers[j] > 0 => crashes > 0 \/ exec.plan = q

Quiet == WritersOK /\ DeletedOK /\ MovedOK /\ CompletedOK /\ LossOnlyByReopening

-----------------------------------------------------------------------------
(***************************************************************************)
(* Base: one lemma per group of actions.                                   *)
(***************************************************************************)

\* The empty records are records.
LEMMA EmptyFacts ==
    /\ EmptyPlan \in PlanRec /\ NoQuarantine \in QuarantineRec /\ NoExec \in ExecRec
    /\ NoPut \in PutRec
<1>1. EmptyPlan \in PlanRec
  BY DEF EmptyPlan, PlanRec
<1>2. NoQuarantine \in QuarantineRec
  BY DEF NoQuarantine, QuarantineRec
<1>3. NoExec \in ExecRec
  BY DEF NoExec, ExecRec
<1>4. NoPut \in PutRec
  BY DEF NoPut, PutRec
<1> QED
  BY <1>1, <1>2, <1>3, <1>4

\* What a plan names is what it may name.
LEMMA PlanFacts ==
    ASSUME SType, NEW p \in Plans
    PROVE  /\ plan[p] \in PlanRec /\ plan[p].todo \subseteq Jobs /\ TargetJobs(p) \subseteq Jobs
           /\ \A t \in plan[p].targets : t \in TargetRec /\ t.job \in Jobs /\ t.events \in Nat
           /\ plan[p].blobs \subseteq Digests
<1>1. plan[p] \in PlanRec
  BY DEF SType
<1>2. \A t \in plan[p].targets : t \in TargetRec /\ t.job \in Jobs /\ t.events \in Nat
  BY <1>1 DEF PlanRec, TargetRec
<1>3. plan[p].todo \subseteq Jobs /\ plan[p].blobs \subseteq Digests
  BY <1>1 DEF PlanRec
<1> QED
  BY <1>1, <1>2, <1>3 DEF TargetJobs

\* A writer locked out by the transaction changes no row it has compared.
LEMMA WriterBase ==
    ASSUME Base, NEW w \in Writers, Put(w) \/ KillWriter(w)
    PROVE  Base'
<1>1. UNCHANGED <<status, updated_at, ledger, plan, quarantine, exec, audit, reopened>>
  BY DEF Put, KillWriter, retentionVars
<1>2. crashes' \in Nat
  BY DEF Base, SType, Put, KillWriter, retentionVars
<1>3. /\ rows' \subseteq Binding /\ blobs' \subseteq Digests /\ put' \in [Writers -> PutRec]
      /\ \A v \in Writers : put'[v].pc # "idle" => put'[v].arg \in Binding
      /\ exec.pc = "moving" => rows' = rows
  <2>1. /\ rows \subseteq Binding /\ blobs \subseteq Digests /\ put \in [Writers -> PutRec]
        /\ put[w] \in PutRec /\ NoPut \in PutRec /\ NoPut.pc = "idle"
        /\ \A v \in Writers : put[v].pc # "idle" => put[v].arg \in Binding
    BY EmptyFacts DEF Base, SType, NoPut
  <2>2. ASSUME NEW b \in Binding, PutLookup(w, b)
        PROVE  /\ rows' = rows /\ blobs' = blobs /\ put' \in [Writers -> PutRec]
               /\ \A v \in Writers : put'[v].pc # "idle" => put'[v].arg \in Binding
    <3>1. [pc |-> "write", arg |-> b] \in PutRec
      BY DEF PutRec
    <3> QED BY <2>1, <2>2, <3>1 DEF PutLookup
  <2>3. CASE PutWrite(w)
    <3>1. put[w].arg \in Binding /\ put[w].arg.digest \in Digests
      BY <2>1, <2>3 DEF Binding, PutWrite
    <3> QED BY <2>1, <2>3, <3>1 DEF PutWrite, PutRec
  <2>4. CASE ~Locked /\ PutCommit(w)
    BY <2>1, <2>4 DEF PutCommit, Locked
  <2>5. CASE PutCrash(w)
    BY <2>1, <2>5 DEF PutCrash
  <2> QED BY <2>1, <2>2, <2>3, <2>4, <2>5 DEF Put, KillWriter
<1> QED
  BY <1>1, <1>2, <1>3 DEF Base, SType, PlansOK, Prepared, Completed, ExecOK, Reviewed,
     BindingsOf, TargetJobs, QuarantineOK

\* The end of a job and the growth of its ledger change nothing a plan compared,
\* except what the plan compares again.
LEMMA JobBase ==
    ASSUME Base, NEW j \in Jobs, EndJob(j) \/ Append(j)
    PROVE  Base'
<1>1. CASE EndJob(j)
  <2>1. /\ status[j] = "ACTIVE" /\ status' = [status EXCEPT ![j] = "TERMINAL"]
        /\ UNCHANGED <<rows, blobs, put, ledger, plan, quarantine, exec, audit, reopened, crashes>>
        /\ exec.pc # "moving"
    BY <1>1 DEF EndJob, astoreVars, Locked
  <2>2. updated_at' \in [Jobs -> Times]
    <3>1. Cardinality(Ended) + 1 \in Times
      BY DEF Times, Ended
    <3> QED BY <1>1, <3>1 DEF Base, SType, EndJob
  <2>3. /\ status' \in [Jobs -> {"ACTIVE", "TERMINAL", "DELETED"}]
        /\ \A i \in Jobs : status[i] # "ACTIVE" => status'[i] = status[i]
    BY <2>1 DEF Base, SType
  <2>4. SType'
    BY <2>1, <2>2, <2>3 DEF Base, SType
  <2>5. PlansOK'
    <3>1. \A p \in Plans : /\ plan[p].todo \subseteq Jobs
                           /\ \A t \in plan[p].targets : t.job \in Jobs
      BY PlanFacts DEF Base
    <3>2. \A p \in Plans : /\ \A t \in plan[p].targets : t.events > 0 /\ status'[t.job] # "ACTIVE"
                           /\ \A i \in plan[p].todo : status'[i] # "ACTIVE"
      BY <2>3, <3>1 DEF Base, PlansOK
    <3> QED BY <2>1, <3>2 DEF Base, PlansOK, Prepared, Completed
  <2>6. ExecOK' /\ QuarantineOK'
    BY <2>1, <2>3 DEF Base, SType, ExecOK, Prepared, TargetJobs, QuarantineOK, ExecRec
  <2> QED BY <2>4, <2>5, <2>6 DEF Base
<1>2. CASE Append(j)
  BY <1>2 DEF Append, astoreVars, Base, SType, PlansOK, Prepared, Completed, ExecOK, Reviewed,
     BindingsOf, TargetJobs, QuarantineOK
<1> QED
  BY <1>1, <1>2

\* A plan that is not written yet was never executed: it may change.
LEMMA PlanBase ==
    ASSUME Base, NEW p \in Plans, plan[p].pc # "ready", NEW new \in PlanRec, SetPlan(p, new),
           \A t \in new.targets : t.events > 0 /\ status[t.job] # "ACTIVE",
           \A j \in new.todo : status[j] # "ACTIVE",
           new.pc # "none" => new.todo # {} \/ new.targets # {},
           new.pc = "ready" => new.todo = {}
    PROVE  Base'
<1>1. /\ plan' = [plan EXCEPT ![p] = new] /\ plan \in [Plans -> PlanRec]
      /\ UNCHANGED <<rows, blobs, put, status, updated_at, ledger, quarantine, exec, audit,
                     reopened, crashes>>
  BY DEF SetPlan, astoreVars, Base, SType
<1>2. /\ plan' \in [Plans -> PlanRec]
      /\ \A q \in Plans : plan'[q] = IF q = p THEN new ELSE plan[q]
  BY <1>1
<1>3. ~Prepared(p) /\ (exec.pc # "idle" => exec.plan # p)
  BY DEF Base, PlansOK, ExecOK
<1>4. SType'
  BY <1>1, <1>2 DEF Base, SType
<1>5. PlansOK'
  BY <1>1, <1>2, <1>3 DEF Base, PlansOK, Prepared, Completed
<1>6. exec.pc # "idle" => plan'[exec.plan] = plan[exec.plan]
  BY <1>2, <1>3 DEF Base, ExecOK
<1>7. ExecOK'
  BY <1>1, <1>6 DEF Base, ExecOK, Prepared, Reviewed, BindingsOf, TargetJobs
<1>8. QuarantineOK'
  BY <1>1 DEF Base, QuarantineOK
<1> QED
  BY <1>4, <1>5, <1>7, <1>8 DEF Base

\* The three steps of the planning.
LEMMA PlanStepBase ==
    ASSUME Base, NEW p \in Plans,
           PlanRead(p) \/ PlanBlobs(p) \/ \E j \in Jobs : PlanTarget(p, j)
    PROVE  /\ Base' /\ plan[p].pc # "ready"
           /\ \E new \in PlanRec : /\ SetPlan(p, new)
                                   /\ \A t \in new.targets : t \in plan[p].targets \/ ledger[t.job] > 0
<1>1. /\ plan[p] \in PlanRec /\ EmptyPlan \in PlanRec /\ EmptyPlan.pc = "none"
      /\ EmptyPlan.todo = {} /\ EmptyPlan.targets = {} /\ plan[p].pc # "ready"
      /\ updated_at \in [Jobs -> Times] /\ ledger \in [Jobs -> Nat] /\ rows \subseteq Binding
  BY EmptyFacts DEF Base, SType, EmptyPlan, PlanRead, PlanBlobs, PlanTarget
<1>2. CASE SetPlan(p, EmptyPlan)
  BY <1>1, <1>2, PlanBase
<1>3. CASE PlanRead(p)
  <2>1. PICK cutoff \in 1 .. Cardinality(Jobs) :
          /\ Eligible(cutoff) # {}
          /\ SetPlan(p, [EmptyPlan EXCEPT !.pc = "read", !.cutoff = cutoff,
                                          !.todo = Eligible(cutoff)])
    BY <1>3 DEF PlanRead
  <2> DEFINE todo == Eligible(cutoff)
             new == [EmptyPlan EXCEPT !.pc = "read", !.cutoff = cutoff, !.todo = todo]
  <2>2. todo \subseteq Jobs /\ todo # {} /\ \A j \in todo : status[j] # "ACTIVE"
    BY <2>1 DEF Eligible
  <2> HIDE DEF todo
  <2>3. /\ new \in PlanRec /\ new.targets = {} /\ new.todo = todo /\ new.pc = "read"
    BY <1>1, <2>2 DEF PlanRec
  <2>4. SetPlan(p, new)
    BY <2>1 DEF todo
  <2> HIDE DEF new
  <2> QED BY <1>1, <2>2, <2>3, <2>4, PlanBase
<1>4. ASSUME NEW j \in Jobs, PlanTarget(p, j), ledger[j] # 0
      PROVE  /\ Base'
             /\ \E new \in PlanRec : /\ SetPlan(p, new)
                                     /\ \A t \in new.targets : t \in plan[p].targets \/ ledger[t.job] > 0
  <2> DEFINE t == Target(j, updated_at[j], ledger[j], BindingsOf(j))
             new == [plan[p] EXCEPT !.todo = @ \ {j}, !.targets = @ \cup {t}]
  <2>1. t \in TargetRec /\ t.events = ledger[j] /\ t.job = j
    BY <1>1 DEF Target, TargetRec, BindingsOf
  <2>2. SetPlan(p, new)
    BY <1>4 DEF PlanTarget
  <2> HIDE DEF t
  <2>3. /\ new \in PlanRec /\ new.targets = plan[p].targets \cup {t}
        /\ new.todo = plan[p].todo \ {j} /\ new.pc = plan[p].pc
    BY <1>1, <2>1 DEF PlanRec
  <2> HIDE DEF new
  <2>6. j \in plan[p].todo
    BY <1>4 DEF PlanTarget
  <2>4. ledger[j] > 0 /\ status[j] # "ACTIVE"
    BY <1>1, <1>4, <2>6 DEF Base, PlansOK
  <2>5. \A u \in new.targets : u.events > 0 /\ status[u.job] # "ACTIVE"
    BY <2>1, <2>3, <2>4 DEF Base, PlansOK
  <2>7. Base'
    BY <1>1, <2>2, <2>3, <2>5, PlanBase DEF Base, PlansOK
  <2>8. \A u \in new.targets : u \in plan[p].targets \/ ledger[u.job] > 0
    BY <2>1, <2>3, <2>4
  <2> QED BY <2>2, <2>3, <2>7, <2>8
<1>5. CASE PlanBlobs(p) /\ PlanDigests(p) \subseteq blobs
  <2> DEFINE found == PlanDigests(p)
             new == [plan[p] EXCEPT !.pc = "ready", !.blobs = found]
  <2>1. found \subseteq Digests
    BY DEF PlanDigests
  <2>2. SetPlan(p, new) /\ plan[p].pc = "read" /\ plan[p].todo = {}
    BY <1>5 DEF PlanBlobs
  <2> HIDE DEF found
  <2>3. /\ new \in PlanRec /\ new.targets = plan[p].targets
        /\ new.todo = plan[p].todo /\ new.pc = "ready"
    BY <1>1, <2>1 DEF PlanRec
  <2> HIDE DEF new
  <2> QED BY <1>1, <2>2, <2>3, PlanBase DEF Base, PlansOK
<1> QED
  BY <1>1, <1>2, <1>3, <1>4, <1>5 DEF PlanBlobs, PlanTarget

\* The execution starts with an empty quarantine, or takes the one it finds away.
LEMMA ExecuteBase ==
    ASSUME Base, NEW p \in Plans, Execute(p) \/ ExecuteAgain(p)
    PROVE  Base'
<1>1. /\ exec.pc = "idle" /\ plan[p].pc = "ready" /\ exec \in ExecRec /\ audit \subseteq Receipts
      /\ quarantine \in [Plans -> QuarantineRec] /\ quarantine[p] \in QuarantineRec
      /\ UNCHANGED <<rows, blobs, put, status, updated_at, ledger, plan, crashes>>
      /\ exec.plan = NoPlan
  BY DEF Execute, ExecuteAgain, MayExecute, astoreVars, Base, SType, ExecOK
<1>2. \A e \in {"RETENTION_PREPARED", "RETENTION_ABORTED"} : [plan |-> p, event |-> e] \in Receipts
  BY DEF Receipts
<1>3. /\ audit' \subseteq Receipts /\ Prepared(p)'
      /\ \A q \in Plans : (Prepared(q)' <=> Prepared(q) \/ q = p) /\ (Completed(q)' <=> Completed(q))
  <2>1. \A q \in Plans :
          /\ [plan |-> q, event |-> "RETENTION_COMPLETED"] # [plan |-> p, event |-> "RETENTION_PREPARED"]
          /\ [plan |-> q, event |-> "RETENTION_COMPLETED"] # [plan |-> p, event |-> "RETENTION_ABORTED"]
          /\ [plan |-> q, event |-> "RETENTION_PREPARED"] # [plan |-> p, event |-> "RETENTION_ABORTED"]
          /\ q # p => [plan |-> q, event |-> "RETENTION_PREPARED"]
                        # [plan |-> p, event |-> "RETENTION_PREPARED"]
    OBVIOUS
  <2>2. CASE Execute(p)
    BY <1>1, <1>2, <2>1, <2>2 DEF Execute, Prepared, Completed
  <2>3. CASE ExecuteAgain(p)
    BY <1>1, <1>2, <2>1, <2>3 DEF ExecuteAgain, Prepared, Completed
  <2> QED BY <2>2, <2>3
<1>4. PlansOK'
  BY <1>1, <1>3 DEF Base, PlansOK
<1>5. CASE Execute(p)
  <2> DEFINE new == [quarantine[p] EXCEPT !.exists = TRUE]
  <2>1. /\ new \in QuarantineRec /\ new.blobs = quarantine[p].blobs
        /\ new.ledgers = quarantine[p].ledgers /\ new.exists
    BY <1>1 DEF QuarantineRec
  <2>2. quarantine' = [quarantine EXCEPT ![p] = new] /\ ~quarantine[p].exists
    BY <1>5 DEF Execute
  <2> HIDE DEF new
  <2>3. /\ quarantine' \in [Plans -> QuarantineRec] /\ quarantine'[p] = new
        /\ \A q \in Plans : q # p => quarantine'[q] = quarantine[q]
    BY <1>1, <2>1, <2>2
  <2>4. /\ exec' \in ExecRec /\ exec'.pc = "moving" /\ exec'.plan = p
        /\ exec'.ledgers = {} /\ exec'.blobs = {}
    BY <1>5, EmptyFacts DEF Execute, NoExec, ExecRec
  <2>5. SType'
    BY <1>1, <1>3, <2>3, <2>4 DEF Base, SType
  <2>6. new.blobs = {} /\ \A j \in Jobs : new.ledgers[j] = 0
    BY <2>1, <2>2 DEF Base, QuarantineOK
  <2>7. ExecOK'
    BY <1>3, <2>1, <2>3, <2>4, <2>6 DEF ExecOK
  <2>8. QuarantineOK'
    BY <2>1, <2>3 DEF Base, QuarantineOK
  <2> QED BY <1>4, <2>5, <2>7, <2>8 DEF Base
<1>6. CASE ExecuteAgain(p)
  <2>1. /\ quarantine' = [quarantine EXCEPT ![p] = NoQuarantine] /\ exec' = exec
        /\ NoQuarantine \in QuarantineRec /\ NoQuarantine.blobs = {}
        /\ \A j \in Jobs : NoQuarantine.ledgers[j] = 0
    BY <1>6, EmptyFacts DEF ExecuteAgain, NoQuarantine
  <2>2. /\ quarantine' \in [Plans -> QuarantineRec]
        /\ \A q \in Plans : quarantine'[q] = IF q = p THEN NoQuarantine ELSE quarantine[q]
    BY <1>1, <2>1
  <2>3. SType'
    BY <1>1, <1>3, <2>1, <2>2 DEF Base, SType
  <2>4. QuarantineOK'
    BY <2>1, <2>2 DEF Base, QuarantineOK
  <2>5. ExecOK'
    BY <1>1, <2>1 DEF Base, ExecOK
  <2> QED BY <1>4, <2>3, <2>4, <2>5 DEF Base
<1> QED
  BY <1>5, <1>6

\* A comparison that fails sends the execution to its handler.
LEMMA AbortBase ==
    ASSUME Base, exec.pc = "moving", exec' = [exec EXCEPT !.pc = "restore"],
           UNCHANGED <<rows, blobs, put, status, updated_at, ledger, plan, quarantine, audit,
                       reopened, crashes>>
    PROVE  Base' /\ exec'.pc = "restore" /\ exec'.plan = exec.plan
           /\ exec'.ledgers = exec.ledgers /\ exec'.blobs = exec.blobs
<1>1. exec' \in ExecRec /\ exec'.pc = "restore" /\ exec'.plan = exec.plan
      /\ exec'.ledgers = exec.ledgers /\ exec'.blobs = exec.blobs
  BY DEF Base, SType, ExecRec
<1>2. SType'
  BY <1>1 DEF Base, SType
<1>3. PlansOK' /\ QuarantineOK'
  BY DEF Base, PlansOK, QuarantineOK, Prepared, Completed
<1>4. ExecOK'
  BY <1>1 DEF Base, ExecOK, Prepared, Reviewed
<1> QED
  BY <1>1, <1>2, <1>3, <1>4 DEF Base

\* A ledger that is the reviewed one is moved.
LEMMA MoveLedgerFacts ==
    ASSUME Base, NEW t \in plan[exec.plan].targets, MoveLedger(t),
           TargetUnchanged(t, plan[exec.plan].cutoff)
    PROVE  /\ exec.pc = "moving" /\ exec.plan \in Plans /\ t.job \in Jobs /\ t.events > 0
           /\ status[t.job] = "TERMINAL" /\ ledger[t.job] = t.events
           /\ BindingsOf(t.job) = t.bindings /\ t.events \in Nat
           /\ t.job \in TargetJobs(exec.plan)
           /\ ledger' = [ledger EXCEPT ![t.job] = 0]
           /\ exec' \in ExecRec /\ exec'.pc = "moving" /\ exec'.plan = exec.plan
           /\ exec'.ledgers = exec.ledgers \cup {t.job} /\ exec'.blobs = exec.blobs
           /\ quarantine' \in [Plans -> QuarantineRec]
           /\ \A q \in Plans \ {exec.plan} : quarantine'[q] = quarantine[q]
           /\ quarantine'[exec.plan].blobs = quarantine[exec.plan].blobs
           /\ quarantine'[exec.plan].exists = quarantine[exec.plan].exists
           /\ \A j \in Jobs : quarantine'[exec.plan].ledgers[j] =
                IF j = t.job THEN t.events ELSE quarantine[exec.plan].ledgers[j]
           /\ UNCHANGED <<rows, blobs, put, status, updated_at, plan, audit, reopened, crashes>>
<1>1. /\ exec.pc = "moving" /\ exec.plan \in Plans /\ exec \in ExecRec
      /\ quarantine \in [Plans -> QuarantineRec]
      /\ quarantine[exec.plan] \in QuarantineRec /\ ledger \in [Jobs -> Nat]
  BY DEF MoveLedger, Base, SType, ExecOK
<1>2. /\ t.job \in Jobs /\ t.events > 0 /\ t.events \in Nat /\ t.job \in TargetJobs(exec.plan)
  BY <1>1, PlanFacts DEF Base, PlansOK, TargetJobs
<1>3. /\ status[t.job] = "TERMINAL" /\ ledger[t.job] = t.events
      /\ BindingsOf(t.job) = t.bindings
  BY DEF TargetUnchanged
<1>4. /\ ledger' = [ledger EXCEPT ![t.job] = 0]
      /\ quarantine' = [quarantine EXCEPT ![exec.plan].ledgers[t.job] = t.events]
      /\ exec' = [exec EXCEPT !.ledgers = @ \cup {t.job}]
      /\ UNCHANGED <<rows, blobs, put, status, updated_at, plan, audit, reopened, crashes>>
  BY <1>3 DEF MoveLedger, astoreVars
<1>5. /\ exec' \in ExecRec /\ exec'.pc = "moving" /\ exec'.plan = exec.plan
      /\ exec'.ledgers = exec.ledgers \cup {t.job} /\ exec'.blobs = exec.blobs
  BY <1>1, <1>2, <1>4 DEF ExecRec
<1>6. /\ quarantine' \in [Plans -> QuarantineRec]
      /\ \A q \in Plans \ {exec.plan} : quarantine'[q] = quarantine[q]
      /\ quarantine'[exec.plan].blobs = quarantine[exec.plan].blobs
      /\ quarantine'[exec.plan].exists = quarantine[exec.plan].exists
      /\ \A j \in Jobs : quarantine'[exec.plan].ledgers[j] =
            IF j = t.job THEN t.events ELSE quarantine[exec.plan].ledgers[j]
  <2> DEFINE new == [quarantine[exec.plan] EXCEPT !.ledgers[t.job] = t.events]
  <2>1. /\ new \in QuarantineRec /\ new.blobs = quarantine[exec.plan].blobs
        /\ new.exists = quarantine[exec.plan].exists
        /\ \A j \in Jobs : new.ledgers[j] =
              IF j = t.job THEN t.events ELSE quarantine[exec.plan].ledgers[j]
    BY <1>1, <1>2 DEF QuarantineRec
  <2>2. quarantine' = [quarantine EXCEPT ![exec.plan] = new]
    BY <1>4
  <2> HIDE DEF new
  <2> QED BY <1>1, <2>1, <2>2
<1> QED
  BY <1>1, <1>2, <1>3, <1>4, <1>5, <1>6

\* The step of a ledger keeps Base.
LEMMA MoveLedgerBase ==
    ASSUME Base, NEW t \in plan[exec.plan].targets, MoveLedger(t)
    PROVE  Base'
<1>1. CASE ~TargetUnchanged(t, plan[exec.plan].cutoff)
  BY <1>1, AbortBase DEF MoveLedger, astoreVars
<1>2. CASE TargetUnchanged(t, plan[exec.plan].cutoff)
  <2>0. /\ UNCHANGED <<rows, blobs, put, status, updated_at, plan, audit, reopened, crashes>>
        /\ \A q \in Plans : quarantine'[q].exists => quarantine[q].exists
        /\ \A q \in Plans : q # exec.plan => quarantine'[q] = quarantine[q]
        /\ quarantine'[exec.plan].exists = quarantine[exec.plan].exists
    BY <1>2, MoveLedgerFacts
  <2>1. SType'
    BY <1>2, MoveLedgerFacts DEF Base, SType
  <2>2. PlansOK'
    BY <2>0 DEF Base, PlansOK, Prepared, Completed
  <2>3. ExecOK'
    <3>1. \A j \in exec.ledgers \cup {t.job} : Reviewed(j)'
      BY <1>2, MoveLedgerFacts DEF Base, SType, ExecRec, ExecOK, Reviewed, BindingsOf
    <3> QED BY <1>2, <3>1, MoveLedgerFacts DEF Base, ExecOK, Prepared
  <2>4. QuarantineOK'
    <3>1. exec.plan \in Plans /\ quarantine[exec.plan].exists
      BY <1>2, MoveLedgerFacts DEF Base, ExecOK
    <3>2. quarantine'[exec.plan].exists
      BY <2>0, <3>1
    <3>3. ASSUME NEW q \in Plans, ~quarantine'[q].exists
          PROVE  quarantine'[q] = quarantine[q]
      BY <2>0, <3>2, <3>3
    <3> QED BY <3>3 DEF Base, QuarantineOK
  <2> QED BY <2>1, <2>2, <2>3, <2>4 DEF Base
<1> QED
  BY <1>1, <1>2

\* A blob is moved when it is there and nobody else refers to it.
LEMMA MoveBlobFacts ==
    ASSUME Base, NEW d \in Digests, MoveBlob(d), BlobUnchanged(d)
    PROVE  /\ exec.pc = "moving" /\ exec.plan \in Plans /\ exec.ledgers = TargetJobs(exec.plan)
           /\ d \in blobs /\ Exclusive(d, exec.ledgers) /\ blobs' = blobs \ {d}
           /\ exec' \in ExecRec /\ exec'.pc = "moving" /\ exec'.plan = exec.plan
           /\ exec'.ledgers = exec.ledgers /\ exec'.blobs = exec.blobs \cup {d}
           /\ quarantine' \in [Plans -> QuarantineRec]
           /\ \A q \in Plans \ {exec.plan} : quarantine'[q] = quarantine[q]
           /\ quarantine'[exec.plan].blobs = quarantine[exec.plan].blobs \cup {d}
           /\ quarantine'[exec.plan].exists = quarantine[exec.plan].exists
           /\ quarantine'[exec.plan].ledgers = quarantine[exec.plan].ledgers
           /\ UNCHANGED <<rows, put, status, updated_at, ledger, plan, audit, reopened, crashes>>
<1>1. /\ exec.pc = "moving" /\ exec.plan \in Plans /\ exec \in ExecRec
      /\ exec.ledgers = TargetJobs(exec.plan)
      /\ quarantine \in [Plans -> QuarantineRec] /\ quarantine[exec.plan] \in QuarantineRec
  BY DEF MoveBlob, LedgersMoved, Base, SType, ExecOK
<1>2. /\ quarantine' = [quarantine EXCEPT ![exec.plan].blobs = @ \cup {d}]
      /\ blobs' = blobs \ {d} /\ exec' = [exec EXCEPT !.blobs = @ \cup {d}]
      /\ d \in blobs /\ Exclusive(d, exec.ledgers)
      /\ UNCHANGED <<rows, put, status, updated_at, ledger, plan, audit, reopened, crashes>>
  BY DEF MoveBlob, BlobUnchanged
<1>3. /\ exec' \in ExecRec /\ exec'.pc = "moving" /\ exec'.plan = exec.plan
      /\ exec'.ledgers = exec.ledgers /\ exec'.blobs = exec.blobs \cup {d}
  BY <1>1, <1>2 DEF ExecRec
<1>4. /\ quarantine' \in [Plans -> QuarantineRec]
      /\ \A q \in Plans \ {exec.plan} : quarantine'[q] = quarantine[q]
      /\ quarantine'[exec.plan].blobs = quarantine[exec.plan].blobs \cup {d}
      /\ quarantine'[exec.plan].exists = quarantine[exec.plan].exists
      /\ quarantine'[exec.plan].ledgers = quarantine[exec.plan].ledgers
  <2> DEFINE new == [quarantine[exec.plan] EXCEPT !.blobs = @ \cup {d}]
  <2>1. /\ new \in QuarantineRec /\ new.blobs = quarantine[exec.plan].blobs \cup {d}
        /\ new.exists = quarantine[exec.plan].exists
        /\ new.ledgers = quarantine[exec.plan].ledgers
    BY <1>1 DEF QuarantineRec
  <2>2. quarantine' = [quarantine EXCEPT ![exec.plan] = new]
    BY <1>2
  <2> HIDE DEF new
  <2> QED BY <1>1, <2>1, <2>2
<1> QED
  BY <1>1, <1>2, <1>3, <1>4

\* The step of a blob keeps Base.
LEMMA MoveBlobBase ==
    ASSUME Base, NEW d \in Digests, MoveBlob(d)
    PROVE  Base'
<1>1. CASE ~BlobUnchanged(d)
  BY <1>1, AbortBase DEF MoveBlob, LedgersMoved
<1>2. CASE BlobUnchanged(d)
  <2>0. /\ UNCHANGED <<rows, put, status, updated_at, ledger, plan, audit, reopened, crashes>>
        /\ \A q \in Plans : q # exec.plan => quarantine'[q] = quarantine[q]
        /\ quarantine'[exec.plan].exists = quarantine[exec.plan].exists
        /\ quarantine'[exec.plan].ledgers = quarantine[exec.plan].ledgers
        /\ exec'.pc = "moving" /\ exec.pc = "moving" /\ exec.plan \in Plans
        /\ exec'.plan = exec.plan /\ exec'.ledgers = exec.ledgers
        /\ exec'.blobs = exec.blobs \cup {d}
        /\ quarantine'[exec.plan].blobs = quarantine[exec.plan].blobs \cup {d}
    BY <1>2, MoveBlobFacts
  <2>1. SType'
    BY <1>2, MoveBlobFacts DEF Base, SType
  <2>2. PlansOK'
    BY <2>0 DEF Base, PlansOK, Prepared, Completed
  <2>3. quarantine'[exec.plan].exists
    BY <2>0 DEF Base, ExecOK
  <2>4. ExecOK'
    BY <2>0, <2>3 DEF Base, ExecOK, Prepared, Reviewed, BindingsOf
  <2>5. ASSUME NEW q \in Plans, ~quarantine'[q].exists
        PROVE  quarantine'[q] = quarantine[q]
    BY <2>0, <2>3, <2>5
  <2>6. QuarantineOK'
    BY <2>5 DEF Base, QuarantineOK
  <2> QED BY <2>1, <2>2, <2>4, <2>6 DEF Base
<1> QED
  BY <1>1, <1>2

\* The quarantine of the execution is removed.
LEMMA DropFacts ==
    ASSUME Base, exec.plan \in Plans, quarantine' = [quarantine EXCEPT ![exec.plan] = NoQuarantine]
    PROVE  /\ quarantine' \in [Plans -> QuarantineRec]
           /\ \A q \in Plans : q # exec.plan => quarantine'[q] = quarantine[q]
           /\ ~quarantine'[exec.plan].exists /\ quarantine'[exec.plan].blobs = {}
           /\ \A j \in Jobs : quarantine'[exec.plan].ledgers[j] = 0
           /\ QuarantineOK'
<1>1. /\ NoQuarantine \in QuarantineRec /\ ~NoQuarantine.exists /\ NoQuarantine.blobs = {}
      /\ \A j \in Jobs : NoQuarantine.ledgers[j] = 0
  BY EmptyFacts DEF NoQuarantine
<1>2. /\ quarantine' \in [Plans -> QuarantineRec] /\ quarantine'[exec.plan] = NoQuarantine
      /\ \A q \in Plans : q # exec.plan => quarantine'[q] = quarantine[q]
  BY <1>1 DEF Base, SType
<1>3. QuarantineOK'
  BY <1>1, <1>2 DEF Base, QuarantineOK
<1> QED
  BY <1>1, <1>2, <1>3

\* A receipt is added that says the execution was aborted or completed.
LEMMA AuditFacts ==
    ASSUME Base, exec.plan \in Plans, Prepared(exec.plan),
           NEW e \in {"RETENTION_ABORTED", "RETENTION_COMPLETED"},
           audit' = audit \cup {[plan |-> exec.plan, event |-> e]},
           UNCHANGED <<plan, status>>
    PROVE  /\ audit' \subseteq Receipts /\ PlansOK'
           /\ \A q \in Plans : Prepared(q)' <=> Prepared(q)
           /\ \A q \in Plans : Completed(q)' => Completed(q) \/ (q = exec.plan /\ e = "RETENTION_COMPLETED")
<1>1. [plan |-> exec.plan, event |-> e] \in Receipts
  BY DEF Receipts
<1>2. /\ \A q \in Plans : Prepared(q)' <=> Prepared(q)
      /\ \A q \in Plans : Completed(q)' => Completed(q) \/ (q = exec.plan /\ e = "RETENTION_COMPLETED")
  <2>1. \A q \in Plans : [plan |-> q, event |-> "RETENTION_PREPARED"] # [plan |-> exec.plan, event |-> e]
    OBVIOUS
  <2>2. \A q \in Plans : [plan |-> q, event |-> "RETENTION_COMPLETED"] = [plan |-> exec.plan, event |-> e]
          => q = exec.plan /\ e = "RETENTION_COMPLETED"
    OBVIOUS
  <2> QED BY <2>1, <2>2 DEF Prepared, Completed
<1>3. PlansOK'
  BY <1>2 DEF Base, PlansOK
<1> QED
  BY <1>1, <1>2, <1>3 DEF Base, SType

\* The commit, the purge, the receipt, the handler and a kill keep Base.
LEMMA FinishBase ==
    ASSUME Base, DeleteRows \/ Purge \/ Receipt \/ Restore \/ KillExecution
    PROVE  Base'
<1>1. /\ exec.plan \in Plans /\ Prepared(exec.plan) /\ exec \in ExecRec
  BY DEF Base, SType, ExecOK, DeleteRows, LedgersMoved, Purge, Receipt, Restore, KillExecution
<1>2. NoExec \in ExecRec /\ NoExec.pc = "idle" /\ NoExec.plan = NoPlan
      /\ NoExec.ledgers = {} /\ NoExec.blobs = {}
  BY EmptyFacts DEF NoExec
<1>3. CASE DeleteRows
  <2>1. /\ exec.pc = "moving" /\ exec.ledgers = TargetJobs(exec.plan) /\ rows' \subseteq rows
        /\ exec' = [exec EXCEPT !.pc = "purge"]
        /\ status' = [j \in Jobs |-> IF j \in exec.ledgers THEN "DELETED" ELSE status[j]]
        /\ UNCHANGED <<blobs, put, updated_at, ledger, plan, quarantine, audit, reopened, crashes>>
    BY <1>3 DEF DeleteRows, LedgersMoved
  <2>2. /\ exec' \in ExecRec /\ exec'.pc = "purge" /\ exec'.plan = exec.plan
        /\ exec'.ledgers = exec.ledgers /\ exec'.blobs = exec.blobs
    BY <1>1, <2>1 DEF ExecRec
  <2>3. /\ status' \in [Jobs -> {"ACTIVE", "TERMINAL", "DELETED"}]
        /\ \A j \in Jobs : status[j] # "ACTIVE" => status'[j] # "ACTIVE"
        /\ \A j \in exec.ledgers : status'[j] = "DELETED"
    BY <1>1, <2>1 DEF Base, SType, ExecRec
  <2>4. SType'
    BY <2>1, <2>2, <2>3 DEF Base, SType
  <2>5. PlansOK'
    BY <2>1, <2>3, PlanFacts DEF Base, PlansOK, Prepared, Completed
  <2>6. ExecOK' /\ QuarantineOK'
    BY <2>1, <2>2, <2>3 DEF Base, ExecOK, Prepared, TargetJobs, QuarantineOK
  <2> QED BY <2>4, <2>5, <2>6 DEF Base
<1>4. CASE Purge
  <2>1. /\ exec.pc = "purge" /\ exec' = [exec EXCEPT !.pc = "receipt"]
        /\ quarantine' = [quarantine EXCEPT ![exec.plan] = NoQuarantine]
        /\ UNCHANGED <<rows, blobs, put, status, updated_at, ledger, plan, audit, reopened, crashes>>
    BY <1>4 DEF Purge, astoreVars
  <2>2. /\ exec' \in ExecRec /\ exec'.pc = "receipt" /\ exec'.plan = exec.plan
        /\ exec'.ledgers = exec.ledgers /\ exec'.blobs = exec.blobs
    BY <1>1, <2>1 DEF ExecRec
  <2>3. quarantine' \in [Plans -> QuarantineRec] /\ ~quarantine'[exec.plan].exists /\ QuarantineOK'
    BY <1>1, <2>1, DropFacts
  <2>4. SType'
    BY <2>1, <2>2, <2>3 DEF Base, SType
  <2>5. PlansOK'
    BY <2>1 DEF Base, PlansOK, Prepared, Completed
  <2>6. ExecOK'
    BY <1>1, <2>1, <2>2, <2>3 DEF Base, ExecOK, Prepared, TargetJobs
  <2> QED BY <2>3, <2>4, <2>5, <2>6 DEF Base
<1>5. CASE Receipt
  <2>1. /\ audit' = audit \cup {[plan |-> exec.plan, event |-> "RETENTION_COMPLETED"]}
        /\ exec' = NoExec
        /\ UNCHANGED <<rows, blobs, put, status, updated_at, ledger, plan, quarantine, reopened,
                       crashes>>
    BY <1>5 DEF Receipt, astoreVars
  <2>2. audit' \subseteq Receipts /\ PlansOK'
    BY <1>1, <2>1, AuditFacts
  <2>3. SType'
    BY <1>2, <2>1, <2>2 DEF Base, SType
  <2>4. ExecOK' /\ QuarantineOK'
    BY <1>2, <2>1 DEF Base, ExecOK, QuarantineOK
  <2> QED BY <2>2, <2>3, <2>4 DEF Base
<1>6. CASE Restore
  <2> DEFINE q == quarantine[exec.plan]
             back == [j \in Jobs |-> IF ledger[j] = 0 THEN q.ledgers[j] ELSE ledger[j]]
  <2>1. /\ audit' = audit \cup {[plan |-> exec.plan, event |-> "RETENTION_ABORTED"]}
        /\ exec' = NoExec /\ quarantine' = [quarantine EXCEPT ![exec.plan] = NoQuarantine]
        /\ UNCHANGED <<rows, put, status, updated_at, plan, reopened, crashes>>
        /\ ledger' = back /\ blobs' = blobs \cup q.blobs
    BY <1>6 DEF Restore, Restored
  <2>2. q \in QuarantineRec
    BY <1>1 DEF Base, SType
  <2>3. back \in [Jobs -> Nat] /\ q.blobs \subseteq Digests
    BY <2>2 DEF Base, SType, QuarantineRec
  <2> HIDE DEF back, q
  <2>4. audit' \subseteq Receipts /\ PlansOK'
    BY <1>1, <2>1, AuditFacts
  <2>5. quarantine' \in [Plans -> QuarantineRec] /\ QuarantineOK'
    BY <1>1, <2>1, DropFacts
  <2>6. SType'
    BY <1>2, <2>1, <2>3, <2>4, <2>5 DEF Base, SType
  <2>7. ExecOK'
    BY <1>2, <2>1 DEF ExecOK
  <2> QED BY <2>4, <2>5, <2>6, <2>7 DEF Base
<1>7. CASE KillExecution
  <2>1. /\ exec' = NoExec /\ crashes' = crashes + 1
        /\ UNCHANGED <<rows, blobs, put, status, updated_at, ledger, plan, quarantine, audit,
                       reopened>>
    BY <1>7 DEF KillExecution, astoreVars
  <2>2. SType'
    BY <1>2, <2>1 DEF Base, SType
  <2>3. PlansOK' /\ QuarantineOK'
    BY <2>1 DEF Base, PlansOK, Prepared, Completed, QuarantineOK
  <2>4. ExecOK'
    BY <1>2, <2>1 DEF ExecOK
  <2> QED BY <2>2, <2>3, <2>4 DEF Base
<1> QED
  BY <1>3, <1>4, <1>5, <1>6, <1>7

-----------------------------------------------------------------------------
(***************************************************************************)
(* Quiet: what holds when the writers are stopped during an execution.     *)
(***************************************************************************)

\* A writer that writes finds no execution: it adds a row only with its blob.
LEMMA WriterQuiet ==
    ASSUME Base, Quiesced, Quiet, NEW w \in Writers, Put(w) \/ KillWriter(w)
    PROVE  Quiet'
<1>1. /\ UNCHANGED <<status, updated_at, ledger, plan, quarantine, exec, audit, reopened>>
      /\ crashes > 0 => crashes' > 0
  BY DEF Put, KillWriter, retentionVars, Base, SType
<1>2. exec.pc = "idle"
  BY DEF Put, KillWriter, Quiet, WritersOK, WritersRun, PutWrite, PutCommit, PutCrash
<1>3. /\ put \in [Writers -> PutRec] /\ put[w] \in PutRec /\ NoPut.pc = "idle"
      /\ put[w].pc # "idle" => put[w].arg \in Binding
  BY DEF Base, SType, NoPut
<1>4. /\ blobs \subseteq blobs'
      /\ \A r \in rows' : r \in rows \/ (r.digest \in blobs' /\ status[r.job] # "DELETED")
  BY <1>3 DEF Put, KillWriter, PutLookup, PutWrite, PutCommit, PutCrash, Quiet, WritersOK
<1>5. WritersOK'
  <2>1. ASSUME NEW b \in Binding, status[b.job] # "DELETED", PutLookup(w, b) PROVE WritersOK'
    <3>1. [pc |-> "write", arg |-> b].pc = "write" /\ [pc |-> "write", arg |-> b].arg = b
      OBVIOUS
    <3> QED BY <1>1, <1>2, <1>3, <2>1, <3>1 DEF PutLookup, Quiet, WritersOK
  <2>2. CASE PutWrite(w)
    <3>1. put'[w].arg = put[w].arg /\ \A v \in Writers : v # w => put'[v] = put[v]
      BY <1>3, <2>2 DEF PutWrite, PutRec
    <3>2. blobs' = blobs \cup {put[w].arg.digest} /\ put[w].pc # "idle"
      BY <2>2 DEF PutWrite
    <3> QED BY <1>1, <1>2, <3>1, <3>2 DEF Quiet, WritersOK
  <2>3. CASE PutCommit(w) \/ PutCrash(w)
    BY <1>1, <1>2, <1>3, <2>3 DEF PutCommit, PutCrash, Quiet, WritersOK
  <2> QED BY <2>1, <2>2, <2>3 DEF Put, KillWriter
<1>6. DeletedOK'
  BY <1>1, <1>4 DEF Quiet, DeletedOK, BindingsOf
<1>7. MovedOK'
  BY <1>1, <1>2 DEF MovedOK
<1>8. CompletedOK'
  BY <1>1 DEF Quiet, CompletedOK, Completed, TargetJobs
<1>9. LossOnlyByReopening'
  BY <1>1, <1>4 DEF Quiet, LossOnlyByReopening, NothingIsLost, Quarantined, LedgerQuarantined
<1> QED
  BY <1>5, <1>6, <1>7, <1>8, <1>9 DEF Quiet

\* A job ends, or its ledger grows, while nothing is executed.
LEMMA JobQuiet ==
    ASSUME Base, Quiesced, Quiet, NEW j \in Jobs, EndJob(j) \/ Append(j)
    PROVE  Quiet'
<1>1. /\ UNCHANGED <<rows, blobs, put, plan, quarantine, exec, audit, reopened, crashes>>
      /\ exec.pc = "idle"
  BY DEF EndJob, Append, astoreVars, WritersRun
<1>2. /\ \A i \in Jobs : status[i] # "ACTIVE" => status'[i] = status[i]
      /\ \A i \in Jobs : status'[i] = "DELETED" <=> status[i] = "DELETED"
      /\ \A i \in Jobs : status[i] = "DELETED" => ledger'[i] = ledger[i]
      /\ \A i \in Jobs : ledger[i] > 0 => ledger'[i] > 0
  BY DEF EndJob, Append, Base, SType
<1>3. WritersOK'
  <2>1. \A w \in Writers : put[w].pc # "idle" => put[w].arg.job \in Jobs
    BY DEF Base, SType, Binding
  <2> QED BY <1>1, <1>2, <2>1 DEF Quiet, WritersOK
<1>4. DeletedOK' /\ MovedOK'
  BY <1>1, <1>2 DEF Quiet, DeletedOK, MovedOK, BindingsOf
<1>5. CompletedOK'
  <2>1. \A p \in Plans : TargetJobs(p) \subseteq Jobs
    BY PlanFacts DEF Base
  <2> QED BY <1>1, <1>2, <2>1 DEF Quiet, CompletedOK, Completed, TargetJobs
<1>6. LossOnlyByReopening'
  <2>1. \A p \in Plans : \A t \in plan[p].targets : t.job \in Jobs /\ status[t.job] # "ACTIVE"
    BY PlanFacts DEF Base, PlansOK
  <2> QED BY <1>1, <1>2, <2>1 DEF Quiet, LossOnlyByReopening, NothingIsLost, Quarantined,
             LedgerQuarantined
<1> QED
  BY <1>3, <1>4, <1>5, <1>6 DEF Quiet

\* A new target has its ledger, and a completed plan takes no new targets.
LEMMA PlanQuiet ==
    ASSUME Base, Quiesced, Quiet, NEW p \in Plans,
           PlanRead(p) \/ PlanBlobs(p) \/ \E j \in Jobs : PlanTarget(p, j)
    PROVE  Quiet'
<1>1. PICK new \in PlanRec :
        SetPlan(p, new) /\ \A t \in new.targets : t \in plan[p].targets \/ ledger[t.job] > 0
  BY PlanStepBase
<1>2. /\ plan' = [plan EXCEPT ![p] = new] /\ plan \in [Plans -> PlanRec]
      /\ UNCHANGED <<rows, blobs, put, status, updated_at, ledger, quarantine, exec, audit,
                     reopened, crashes>>
  BY <1>1 DEF SetPlan, astoreVars, Base, SType
<1>3. \A q \in Plans : plan'[q] = IF q = p THEN new ELSE plan[q]
  BY <1>2
<1>4. ~Completed(p)
  BY PlanStepBase DEF Base, PlansOK
<1>5. WritersOK' /\ DeletedOK' /\ MovedOK'
  BY <1>2 DEF Quiet, WritersOK, DeletedOK, MovedOK, BindingsOf, Exclusive
<1>6. CompletedOK'
  BY <1>2, <1>3, <1>4 DEF Quiet, CompletedOK, Completed, TargetJobs
<1>7. LossOnlyByReopening'
  BY <1>1, <1>2, <1>3 DEF Quiet, LossOnlyByReopening, NothingIsLost, Quarantined,
     LedgerQuarantined
<1> QED
  BY <1>5, <1>6, <1>7 DEF Quiet

\* Contents of the quarantines stay, or the plan is reopened.
LEMMA ExecuteQuiet ==
    ASSUME Base, Quiesced, Quiet, NEW p \in Plans, Execute(p) \/ ExecuteAgain(p)
    PROVE  Quiet'
<1>1. /\ exec.pc = "idle" /\ exec.plan = NoPlan /\ \A w \in Writers : put[w].pc = "idle"
      /\ quarantine \in [Plans -> QuarantineRec] /\ quarantine[p] \in QuarantineRec
      /\ UNCHANGED <<rows, blobs, put, status, updated_at, ledger, plan, crashes>>
  BY DEF Execute, ExecuteAgain, MayExecute, astoreVars, Base, SType, ExecOK
<1>2. \A q \in Plans : Completed(q)' <=> Completed(q)
  <2>1. \A q \in Plans :
          /\ [plan |-> q, event |-> "RETENTION_COMPLETED"] # [plan |-> p, event |-> "RETENTION_PREPARED"]
          /\ [plan |-> q, event |-> "RETENTION_COMPLETED"] # [plan |-> p, event |-> "RETENTION_ABORTED"]
    OBVIOUS
  <2>2. CASE Execute(p)
    BY <2>1, <2>2 DEF Execute, Completed
  <2>3. CASE ExecuteAgain(p)
    BY <2>1, <2>3 DEF ExecuteAgain, Completed
  <2> QED BY <2>2, <2>3
<1>3. \A q \in Plans, j \in Jobs : quarantine[q].ledgers[j] > 0 => crashes > 0
  BY <1>1, PlanAssumption DEF Quiet, CompletedOK
<1>4. exec'.ledgers = {} /\ exec'.blobs = {} /\ exec'.pc # "purge"
  BY <1>1 DEF Execute, ExecuteAgain, NoExec, Base, ExecOK
<1>5. WritersOK' /\ DeletedOK' /\ MovedOK'
  BY <1>1, <1>4 DEF Quiet, WritersOK, DeletedOK, MovedOK, BindingsOf
<1>6. CASE Execute(p)
  <2>1. /\ \A q \in Plans : quarantine'[q].blobs = quarantine[q].blobs
        /\ \A q \in Plans : quarantine'[q].ledgers = quarantine[q].ledgers
        /\ reopened' = reopened
    BY <1>1, <1>6 DEF Execute, QuarantineRec
  <2>2. CompletedOK'
    BY <1>1, <1>2, <1>3, <1>4, <2>1 DEF Quiet, CompletedOK, TargetJobs
  <2>3. LossOnlyByReopening'
    BY <1>1, <2>1 DEF Quiet, LossOnlyByReopening, NothingIsLost, Quarantined, LedgerQuarantined
  <2> QED BY <1>5, <2>2, <2>3 DEF Quiet
<1>7. CASE ExecuteAgain(p)
  <2>1. /\ NoQuarantine.blobs = {} /\ \A j \in Jobs : NoQuarantine.ledgers[j] = 0
    BY DEF NoQuarantine
  <2>2. \A q \in Plans : quarantine'[q] = IF q = p THEN NoQuarantine ELSE quarantine[q]
    BY <1>1, <1>7 DEF ExecuteAgain
  <2>3. CompletedOK'
    BY <1>1, <1>2, <1>3, <1>4, <2>1, <2>2 DEF Quiet, CompletedOK, TargetJobs
  <2>4. LossOnlyByReopening'
    BY <1>7 DEF ExecuteAgain, LossOnlyByReopening
  <2> QED BY <1>5, <2>3, <2>4 DEF Quiet
<1> QED
  BY <1>6, <1>7

\* A comparison that fails changes nothing but the place of the execution.
LEMMA AbortQuiet ==
    ASSUME Base, Quiesced, Quiet, exec.pc = "moving", exec' = [exec EXCEPT !.pc = "restore"],
           UNCHANGED <<rows, blobs, put, status, updated_at, ledger, plan, quarantine, audit,
                       reopened, crashes>>
    PROVE  Quiet'
<1>1. /\ exec'.pc = "restore" /\ exec'.plan = exec.plan /\ exec'.ledgers = exec.ledgers
  BY AbortBase
<1>2. WritersOK' /\ DeletedOK' /\ MovedOK'
  BY <1>1 DEF Quiet, WritersOK, DeletedOK, MovedOK, BindingsOf
<1>3. CompletedOK'
  BY <1>1 DEF Quiet, CompletedOK, Completed, TargetJobs
<1>4. LossOnlyByReopening'
  BY DEF Quiet, LossOnlyByReopening, NothingIsLost, Quarantined, LedgerQuarantined
<1> QED
  BY <1>2, <1>3, <1>4 DEF Quiet

\* A ledger that is moved is in the quarantine, and its job is not yet deleted, so
\* no completed plan has it as a target.
LEMMA MoveLedgerQuiet ==
    ASSUME Base, Quiesced, Quiet, NEW t \in plan[exec.plan].targets, MoveLedger(t)
    PROVE  Quiet'
<1>1. CASE ~TargetUnchanged(t, plan[exec.plan].cutoff)
  BY <1>1, AbortQuiet DEF MoveLedger, astoreVars
<1>2. CASE TargetUnchanged(t, plan[exec.plan].cutoff)
  <2>1. /\ exec.pc = "moving" /\ exec.plan \in Plans /\ t.job \in Jobs /\ t.events > 0
        /\ status[t.job] = "TERMINAL" /\ t.job \in TargetJobs(exec.plan) /\ t.events \in Nat
        /\ ledger' = [ledger EXCEPT ![t.job] = 0]
        /\ exec'.pc = "moving" /\ exec'.plan = exec.plan
        /\ exec'.ledgers = exec.ledgers \cup {t.job} /\ exec'.blobs = exec.blobs
        /\ \A q \in Plans \ {exec.plan} : quarantine'[q] = quarantine[q]
        /\ quarantine'[exec.plan].blobs = quarantine[exec.plan].blobs
        /\ \A j \in Jobs : quarantine'[exec.plan].ledgers[j] =
              IF j = t.job THEN t.events ELSE quarantine[exec.plan].ledgers[j]
        /\ UNCHANGED <<rows, blobs, put, status, updated_at, plan, audit, reopened, crashes>>
    BY <1>2, MoveLedgerFacts
  <2>2. /\ \A j \in Jobs : ledger'[j] = IF j = t.job THEN 0 ELSE ledger[j]
        /\ exec.ledgers \subseteq Jobs
    BY <2>1 DEF Base, SType, ExecRec
  <2>3. WritersOK' /\ DeletedOK'
    BY <2>1, <2>2 DEF Quiet, WritersOK, DeletedOK, BindingsOf
  <2>4. MovedOK'
    BY <2>1, <2>2 DEF Quiet, MovedOK, Exclusive
  <2>5. CompletedOK'
    <3>1. \A q \in Plans : Completed(q) => q # exec.plan /\ t.job \notin TargetJobs(q)
      BY <2>1 DEF Quiet, CompletedOK
    <3>2. \A q \in Plans : TargetJobs(q)' = TargetJobs(q) /\ (Completed(q)' <=> Completed(q))
      BY <2>1 DEF TargetJobs, Completed
    <3> QED BY <2>1, <3>1, <3>2 DEF Quiet, CompletedOK
  <2>6. LossOnlyByReopening'
    <3>1. /\ \A d : Quarantined(d) => Quarantined(d)'
          /\ \A j \in Jobs : LedgerQuarantined(j) => LedgerQuarantined(j)'
          /\ LedgerQuarantined(t.job)'
      BY <2>1 DEF Quarantined, LedgerQuarantined
    <3>2. \A q \in Plans : \A u \in plan[q].targets : u.job \in Jobs
      BY PlanFacts DEF Base
    <3> QED BY <2>1, <2>2, <3>1, <3>2 DEF Quiet, LossOnlyByReopening, NothingIsLost
  <2> QED BY <2>3, <2>4, <2>5, <2>6 DEF Quiet
<1> QED
  BY <1>1, <1>2

\* A blob that is moved is in the quarantine; its plan was never completed before.
LEMMA MoveBlobQuiet ==
    ASSUME Base, Quiesced, Quiet, NEW d \in Digests, MoveBlob(d)
    PROVE  Quiet'
<1>1. CASE ~BlobUnchanged(d)
  BY <1>1, AbortQuiet DEF MoveBlob, LedgersMoved
<1>2. CASE BlobUnchanged(d)
  <2>1. /\ exec.pc = "moving" /\ exec.plan \in Plans /\ exec.ledgers = TargetJobs(exec.plan)
        /\ d \in blobs /\ Exclusive(d, exec.ledgers) /\ blobs' = blobs \ {d}
        /\ exec'.pc = "moving" /\ exec'.plan = exec.plan
        /\ exec'.ledgers = exec.ledgers /\ exec'.blobs = exec.blobs \cup {d}
        /\ \A q \in Plans \ {exec.plan} : quarantine'[q] = quarantine[q]
        /\ quarantine'[exec.plan].blobs = quarantine[exec.plan].blobs \cup {d}
        /\ quarantine'[exec.plan].ledgers = quarantine[exec.plan].ledgers
        /\ UNCHANGED <<rows, put, status, updated_at, ledger, plan, audit, reopened, crashes>>
    BY <1>2, MoveBlobFacts
  <2>2. WritersOK' /\ DeletedOK'
    BY <2>1 DEF Quiet, WritersOK, DeletedOK, BindingsOf
  <2>3. MovedOK'
    BY <2>1 DEF Quiet, MovedOK, Exclusive
  <2>4. CompletedOK'
    <3>1. ~Completed(exec.plan)
      <4>1. plan[exec.plan].pc = "ready"
        BY <2>1 DEF Base, ExecOK, PlansOK
      <4>2. TargetJobs(exec.plan) # {}
        BY <2>1, <4>1 DEF Base, PlansOK, TargetJobs
      <4> QED BY <2>1, <4>2 DEF Quiet, CompletedOK
    <3>2. \A q \in Plans : TargetJobs(q)' = TargetJobs(q) /\ (Completed(q)' <=> Completed(q))
      BY <2>1 DEF TargetJobs, Completed
    <3> QED BY <2>1, <3>1, <3>2 DEF Quiet, CompletedOK
  <2>5. LossOnlyByReopening'
    <3>1. /\ \A e : Quarantined(e) => Quarantined(e)'
          /\ \A j \in Jobs : LedgerQuarantined(j) => LedgerQuarantined(j)'
          /\ Quarantined(d)'
      BY <2>1 DEF Quarantined, LedgerQuarantined
    <3>2. \A q \in Plans : \A u \in plan[q].targets : u.job \in Jobs
      BY PlanFacts DEF Base
    <3> QED BY <2>1, <3>1, <3>2 DEF Quiet, LossOnlyByReopening, NothingIsLost
  <2> QED BY <2>2, <2>3, <2>4, <2>5 DEF Quiet
<1> QED
  BY <1>1, <1>2

\* The transaction deletes the rows of jobs whose files are in the quarantine.
LEMMA DeleteRowsQuiet == ASSUME Base, Quiesced, Quiet, DeleteRows PROVE Quiet'
<1>1. /\ exec.pc = "moving" /\ exec.plan \in Plans /\ exec.ledgers = TargetJobs(exec.plan)
      /\ rows' = {r \in rows : r.job \notin exec.ledgers}
      /\ exec' = [exec EXCEPT !.pc = "purge"]
      /\ status' = [j \in Jobs |-> IF j \in exec.ledgers THEN "DELETED" ELSE status[j]]
      /\ UNCHANGED <<blobs, put, updated_at, ledger, plan, quarantine, audit, reopened, crashes>>
  BY DEF DeleteRows, LedgersMoved, Base, ExecOK
<1>2. /\ exec'.pc = "purge" /\ exec'.plan = exec.plan
      /\ exec'.ledgers = exec.ledgers /\ exec'.blobs = exec.blobs
  BY <1>1 DEF Base, SType, ExecRec
<1>3. /\ \A j \in Jobs : status'[j] = IF j \in exec.ledgers THEN "DELETED" ELSE status[j]
      /\ \A w \in Writers : put[w].pc = "idle"
  BY <1>1 DEF Quiet, WritersOK
<1>4. WritersOK' /\ DeletedOK'
  BY <1>1, <1>2, <1>3 DEF Quiet, WritersOK, DeletedOK, MovedOK, BindingsOf
<1>5. MovedOK'
  BY <1>1, <1>2 DEF Quiet, MovedOK, Exclusive
<1>6. CompletedOK'
  <2>1. \A q \in Plans : /\ TargetJobs(q)' = TargetJobs(q) /\ (Completed(q)' <=> Completed(q))
                         /\ TargetJobs(q) \subseteq Jobs
    BY <1>1, PlanFacts DEF TargetJobs, Completed, Base
  <2> QED BY <1>1, <1>2, <1>3, <2>1 DEF Quiet, CompletedOK
<1>7. LossOnlyByReopening'
  <2>1. \A q \in Plans : \A u \in plan[q].targets : u.job \in Jobs
    BY PlanFacts DEF Base
  <2> QED BY <1>1, <1>3, <2>1 DEF Quiet, LossOnlyByReopening, NothingIsLost, Quarantined,
             LedgerQuarantined
<1> QED
  BY <1>4, <1>5, <1>6, <1>7 DEF Quiet

\* What is purged belongs to deleted jobs, and no row refers to it.
LEMMA PurgeQuiet == ASSUME Base, Quiesced, Quiet, Purge PROVE Quiet'
<1>1. /\ exec.pc = "purge" /\ exec.plan \in Plans
      /\ quarantine' = [quarantine EXCEPT ![exec.plan] = NoQuarantine]
      /\ exec' = [exec EXCEPT !.pc = "receipt"]
      /\ UNCHANGED <<rows, blobs, put, status, updated_at, ledger, plan, audit, reopened, crashes>>
  BY DEF Purge, astoreVars, Base, ExecOK
<1>2. exec'.pc = "receipt" /\ exec'.plan = exec.plan /\ exec'.ledgers = exec.ledgers
  BY <1>1 DEF Base, SType, ExecRec
<1>3. /\ \A q \in Plans : q # exec.plan => quarantine'[q] = quarantine[q]
      /\ quarantine'[exec.plan].blobs = {} /\ \A j \in Jobs : quarantine'[exec.plan].ledgers[j] = 0
  BY <1>1, DropFacts
<1>4. WritersOK' /\ DeletedOK' /\ MovedOK'
  BY <1>1, <1>2 DEF Quiet, WritersOK, DeletedOK, MovedOK, BindingsOf
<1>5. CompletedOK'
  <2>1. \A q \in Plans : TargetJobs(q)' = TargetJobs(q) /\ (Completed(q)' <=> Completed(q))
    BY <1>1 DEF TargetJobs, Completed
  <2> QED BY <1>1, <1>2, <1>3, <2>1 DEF Quiet, CompletedOK
<1>6. LossOnlyByReopening'
  <2>1. \A r \in rows : Quarantined(r.digest) => Quarantined(r.digest)'
    BY <1>1, <1>3 DEF Base, ExecOK, Quiet, MovedOK, Quarantined
  <2>2. \A j \in Jobs : status[j] = "TERMINAL" /\ LedgerQuarantined(j) => LedgerQuarantined(j)'
    BY <1>1, <1>3 DEF Base, ExecOK, LedgerQuarantined
  <2>3. \A q \in Plans : \A u \in plan[q].targets : u.job \in Jobs
    BY PlanFacts DEF Base
  <2> QED BY <1>1, <2>1, <2>2, <2>3 DEF Quiet, LossOnlyByReopening, NothingIsLost
<1> QED
  BY <1>4, <1>5, <1>6 DEF Quiet

\* The receipt is written when the quarantine is gone and the jobs are deleted.
LEMMA ReceiptQuiet == ASSUME Base, Quiesced, Quiet, Receipt PROVE Quiet'
<1>1. /\ exec.pc = "receipt" /\ exec.plan \in Plans /\ Prepared(exec.plan)
      /\ audit' = audit \cup {[plan |-> exec.plan, event |-> "RETENTION_COMPLETED"]}
      /\ exec' = NoExec
      /\ UNCHANGED <<rows, blobs, put, status, updated_at, ledger, plan, quarantine, reopened,
                     crashes>>
  BY DEF Receipt, astoreVars, Base, ExecOK
<1>2. exec'.pc = "idle" /\ exec'.ledgers = {}
  BY <1>1 DEF NoExec
<1>3. \A q \in Plans : Completed(q)' => Completed(q) \/ q = exec.plan
  BY <1>1, AuditFacts
<1>4. /\ quarantine[exec.plan].blobs = {} /\ \A j \in Jobs : quarantine[exec.plan].ledgers[j] = 0
      /\ \A j \in TargetJobs(exec.plan) : status[j] = "DELETED"
  BY <1>1 DEF Base, ExecOK, QuarantineOK
<1>5. WritersOK' /\ DeletedOK' /\ MovedOK'
  BY <1>1, <1>2 DEF Quiet, WritersOK, DeletedOK, MovedOK, BindingsOf
<1>6. CompletedOK'
  <2>1. \A q \in Plans : TargetJobs(q)' = TargetJobs(q)
    BY <1>1 DEF TargetJobs
  <2> QED BY <1>1, <1>2, <1>3, <1>4, <2>1 DEF Quiet, CompletedOK
<1>7. LossOnlyByReopening'
  BY <1>1 DEF Quiet, LossOnlyByReopening, NothingIsLost, Quarantined, LedgerQuarantined
<1> QED
  BY <1>5, <1>6, <1>7 DEF Quiet

\* The handler puts back what the execution moved; none of its jobs is deleted.
LEMMA RestoreQuiet == ASSUME Base, Quiesced, Quiet, Restore PROVE Quiet'
<1> DEFINE q == quarantine[exec.plan]
<1>1. /\ exec.pc = "restore" /\ exec.plan \in Plans /\ Prepared(exec.plan) /\ exec' = NoExec
      /\ audit' = audit \cup {[plan |-> exec.plan, event |-> "RETENTION_ABORTED"]}
      /\ quarantine' = [quarantine EXCEPT ![exec.plan] = NoQuarantine]
      /\ UNCHANGED <<rows, put, status, updated_at, plan, reopened, crashes>>
      /\ ledger' = [j \in Jobs |-> IF ledger[j] = 0 THEN q.ledgers[j] ELSE ledger[j]]
      /\ blobs' = blobs \cup q.blobs
  BY DEF Restore, Restored, Base, ExecOK
<1>2. exec'.pc = "idle" /\ exec'.ledgers = {}
  BY <1>1 DEF NoExec
<1>3. /\ \A p \in Plans : p # exec.plan => quarantine'[p] = quarantine[p]
      /\ quarantine'[exec.plan].blobs = {} /\ \A j \in Jobs : quarantine'[exec.plan].ledgers[j] = 0
  BY <1>1, DropFacts
<1>4. q \in QuarantineRec /\ \A j \in Jobs : q.ledgers[j] \in Nat /\ ledger[j] \in Nat
  BY <1>1 DEF Base, SType, QuarantineRec
<1>5. \A j \in Jobs : q.ledgers[j] > 0 => status[j] = "TERMINAL"
  BY <1>1 DEF Base, ExecOK
<1> HIDE DEF q
<1>6. WritersOK' /\ MovedOK'
  BY <1>1, <1>2 DEF Quiet, WritersOK, MovedOK
<1>7. DeletedOK'
  <2>1. \A j \in Jobs : status[j] = "DELETED" => ledger[j] = 0 /\ q.ledgers[j] = 0
    BY <1>4, <1>5 DEF Quiet, DeletedOK
  <2> QED BY <1>1, <2>1 DEF Quiet, DeletedOK, BindingsOf
<1>8. CompletedOK'
  <2>1. \A p \in Plans : TargetJobs(p)' = TargetJobs(p)
    BY <1>1 DEF TargetJobs
  <2>2. \A p \in Plans : Completed(p)' => Completed(p)
    BY <1>1, AuditFacts
  <2> QED BY <1>1, <1>2, <1>3, <2>1, <2>2 DEF Quiet, CompletedOK
<1>9. LossOnlyByReopening'
  <2>1. \A r \in rows : r.digest \in blobs \/ Quarantined(r.digest) =>
          r.digest \in blobs' \/ Quarantined(r.digest)'
    BY <1>1, <1>3 DEF Quarantined, q
  <2>2. \A j \in Jobs : ledger[j] > 0 \/ LedgerQuarantined(j) =>
          ledger'[j] > 0 \/ LedgerQuarantined(j)'
    BY <1>1, <1>3, <1>4 DEF LedgerQuarantined, q
  <2>3. \A p \in Plans : \A u \in plan[p].targets : u.job \in Jobs
    BY PlanFacts DEF Base
  <2> QED BY <1>1, <2>1, <2>2, <2>3 DEF Quiet, LossOnlyByReopening, NothingIsLost
<1> QED
  BY <1>6, <1>7, <1>8, <1>9 DEF Quiet

\* A kill leaves the files where they are.
LEMMA KillQuiet == ASSUME Base, Quiesced, Quiet, KillExecution PROVE Quiet'
<1>1. /\ exec' = NoExec /\ crashes' = crashes + 1 /\ crashes \in Nat
      /\ UNCHANGED <<rows, blobs, put, status, updated_at, ledger, plan, quarantine, audit,
                     reopened>>
  BY DEF KillExecution, astoreVars, Base, SType
<1>2. exec'.pc = "idle" /\ exec'.ledgers = {} /\ crashes' > 0
  BY <1>1 DEF NoExec
<1>3. WritersOK' /\ DeletedOK' /\ MovedOK'
  BY <1>1, <1>2 DEF Quiet, WritersOK, DeletedOK, MovedOK, BindingsOf
<1>4. CompletedOK'
  BY <1>1, <1>2 DEF Quiet, CompletedOK, Completed, TargetJobs
<1>5. LossOnlyByReopening'
  BY <1>1 DEF Quiet, LossOnlyByReopening, NothingIsLost, Quarantined, LedgerQuarantined
<1> QED
  BY <1>3, <1>4, <1>5 DEF Quiet

-----------------------------------------------------------------------------
(***************************************************************************)
(* Backup beside retention.                                                *)
(***************************************************************************)
BackupRec == [pc : {"none", "rows", "blobs", "ledgers", "done"}, jobs : SUBSET Jobs,
              rows : SUBSET Binding, blobs : SUBSET Digests, found : SUBSET Jobs,
              ledgers : [Jobs -> Nat], since : [Jobs -> Nat]]

\* While a backup is taken the ledger of a job in it only grows, and so does what
\* was copied of it, unless an execution of a plan has touched the job.
BackupOK ==
    /\ backup \in BackupRec
    /\ backup.pc \in {"rows", "blobs", "ledgers"} =>
        \A j \in backup.jobs : Touched(j) \/ ledger[j] >= backup.since[j]
    /\ backup.pc = "ledgers" =>
        \A j \in backup.jobs \ backup.found : Touched(j) \/ backup.ledgers[j] >= backup.since[j]

SInv == Base /\ (Quiesced => Quiet) /\ BackupOK

\* A step of retention takes from a ledger only what an executed plan names, and
\* what a plan touched stays touched.
LEMMA Growth ==
    ASSUME Base, RetentionStep
    PROVE  \A j \in Jobs : /\ Touched(j) => Touched(j)'
                           /\ Touched(j)' \/ ledger'[j] >= ledger[j]
<1>1. \A j \in Jobs : ledger[j] \in Nat
  BY DEF Base, SType
<1>2. ASSUME audit \subseteq audit', plan' = plan
      PROVE  \A j \in Jobs : Touched(j) => Touched(j)'
  BY <1>2 DEF Touched, TargetJobs
<1>3. ASSUME NEW w \in Writers, Put(w) \/ KillWriter(w)
      PROVE  ledger' = ledger /\ plan' = plan /\ audit' = audit
  BY <1>3 DEF Put, KillWriter, retentionVars
<1>4. ASSUME NEW i \in Jobs, EndJob(i) \/ Append(i)
      PROVE  plan' = plan /\ audit' = audit /\ \A j \in Jobs : ledger'[j] >= ledger[j]
  BY <1>1, <1>4 DEF EndJob, Append, Base, SType
<1>5. ASSUME NEW p \in Plans, PlanRead(p) \/ PlanBlobs(p) \/ \E j \in Jobs : PlanTarget(p, j)
      PROVE  ledger' = ledger /\ \A j \in Jobs : Touched(j) => Touched(j)'
  <2>1. PICK new \in PlanRec : SetPlan(p, new)
    BY <1>5, PlanStepBase
  <2>2. /\ plan' = [plan EXCEPT ![p] = new] /\ audit' = audit /\ ledger' = ledger
        /\ plan \in [Plans -> PlanRec]
    BY <2>1 DEF SetPlan, Base, SType
  <2>3. ~Prepared(p)
    BY <1>5, PlanStepBase DEF Base, PlansOK
  <2>4. \A q \in Plans : Prepared(q) => plan'[q] = plan[q]
    BY <2>2, <2>3
  <2> QED BY <2>2, <2>4 DEF Touched, TargetJobs, Prepared
<1>6. ASSUME NEW p \in Plans, Execute(p) \/ ExecuteAgain(p)
      PROVE  ledger' = ledger /\ plan' = plan /\ audit \subseteq audit'
  BY <1>6 DEF Execute, ExecuteAgain
<1>7. ASSUME NEW t \in plan[exec.plan].targets, MoveLedger(t)
      PROVE  /\ plan' = plan /\ audit' = audit
             /\ \A j \in Jobs : Touched(j)' \/ ledger'[j] >= ledger[j]
  <2>1. /\ plan' = plan /\ audit' = audit /\ exec.plan \in Plans /\ Prepared(exec.plan)
    BY <1>7 DEF MoveLedger, Base, ExecOK
  <2>2. Touched(t.job)'
    BY <2>1 DEF Touched, Prepared, TargetJobs
  <2>3. \A j \in Jobs : j # t.job => ledger'[j] = ledger[j]
    BY <1>7 DEF MoveLedger, Base, SType
  <2> QED BY <1>1, <2>1, <2>2, <2>3
<1>8. ASSUME NEW d \in Digests, MoveBlob(d)
      PROVE  ledger' = ledger /\ plan' = plan /\ audit' = audit
  BY <1>8 DEF MoveBlob
<1>9. ASSUME DeleteRows \/ Purge \/ Receipt \/ KillExecution
      PROVE  ledger' = ledger /\ plan' = plan /\ audit \subseteq audit'
  BY <1>9 DEF DeleteRows, Purge, Receipt, KillExecution
<1>10. ASSUME Restore
       PROVE  /\ plan' = plan /\ audit \subseteq audit'
              /\ \A j \in Jobs : ledger'[j] >= ledger[j]
  <2> DEFINE q == quarantine[exec.plan]
  <2>1. /\ plan' = plan /\ audit \subseteq audit' /\ exec.plan \in Plans
        /\ ledger' = [j \in Jobs |-> IF ledger[j] = 0 THEN q.ledgers[j] ELSE ledger[j]]
    BY <1>10 DEF Restore, Restored, Base, ExecOK
  <2>2. \A j \in Jobs : q.ledgers[j] \in Nat
    BY <2>1 DEF Base, SType, QuarantineRec
  <2> HIDE DEF q
  <2> QED BY <1>1, <2>1, <2>2
<1>11. ledger' = ledger => \A j \in Jobs : ledger'[j] >= ledger[j]
  BY <1>1
<1> QED
  BY <1>2, <1>3, <1>4, <1>5, <1>6, <1>7, <1>8, <1>9, <1>10, <1>11 DEF RetentionStep

\* A step of retention keeps the invariant.
LEMMA RetentionKeeps ==
    ASSUME SInv, RetentionStep, UNCHANGED backupVars
    PROVE  SInv'
<1>1. Base'
  BY WriterBase, JobBase, PlanStepBase, ExecuteBase, MoveLedgerBase, MoveBlobBase, FinishBase
     DEF SInv, RetentionStep
<1>2. Quiesced => Quiet'
  BY WriterQuiet, JobQuiet, PlanQuiet, ExecuteQuiet, MoveLedgerQuiet, MoveBlobQuiet,
     DeleteRowsQuiet, PurgeQuiet, ReceiptQuiet, RestoreQuiet, KillQuiet DEF SInv, RetentionStep
<1>3. BackupOK'
  <2>1. backup' = backup /\ backup \in BackupRec /\ backup.jobs \subseteq Jobs
        /\ \A j \in Jobs : backup.since[j] \in Nat
    BY DEF backupVars, SInv, BackupOK, BackupRec
  <2>2. \A j \in Jobs : ledger[j] \in Nat /\ ledger'[j] \in Nat
    BY <1>1 DEF SInv, Base, SType
  <2>3. \A j \in Jobs : /\ Touched(j) => Touched(j)'
                        /\ Touched(j)' \/ ledger'[j] >= ledger[j]
    BY Growth DEF SInv
  <2>4. \A j \in Jobs : Touched(j) \/ ledger[j] >= backup.since[j] =>
                        Touched(j)' \/ ledger'[j] >= backup.since[j]
    BY <2>1, <2>2, <2>3
  <2> QED BY <2>1, <2>3, <2>4 DEF SInv, BackupOK
<1> QED
  BY <1>1, <1>2, <1>3 DEF SInv

\* The steps of a backup write nothing but the backup.
LEMMA BackupFrame ==
    ASSUME SInv, UNCHANGED <<astoreVars, status, updated_at, ledger, plan, quarantine, exec,
                             audit, reopened>>, crashes' = crashes \/ crashes' = crashes + 1
    PROVE  Base' /\ (Quiesced => Quiet')
<1>1. UNCHANGED <<rows, blobs, put, status, updated_at, ledger, plan, quarantine, exec, audit,
                  reopened>>
  BY DEF astoreVars
<1>2. crashes' \in Nat /\ (crashes > 0 => crashes' > 0)
  BY DEF SInv, Base, SType
<1>3. Base'
  BY <1>1, <1>2 DEF SInv, Base, SType, PlansOK, ExecOK, QuarantineOK, Prepared, Completed,
     Reviewed, BindingsOf, TargetJobs
<1>4. ASSUME Quiet PROVE WritersOK' /\ DeletedOK' /\ MovedOK'
  BY <1>1, <1>4 DEF Quiet, WritersOK, DeletedOK, MovedOK, BindingsOf, Exclusive
<1>5. ASSUME Quiet PROVE CompletedOK'
  BY <1>1, <1>2, <1>5 DEF Quiet, CompletedOK, Completed, TargetJobs
<1>6. ASSUME Quiet PROVE LossOnlyByReopening'
  BY <1>1, <1>6 DEF Quiet, LossOnlyByReopening, NothingIsLost, Quarantined, LedgerQuarantined
<1> QED
  BY <1>3, <1>4, <1>5, <1>6 DEF Quiet, SInv

\* The empty backup is a backup.
LEMMA NoBackupFacts == NoBackup \in BackupRec /\ NoBackup.pc = "none"
  BY DEF NoBackup, BackupRec

\* A staged value that is in order keeps the invariant.
LEMMA StageKeeps ==
    ASSUME SInv, NEW new \in BackupRec, Stage(new),
           new.pc \in {"rows", "blobs", "ledgers"} =>
               \A j \in new.jobs : Touched(j) \/ ledger[j] >= new.since[j],
           new.pc = "ledgers" =>
               \A j \in new.jobs \ new.found : Touched(j) \/ new.ledgers[j] >= new.since[j]
    PROVE  SInv'
<1>1. /\ backup' = new /\ UNCHANGED <<astoreVars, status, updated_at, ledger, plan, quarantine, exec,
                                    audit, reopened, crashes>>
  BY DEF Stage, retentionVars
<1>2. Base' /\ (Quiesced => Quiet')
  BY <1>1, BackupFrame
<1>3. \A j \in Jobs : Touched(j)' <=> Touched(j)
  BY <1>1 DEF Touched, TargetJobs
<1>4. new.jobs \subseteq Jobs
  BY DEF BackupRec
<1>5. BackupOK'
  BY <1>1, <1>3, <1>4 DEF BackupOK
<1> QED
  BY <1>2, <1>5 DEF SInv

\* A backup looks for the ledgers after it has read the jobs: a ledger that was there
\* then is found, and is copied with at least as many events.
LEMMA BackupKeeps ==
    ASSUME SInv, \/ SnapshotJobs \/ SnapshotRows \/ CopyBlob \/ ListLedgers \/ Publish
                 \/ \E j \in Jobs : CopyLedger(j)
                 \/ RestoreBackup \/ KillBackup
    PROVE  SInv'
<1>1. /\ backup \in BackupRec /\ NoBackup \in BackupRec /\ NoBackup.pc = "none"
      /\ ledger \in [Jobs -> Nat] /\ rows \subseteq Binding
      /\ backup.jobs \subseteq Jobs /\ backup.since \in [Jobs -> Nat]
      /\ backup.ledgers \in [Jobs -> Nat]
  BY NoBackupFacts DEF SInv, BackupOK, Base, SType, BackupRec
<1>2. CASE Stage(NoBackup)
  BY <1>1, <1>2, StageKeeps
<1>3. CASE SnapshotJobs
  <2> DEFINE found == {j \in Jobs : status[j] # "DELETED"}
             new == [NoBackup EXCEPT !.pc = "rows", !.since = ledger, !.jobs = found]
  <2>1. Stage(new) /\ found \subseteq Jobs
    BY <1>3 DEF SnapshotJobs
  <2> HIDE DEF found
  <2>2. new \in BackupRec /\ new.pc = "rows" /\ new.since = ledger /\ new.jobs = found
    BY <1>1, <2>1 DEF BackupRec
  <2> HIDE DEF new
  <2>3. \A j \in new.jobs : ledger[j] >= new.since[j]
    BY <1>1, <2>1, <2>2
  <2> QED BY <2>1, <2>2, <2>3, StageKeeps
<1>4. CASE SnapshotRows
  <2> DEFINE new == [backup EXCEPT !.pc = "blobs", !.rows = rows]
  <2>1. Stage(new) /\ backup.pc = "rows"
    BY <1>4 DEF SnapshotRows
  <2>2. new \in BackupRec /\ new.pc = "blobs" /\ new.since = backup.since /\ new.jobs = backup.jobs
    BY <1>1 DEF BackupRec
  <2> HIDE DEF new
  <2> QED BY <2>1, <2>2, StageKeeps DEF SInv, BackupOK
<1>5. ASSUME NEW d \in blobs, backup.pc = "blobs", Stage([backup EXCEPT !.blobs = @ \cup {d}])
      PROVE  SInv'
  <2> DEFINE new == [backup EXCEPT !.blobs = @ \cup {d}]
  <2>1. /\ new \in BackupRec /\ new.pc = "blobs" /\ new.since = backup.since
        /\ new.jobs = backup.jobs
    <3>1. d \in Digests
      BY DEF SInv, Base, SType
    <3> QED BY <1>1, <1>5, <3>1 DEF BackupRec
  <2>2. Stage(new)
    BY <1>5
  <2> HIDE DEF new
  <2> QED BY <1>5, <2>1, <2>2, StageKeeps DEF SInv, BackupOK
<1>6. CASE ListLedgers
  <2> DEFINE found == {j \in Jobs : ledger[j] > 0}
             new == [backup EXCEPT !.pc = "ledgers", !.found = found]
  <2>1. Stage(new) /\ backup.pc = "blobs" /\ found \subseteq Jobs
    BY <1>6 DEF ListLedgers
  <2>2. \A j \in backup.jobs \ found : backup.since[j] \in Nat /\ ledger[j] = 0
                                      /\ backup.ledgers[j] \in Nat
    BY <1>1
  <2> HIDE DEF found
  <2>3. /\ new \in BackupRec /\ new.pc = "ledgers" /\ new.since = backup.since
        /\ new.jobs = backup.jobs /\ new.found = found /\ new.ledgers = backup.ledgers
    BY <1>1, <2>1 DEF BackupRec
  <2> HIDE DEF new
  <2>4. \A j \in backup.jobs : Touched(j) \/ ledger[j] >= backup.since[j]
    BY <2>1 DEF SInv, BackupOK
  <2>5. \A j \in new.jobs \ new.found : Touched(j) \/ new.ledgers[j] >= new.since[j]
    BY <2>2, <2>3, <2>4
  <2> QED BY <2>1, <2>3, <2>4, <2>5, StageKeeps
<1>7. ASSUME NEW i \in Jobs, CopyLedger(i), ledger[i] > 0 PROVE SInv'
  <2> DEFINE new == [backup EXCEPT !.found = @ \ {i}, !.ledgers[i] = ledger[i]]
  <2>1. Stage(new) /\ backup.pc = "ledgers"
    BY <1>7 DEF CopyLedger
  <2>2. /\ new \in BackupRec /\ new.pc = "ledgers" /\ new.since = backup.since
        /\ new.jobs = backup.jobs /\ new.found = backup.found \ {i}
        /\ \A j \in Jobs : new.ledgers[j] = IF j = i THEN ledger[i] ELSE backup.ledgers[j]
    BY <1>1, <2>1 DEF BackupRec
  <2> HIDE DEF new
  <2>3. /\ \A j \in backup.jobs : Touched(j) \/ ledger[j] >= backup.since[j]
        /\ \A j \in backup.jobs \ backup.found : Touched(j) \/ backup.ledgers[j] >= backup.since[j]
    BY <2>1 DEF SInv, BackupOK
  <2>4. \A j \in new.jobs \ new.found : Touched(j) \/ new.ledgers[j] >= new.since[j]
    BY <1>1, <2>2, <2>3
  <2> QED BY <2>1, <2>2, <2>3, <2>4, StageKeeps
<1>8. CASE Publish
  <2> DEFINE since == NoBackup.since
             new == [backup EXCEPT !.pc = "done", !.since = since]
  <2>1. Stage(new)
    BY <1>8 DEF Publish
  <2>2. since \in [Jobs -> Nat]
    BY <1>1 DEF BackupRec
  <2> HIDE DEF since
  <2>3. new \in BackupRec /\ new.pc = "done"
    BY <1>1, <2>2 DEF BackupRec
  <2> HIDE DEF new
  <2> QED BY <2>1, <2>3, StageKeeps
<1>9. CASE RestoreBackup
  <2>1. UNCHANGED <<astoreVars, retentionVars, backup>>
    BY <1>9 DEF RestoreBackup
  <2>2. Base' /\ (Quiesced => Quiet')
    BY <2>1, BackupFrame DEF retentionVars
  <2>3. BackupOK'
    BY <2>1 DEF SInv, BackupOK, Touched, TargetJobs, retentionVars
  <2> QED BY <2>2, <2>3 DEF SInv
<1>10. CASE KillBackup
  <2>1. /\ UNCHANGED <<astoreVars, status, updated_at, ledger, plan, quarantine, exec, audit,
                     reopened>>
        /\ crashes' = crashes + 1 /\ backup' = NoBackup
    BY <1>10 DEF KillBackup
  <2>2. Base' /\ (Quiesced => Quiet')
    BY <2>1, BackupFrame
  <2>3. BackupOK'
    BY <1>1, <2>1 DEF BackupOK
  <2> QED BY <2>2, <2>3 DEF SInv
<1> QED
  BY <1>2, <1>3, <1>4, <1>5, <1>6, <1>7, <1>8, <1>9, <1>10 DEF CopyBlob, CopyLedger

-----------------------------------------------------------------------------
\* The invariant holds when nothing was stored, planned or backed up.
LEMMA StorageInit == ASSUME BInit PROVE SInv
<1>1. /\ rows = {} /\ blobs = {} /\ put = [w \in Writers |-> NoPut]
      /\ status = [j \in Jobs |-> "ACTIVE"] /\ updated_at = [j \in Jobs |-> 0]
      /\ ledger = [j \in Jobs |-> 0] /\ plan = [p \in Plans |-> EmptyPlan]
      /\ quarantine = [p \in Plans |-> NoQuarantine] /\ exec = NoExec /\ audit = {}
      /\ reopened = {} /\ crashes = 0 /\ backup = NoBackup
  BY DEF BInit, RInit, AInit
<1>2. /\ EmptyPlan \in PlanRec /\ EmptyPlan.pc = "none" /\ EmptyPlan.todo = {}
      /\ EmptyPlan.targets = {}
      /\ NoQuarantine \in QuarantineRec /\ NoQuarantine.blobs = {}
      /\ \A j \in Jobs : NoQuarantine.ledgers[j] = 0
      /\ NoExec \in ExecRec /\ NoExec.pc = "idle" /\ NoExec.plan = NoPlan
      /\ NoExec.ledgers = {} /\ NoExec.blobs = {}
      /\ NoPut \in PutRec /\ NoPut.pc = "idle"
  BY EmptyFacts DEF EmptyPlan, NoQuarantine, NoExec, NoPut
<1>3. SType
  BY <1>1, <1>2 DEF SType, Times
<1>4. PlansOK /\ ExecOK /\ QuarantineOK
  BY <1>1, <1>2 DEF PlansOK, ExecOK, QuarantineOK, Prepared, Completed
<1>5. WritersOK /\ DeletedOK /\ MovedOK
  BY <1>1, <1>2 DEF WritersOK, DeletedOK, MovedOK
<1>6. CompletedOK /\ LossOnlyByReopening
  BY <1>1, <1>2 DEF CompletedOK, Completed, LossOnlyByReopening, NothingIsLost
<1>7. BackupOK
  BY <1>1, NoBackupFacts DEF BackupOK
<1> QED
  BY <1>3, <1>4, <1>5, <1>6, <1>7 DEF SInv, Base, Quiet

\* Every step of storage keeps it.
LEMMA StorageNext == ASSUME SInv, [BNext]_storageVars PROVE SInv'
<1>1. CASE UNCHANGED storageVars
  <2>1. UNCHANGED <<astoreVars, status, updated_at, ledger, plan, quarantine, exec, audit,
                    reopened>> /\ crashes' = crashes /\ backup' = backup
    BY <1>1 DEF storageVars, retentionVars, backupVars
  <2>2. Base' /\ (Quiesced => Quiet')
    BY <2>1, BackupFrame
  <2>3. BackupOK'
    BY <2>1 DEF SInv, BackupOK, Touched, TargetJobs
  <2> QED BY <2>2, <2>3 DEF SInv
<1>2. CASE BNext
  BY <1>2, RetentionKeeps, BackupKeeps DEF BNext
<1> QED
  BY <1>1, <1>2

\* The inductive invariant of writers, planners, executions and backups, however they
\* interleave and wherever they are killed.
THEOREM StorageInvariance == StorageSpec => []SInv
<1>1. BInit => SInv
  BY StorageInit
<1>2. SInv /\ [BNext]_storageVars => SInv'
  BY StorageNext
<1> QED
  BY <1>1, <1>2, PTL DEF StorageSpec

\* With the writers stopped, the one way to lose a file is to execute a plan again
\* over the quarantine of its own killed execution (execute_retention_plan).
THEOREM FilesLostOnlyByReopening ==
    ASSUME Quiesced = TRUE
    PROVE  StorageSpec => []LossOnlyByReopening
<1>1. SInv => LossOnlyByReopening
  BY DEF SInv, Quiet
<1> QED
  BY <1>1, StorageInvariance, PTL

\* With the writers stopped, a RETENTION_COMPLETED receipt is the truth, whatever was
\* executed, killed and planned before and after it (execute_retention_plan).
THEOREM CompletionIsTrue ==
    ASSUME Quiesced = TRUE
    PROVE  StorageSpec => []CompletedMeansErased
<1>1. SInv => CompletedMeansErased
  <2> SUFFICES ASSUME SInv, NEW p \in Plans, Completed(p)
               PROVE  /\ \A j \in TargetJobs(p) :
                          status[j] = "DELETED" /\ BindingsOf(j) = {} /\ ledger[j] = 0
                      /\ \A j \in TargetJobs(p), q \in Plans :
                          quarantine[q].ledgers[j] > 0 => q # p /\ exec.plan # q /\ crashes > 0
                      /\ quarantine[p].blobs = {}
    BY DEF CompletedMeansErased, Completed
  <2>1. TargetJobs(p) \subseteq Jobs
    BY PlanFacts DEF SInv, Base
  <2>2. /\ quarantine[p].blobs = {} /\ \A j \in Jobs : quarantine[p].ledgers[j] = 0
        /\ \A j \in TargetJobs(p) : status[j] = "DELETED" /\ j \notin exec.ledgers
    BY DEF SInv, Quiet, CompletedOK
  <2>3. \A j \in TargetJobs(p) : BindingsOf(j) = {} /\ ledger[j] = 0
    BY <2>1, <2>2 DEF SInv, Quiet, DeletedOK
  <2>4. ASSUME NEW j \in TargetJobs(p), NEW q \in Plans, quarantine[q].ledgers[j] > 0
        PROVE  q # p /\ exec.plan # q /\ crashes > 0
    <3>1. j \in Jobs /\ q # p
      BY <2>1, <2>2, <2>4
    <3>2. exec.plan # q
      <4> SUFFICES ASSUME exec.plan = q PROVE FALSE
        OBVIOUS
      <4>1. exec \in ExecRec /\ exec.pc # "idle" /\ exec.pc # "receipt"
        BY <2>4, <3>1, PlanAssumption DEF SInv, Base, SType, ExecOK, QuarantineOK
      <4>2. j \in exec.ledgers
        BY <2>4, <3>1, <4>1 DEF SInv, Base, ExecOK, ExecRec
      <4> QED BY <2>2, <4>2
    <3> QED BY <2>4, <3>1, <3>2 DEF SInv, Quiet, CompletedOK
  <2> QED BY <2>2, <2>3, <2>4
<1> QED
  BY <1>1, StorageInvariance, PTL

\* Whether or not the writers are stopped, a job is deleted only with the artifacts and
\* the ledger that were reviewed: the transaction locks what it compared.
THEOREM DeletionAsReviewed == StorageSpec => DeletedAsReviewed
<1> DEFINE vars == <<astoreVars, retentionVars>>
           A == \A j \in Jobs : status[j] # "DELETED" /\ status'[j] = "DELETED" =>
                    \E t \in plan[exec.plan].targets :
                        /\ t.job = j /\ status[j] = "TERMINAL"
                        /\ BindingsOf(j) = t.bindings
                        /\ quarantine[exec.plan].ledgers[j] = t.events
<1>1. SInv /\ [BNext]_storageVars => [A]_vars
  <2> SUFFICES ASSUME SInv, [BNext]_storageVars,
                      NEW j \in Jobs, status[j] # "DELETED", status'[j] = "DELETED"
               PROVE  \E t \in plan[exec.plan].targets :
                          /\ t.job = j /\ status[j] = "TERMINAL"
                          /\ BindingsOf(j) = t.bindings
                          /\ quarantine[exec.plan].ledgers[j] = t.events
    OBVIOUS
  <2>1. status' # status
    OBVIOUS
  <2>2. BNext /\ RetentionStep
    <3>1. ~UNCHANGED storageVars /\ ~UNCHANGED retentionVars
      BY <2>1 DEF storageVars, retentionVars
    <3> QED BY <2>1, <3>1 DEF BNext, SnapshotJobs, SnapshotRows, CopyBlob, ListLedgers, Publish,
               CopyLedger, RestoreBackup, KillBackup, Stage
  <2>3. DeleteRows
    <3>1. \A i \in Jobs : ~EndJob(i)
      BY DEF EndJob, SInv, Base, SType
    <3> QED BY <2>1, <2>2, <3>1 DEF RetentionStep, Put, KillWriter, Append, PlanRead, PlanBlobs,
               PlanTarget, SetPlan, Execute, ExecuteAgain, MoveLedger, MoveBlob, Purge, Receipt,
               Restore, KillExecution, retentionVars
  <2>4. exec.pc = "moving" /\ j \in exec.ledgers
    BY <2>3 DEF DeleteRows, LedgersMoved
  <2>5. Reviewed(j)
    BY <2>4 DEF SInv, Base, ExecOK
  <2> QED BY <2>5 DEF Reviewed
<1> HIDE DEF A
<1>2. StorageSpec => [][A]_vars
  BY <1>1, StorageInvariance, PTL DEF StorageSpec
<1> QED
  BY <1>2 DEF DeletedAsReviewed, A

\* A published backup is a restore point although it takes no lock: its index finds
\* every blob, and the ledger of a job in it is not older than the job's row, unless a
\* retention plan for that very job was being executed (create_backup).
THEOREM BackupIsRestorePoint == StorageSpec => RestorePoint
<1> DEFINE A == backup.pc # "done" /\ backup'.pc = "done" =>
                    /\ \A r \in backup'.rows : r.digest \in backup'.blobs
                    /\ \A j \in backup'.jobs :
                        ~Touched(j) => backup'.ledgers[j] >= backup.since[j]
<1>1. SInv /\ [BNext]_storageVars => [A]_storageVars
  <2> SUFFICES ASSUME SInv, [BNext]_storageVars, backup.pc # "done", backup'.pc = "done"
               PROVE  /\ \A r \in backup'.rows : r.digest \in backup'.blobs
                      /\ \A j \in backup'.jobs :
                          ~Touched(j) => backup'.ledgers[j] >= backup.since[j]
    OBVIOUS
  <2>1. backup \in BackupRec /\ NoBackup.pc = "none"
    BY NoBackupFacts DEF SInv, BackupOK
  <2>2. Publish
    <3>1. backup' # backup
      OBVIOUS
    <3>2. ~UNCHANGED storageVars /\ ~UNCHANGED backupVars /\ ~Stage(NoBackup) /\ ~KillBackup
      BY <2>1, <3>1 DEF storageVars, backupVars, Stage, KillBackup
    <3>3. ~SnapshotJobs
      BY DEF SnapshotJobs, Stage, NoBackup
    <3>4. ~SnapshotRows /\ ~ListLedgers
      BY <2>1 DEF SnapshotRows, ListLedgers, Stage, BackupRec
    <3>5. ~CopyBlob
      BY <2>1, <3>2 DEF CopyBlob, Stage, BackupRec
    <3>6. \A j \in Jobs : ~CopyLedger(j)
      BY <2>1, <3>2 DEF CopyLedger, Stage, BackupRec
    <3>7. ~RestoreBackup
      BY <3>1 DEF RestoreBackup
    <3> QED BY <3>2, <3>3, <3>4, <3>5, <3>6, <3>7 DEF BNext
  <2>3. /\ backup.pc = "ledgers" /\ backup.found = {} /\ Verified
        /\ backup'.rows = backup.rows /\ backup'.blobs = backup.blobs
        /\ backup'.jobs = backup.jobs /\ backup'.ledgers = backup.ledgers
    BY <2>1, <2>2 DEF Publish, Stage, BackupRec
  <2> QED BY <2>3 DEF SInv, BackupOK, Verified
<1> HIDE DEF A
<1>2. StorageSpec => [][A]_storageVars
  BY <1>1, StorageInvariance, PTL DEF StorageSpec
<1> QED
  BY <1>2 DEF RestorePoint, A
=============================================================================
