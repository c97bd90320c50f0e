--------------------------- MODULE OrderedRunner ---------------------------
(***************************************************************************)
(* The ordered multi-task run of src/src/evaluation/ordered_runner.py,     *)
(* which composes the policy store, run_task, the external credit          *)
(* evaluator (src/src/evaluation/credit.py) and the dispatch of policy     *)
(* events into the policy ledger (src/src/learning/audit.py).  For every   *)
(* task in order: choose a memory intervention or read the bound one, bind *)
(* it, run the task, record applications and outcomes, propose strategies, *)
(* flush the outbox, link the task's ledger to the policy ledger.  A       *)
(* process that is killed or raises is started again and runs the whole    *)
(* list from the first task; two processes may run the same list.          *)
(***************************************************************************)
EXTENDS PolicyStore, BaselineRunner

CONSTANTS
    MemoryModes,         \* "uncredited_replay", "delayed_external_credit"
    ExplorationPeriod

\* The run is a finite list of tasks.
ASSUME TaskAssumption ==
    Tasks = Places /\ IsFiniteSet(Tasks) /\ Tasks \subseteq Nat /\ 1 \in Tasks
ASSUME PeriodAssumption == ExplorationPeriod \in Nat \ {0}

VARIABLES
    memory,              \* method.memory
    policy_ledger

ovars == <<pvars, bvars, memory, policy_ledger>>

OInit ==
    /\ PInit /\ BaseInit
    /\ memory \in MemoryModes
    /\ policy_ledger = EmptyLedger

\* _select.  A place is numbered from 1, sequence_index from 0.
Explore(place) == (place - 1) % ExplorationPeriod = 0

Selections(place) ==
    LET active == recall_active(Family[place])
        candidate == recall_candidate_for_evaluation(Family[place])
        choices == IF candidate # {} /\ (active = {} \/ Explore(place))
                   THEN candidate ELSE active
    IN  IF memory = "uncredited_replay" THEN {recall_uncredited(Family[place])}
        ELSE IF choices = {} THEN {{}} ELSE {{s} : s \in choices}

\* Mutant: the bound intervention is not read first.
SelectAfresh(p) ==
    /\ At(p, "select")
    /\ \E chosen \in Selections(proc[p].task) :
        proc' = [proc EXCEPT ![p].selected = chosen, ![p].pc = "bind"]
    /\ UNCHANGED <<pvars, job, reserved, artifacts, answers, task_ledger, faults,
                   memory, policy_ledger>>

Select(p) ==
    /\ At(p, "select")
    /\ \E chosen \in IF interventions[proc[p].task] # Unbound
                     THEN {interventions[proc[p].task]} ELSE Selections(proc[p].task) :
        proc' = [proc EXCEPT ![p].selected = chosen, ![p].pc = "bind"]
    /\ UNCHANGED <<pvars, job, reserved, artifacts, answers, task_ledger, faults,
                   memory, policy_ledger>>

\* Mutant: a place without memory is not bound.
BindNonEmpty(p) ==
    /\ At(p, "bind")
    /\ \/ bind_sequence_intervention(proc[p].task, proc[p].selected)
       \/ proc[p].selected = {} /\ UNCHANGED pvars
    /\ Goto(p, "create")
    /\ UNCHANGED <<job, reserved, artifacts, answers, task_ledger, faults, memory,
                   policy_ledger>>

\* Another intervention at the place is a CreditConflict.
Bind(p) ==
    LET bound == interventions[proc[p].task]
    IN  /\ At(p, "bind")
        /\ \/ /\ bind_sequence_intervention(proc[p].task, proc[p].selected)
              /\ Goto(p, "create")
           \/ /\ bound # Unbound
              /\ IF bound = proc[p].selected THEN Goto(p, "create") ELSE Stop(p)
              /\ UNCHANGED pvars
        /\ UNCHANGED <<job, reserved, artifacts, answers, task_ledger, faults, memory,
                       policy_ledger>>

Task(p) == RunTask(p) /\ UNCHANGED <<pvars, memory, policy_ledger>>

-----------------------------------------------------------------------------
(***************************************************************************)
(* After the task: applications, credit, proposals.                        *)
(***************************************************************************)

\* The plan of the task carries the memory marker.
Applied(p) ==
    /\ proc[p].selected # {}
    /\ artifacts[proc[p].task]["plan"] \notin {NoValue, {}}

Unapplied(p) ==
    {s \in proc[p].selected : Applied(p) /\ <<proc[p].task, s>> \notin applications}

\* Only the task's process moves; bvars but proc stay.
Rest == UNCHANGED <<job, reserved, artifacts, answers, task_ledger, faults, memory,
                    policy_ledger>>

Apply(p) ==
    /\ At(p, "apply")
    /\ \/ \E s \in Unapplied(p) : record_application(proc[p].task, s) /\ UNCHANGED proc
       \/ /\ Unapplied(p) = {}
          /\ Goto(p, IF memory = "delayed_external_credit" /\ Applied(p)
                     THEN "credit" ELSE "propose")
          /\ UNCHANGED pvars
    /\ Rest

Completed(t) == job[t].status = "SUCCEEDED"

\* Mutant: an outcome is taken from the model's own word.
evaluate_self(t) == TRUE

\* The evaluator compares the committed prediction with the sealed answer.
evaluate(t) == Completed(t) /\ answers[t].good

Uncredited(p) ==
    {s \in proc[p].selected : ~application_has_outcome(proc[p].task, s)}

Credit(p) ==
    /\ At(p, "credit")
    /\ \/ /\ \E s \in Uncredited(p) : record_outcome(proc[p].task, s, evaluate(proc[p].task))
          /\ UNCHANGED proc
       \/ Uncredited(p) = {} /\ Goto(p, "refresh") /\ UNCHANGED pvars
    /\ Rest

Refresh(p) ==
    /\ At(p, "refresh")
    /\ refresh_statuses
    /\ Goto(p, "propose")
    /\ Rest

\* Strategies of a completed task's decision that are not stored yet.
Unproposed(p) ==
    {s \in Strategies : /\ Completed(proc[p].task)
                        /\ s \in answers[proc[p].task].candidates
                        /\ ~Stored(s)}

Propose(p) ==
    /\ At(p, "propose")
    /\ \/ \E s \in Unproposed(p) : propose_strategy(s, proc[p].task) /\ UNCHANGED proc
       \/ Unproposed(p) = {} /\ Goto(p, "flush") /\ UNCHANGED pvars
    /\ Rest

-----------------------------------------------------------------------------
(***************************************************************************)
(* PolicyAuditBridge.flush and the link in the task's ledger.              *)
(***************************************************************************)

\* A batch of pending events is read; none is left: the flush is over.
Flush(p) ==
    /\ At(p, "flush")
    /\ proc' = [proc EXCEPT ![p].batch = pending_events,
                            ![p].pc = IF pending_events = {} THEN "link" ELSE "append"]
    /\ UNCHANGED pvars
    /\ Rest

First(p) == CHOOSE n \in proc[p].batch : \A m \in proc[p].batch : n <= m
PolicyEvent(p) == Event(outbox[First(p)].key, "policy")

Dispatch(p) ==
    /\ At(p, "append")
    /\ IF Loads(policy_ledger)
       THEN policy_ledger' = Appended(policy_ledger, PolicyEvent(p)) /\ Goto(p, "mark")
       ELSE Stop(p) /\ UNCHANGED policy_ledger
    /\ UNCHANGED <<pvars, job, reserved, artifacts, answers, task_ledger, faults, memory>>

Acknowledge(p) ==
    /\ At(p, "mark")
    /\ mark_dispatched(First(p))
    /\ proc' = [proc EXCEPT ![p].batch = @ \ {First(p)},
                            ![p].pc = IF proc[p].batch = {First(p)} THEN "link" ELSE "append"]
    /\ Rest

LinkEvent(p) == Event(<<"linked">>, proc[p].head)

\* The state of a process that is through with a task.
Advanced(p) ==
    IF proc[p].task + 1 \in Tasks THEN [Start EXCEPT !.task = proc[p].task + 1]
                                  ELSE [Start EXCEPT !.pc = "done"]

\* The receipts of both ledgers; a link that is there stays.
Link(p) ==
    LET ledger == task_ledger[proc[p].task]
    IN  /\ At(p, "link")
        /\ IF ~Loads(policy_ledger) \/ ~Loads(ledger) THEN Stop(p)
           ELSE proc' = [proc EXCEPT ![p] =
                           IF WithKey(ledger, <<"linked">>) # {} THEN Advanced(p)
                           ELSE [@ EXCEPT !.head = Len(policy_ledger.events),
                                          !.pc = "linking"]]
        /\ UNCHANGED pvars
        /\ Rest

AppendLink(p) ==
    LET t == proc[p].task
    IN  /\ At(p, "linking")
        /\ IF Loads(task_ledger[t]) /\ ~Conflicts(task_ledger[t], LinkEvent(p))
           THEN /\ task_ledger' = [task_ledger EXCEPT ![t] = Appended(@, LinkEvent(p))]
                /\ proc' = [proc EXCEPT ![p] = Advanced(p)]
           ELSE Stop(p) /\ UNCHANGED task_ledger
        /\ UNCHANGED <<pvars, job, reserved, artifacts, answers, faults, memory,
                       policy_ledger>>

\* The process is killed.  Inside a write of a ledger the line may be torn.
Kill(p) ==
    LET t == proc[p].task
    IN  /\ Fault
        /\ ~At(p, "done")
        /\ Stop(p)
        /\ policy_ledger' \in IF At(p, "append") THEN Torn(policy_ledger, PolicyEvent(p))
                              ELSE {policy_ledger}
        /\ \E ledger \in CASE At(p, "commit")  -> Torn(task_ledger[t], Commitment(t))
                           [] At(p, "linking") -> Torn(task_ledger[t], LinkEvent(p))
                           [] OTHER            -> {task_ledger[t]} :
            task_ledger' = [task_ledger EXCEPT ![t] = ledger]
        /\ UNCHANGED <<pvars, job, reserved, artifacts, answers, memory>>

Step(p) ==
    \/ Select(p) \/ Bind(p) \/ Task(p) \/ Apply(p) \/ Credit(p) \/ Refresh(p) \/ Propose(p)
    \/ Flush(p) \/ Dispatch(p) \/ Acknowledge(p) \/ Link(p) \/ AppendLink(p)

ONext ==
    \/ \E p \in Procs : Step(p) \/ Kill(p)
    \/ \E t \in Tasks : Cancel(t) /\ UNCHANGED <<pvars, memory, policy_ledger>>

OSpec == OInit /\ [][ONext]_ovars /\ \A p \in Procs : WF_ovars(Step(p))

-----------------------------------------------------------------------------
(***************************************************************************)
(* Properties.                                                             *)
(***************************************************************************)

\* "Dispatch is at-least-once; the destination ledger's idempotency keys
\* reduce that to exactly one durable event": whatever processes were killed
\* between append and acknowledgement, a policy ledger that verifies holds no
\* event twice and every event that is no longer pending.  A write that was
\* torn shows as a ledger that does not verify, never as a lost event.
ExactlyOneDurableEvent ==
    Loads(policy_ledger) =>
        /\ NoDuplicates(policy_ledger)
        /\ \A n \in 1 .. Len(outbox) :
            outbox[n].dispatched => WithKey(policy_ledger, outbox[n].key) # {}

\* What a task's plan was given is what is bound to its place, although the
\* recall gives other strategies when a run is resumed or runs twice: the
\* outcome is attributed to the strategies that were really used.
PlanUsesBoundMemory ==
    /\ \A t \in Tasks : artifacts[t]["plan"] \in {NoValue, interventions[t]}
    /\ \A a \in applications : a[2] \in interventions[a[1]]

\* "A candidate strategy cannot be recalled until it has enough outcomes from
\* task families different from the task that produced it": an ACTIVE strategy
\* was bound to the tasks it is credited with, all of other families, and
\* enough of them earned the status by the sealed answers, not by the model's
\* word, each counted once however often the run was resumed.
ActiveIsEarned ==
    \A s \in Strategies : strategies[s].status = "ACTIVE" =>
        LET evaluated == {t \in Tasks : application_has_outcome(t, s)}
            Won(tasks) == {t \in tasks : Completed(t) /\ answers[t].good}
        IN  /\ \A t \in evaluated : s \in interventions[t] /\ Family[t] # SourceFamily(s)
            /\ \E tasks \in SUBSET evaluated :
                /\ Cardinality(tasks) >= MinEvaluations
                /\ Wilson[<<Cardinality(Won(tasks)), Cardinality(tasks)>>] >= Activation

\* A task has one committed outcome, the one of its job, and a completed one
\* reports every paid call the job reserved, each counted once however often
\* its stage was run again.
OneCommittedOutcome ==
    \A t \in Tasks : \A n \in 1 .. Len(task_ledger[t].events) :
        LET event == task_ledger[t].events[n]
        IN  /\ event.key[1] = "outcome" => event.key[2] = Outcome(t)
            /\ event.key = <<"outcome", "completed">> =>
                event.content = Cardinality(UNION {Calls(s) : s \in PLAN .. SYNTHESIZE})

\* A line that a crash has torn.
Damaged == \E l \in {policy_ledger} \cup {task_ledger[t] : t \in Tasks} : l.tail # "line"

\* Every run ends, whatever is killed and in which order two runs interleave,
\* unless a job is cancelled or a crash tears a ledger's line.
RunFinishes ==
    <>(\/ \A p \in Procs : At(p, "done")
       \/ \E t \in Tasks : job[t].status = "CANCELLED"
       \/ Damaged)
=============================================================================
