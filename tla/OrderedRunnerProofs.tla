------------------------ MODULE OrderedRunnerProofs ------------------------
(***************************************************************************)
(* Proofs about ordered evaluation runs, for any processes, tasks,         *)
(* strategies, answers and thresholds.  The inductive invariant has four   *)
(* parts besides the types: what the flush of the outbox holds (AuditOK),  *)
(* what a task may have been given (MemoryOK), who may move a job and what *)
(* its stages left behind (JobOK), and what a status was earned with       *)
(* (CreditOK).                                                             *)
(***************************************************************************)
EXTENDS OrderedRunner, FiniteSetTheorems, TLAPS

-----------------------------------------------------------------------------
(***************************************************************************)
(* The inductive invariant.                                                *)
(***************************************************************************)
Statuses == {"NONE", "CANDIDATE", "ACTIVE", "SUSPENDED"}
StrategyRec == [status : Statuses, source : Tasks, created : Nat]

JobStatuses == {"NONE", "QUEUED", "RUNNING", "RETRY_WAIT", "SUCCEEDED", "FAILED", "CANCELLED"}
Terminal == {"SUCCEEDED", "FAILED", "CANCELLED"}
ErrorCodes ==
    {"none", "BUDGET_EXCEEDED", "UNHANDLED_STAGE_ERROR", "RETRYABLE_STAGE_ERROR"}
Stages == {PLAN, RETRIEVE, READ, CHALLENGE, DECIDE, SYNTHESIZE, VALIDATE}
JobRec == [status : JobStatuses, stage : Stages, attempts : Nat,
           owner : Procs \cup {NoProc}, error : ErrorCodes]

InTaskPCs == {"stage", "handle", "checkpoint", "finalize"}
AfterTaskPCs == {"apply", "credit", "refresh", "propose", "flush", "append", "mark",
                 "link", "linking"}
BoundPCs == {"create", "claim", "report", "commit"} \cup InTaskPCs \cup AfterTaskPCs
PCs == {"select", "bind", "done"} \cup BoundPCs
ProcRec == [pc : PCs, task : Tasks, selected : SUBSET Strategies, code : ErrorCodes,
            batch : SUBSET Nat, head : Nat]

\* A sequence, whatever its elements are.
IsSequence(s) == Len(s) \in Nat /\ s = [n \in 1 .. Len(s) |-> s[n]]

LedgerOK(l) ==
    /\ l = [events |-> l.events, tail |-> l.tail]
    /\ IsSequence(l.events)
    /\ l.tail \in {"line", "open", "garbage"}
    /\ NoDuplicates(l)

OutboxOK(box) ==
    /\ IsSequence(box)
    /\ \A n \in 1 .. Len(box) :
        /\ box[n] = [key |-> box[n].key, dispatched |-> box[n].dispatched]
        /\ box[n].dispatched \in BOOLEAN

AllCalls == UNION {Calls(s) : s \in PLAN .. SYNTHESIZE}

StoreType ==
    /\ strategies \in [Strategies -> StrategyRec]
    /\ applications \subseteq Tasks \X Strategies
    /\ outcomes \subseteq Tasks \X Strategies \X BOOLEAN
    /\ interventions \in [Tasks -> {Unbound} \cup SUBSET Strategies]
    /\ OutboxOK(outbox)

RunType ==
    /\ job \in [Tasks -> JobRec]
    /\ reserved \in [Tasks -> SUBSET AllCalls]
    /\ artifacts = [t \in Tasks |-> [k \in Keys |-> artifacts[t][k]]]
    /\ answers \in [Tasks -> Answers \cup {NoValue}]
    /\ task_ledger = [t \in Tasks |-> task_ledger[t]]
    /\ \A t \in Tasks : LedgerOK(task_ledger[t])
    /\ proc \in [Procs -> ProcRec]
    /\ LedgerOK(policy_ledger)

\* What was acknowledged is in the ledger, unless a torn line spoils it.
AuditBox ==
    \A n \in 1 .. Len(outbox) : outbox[n].dispatched /\ Loads(policy_ledger) =>
        WithKey(policy_ledger, outbox[n].key) # {}

\* A process that is about to acknowledge an event has appended it.
AuditProc(p) ==
    /\ proc[p].batch \subseteq 1 .. Len(outbox)
    /\ proc[p].pc \in {"append", "mark"} => proc[p].batch # {}
    /\ proc[p].pc = "mark" /\ Loads(policy_ledger) =>
        WithKey(policy_ledger, outbox[First(p)].key) # {}

AuditOK == AuditBox /\ \A p \in Procs : AuditProc(p)

\* A strategy that a task may be given.
Foreign(s, t) == Stored(s) /\ SourceFamily(s) # Family[t]

\* Behind the binding a process works with what is bound.
MemoryProc(p) ==
    /\ proc[p].pc \in BoundPCs =>
        /\ proc[p].selected = interventions[proc[p].task]
        /\ interventions[proc[p].task] # Unbound
    /\ proc[p].pc = "bind" => \A s \in proc[p].selected : Foreign(s, proc[p].task)

MemoryTask(t) ==
    /\ interventions[t] # Unbound => \A s \in interventions[t] : Foreign(s, t)
    /\ artifacts[t]["plan"] # NoValue =>
        interventions[t] # Unbound /\ artifacts[t]["plan"] = interventions[t]

MemoryOK ==
    /\ \A p \in Procs : MemoryProc(p)
    /\ \A t \in Tasks : MemoryTask(t)
    /\ \A a \in applications : a[2] \in interventions[a[1]]

\* A process inside a task owns its job, unless the job was cancelled, and
\* knows what the stage it is in has left behind.
JobProc(p) ==
    LET t == proc[p].task
    IN  /\ proc[p].pc \in InTaskPCs =>
            \/ job[t].status = "CANCELLED"
            \/ job[t].status = "RUNNING" /\ job[t].owner = p
        /\ proc[p].pc = "stage" => job[t].stage # VALIDATE
        /\ proc[p].pc \in {"handle", "checkpoint"} => job[t].stage \notin {READ, VALIDATE}
        /\ proc[p].pc = "checkpoint" => Calls(job[t].stage) \subseteq reserved[t]
        /\ proc[p].pc = "checkpoint" /\ job[t].stage = DECIDE => answers[t] # NoValue
        /\ proc[p].pc = "finalize" => job[t].stage = VALIDATE
        /\ proc[p].pc \in {"commit"} \cup AfterTaskPCs => job[t].status \in Terminal
        /\ proc[p].pc = "commit" /\ job[t].status = "SUCCEEDED" =>
            artifacts[t]["prediction"] # NoValue

\* The stages that are committed have reserved their calls and decided.
JobTask(t) ==
    /\ \A s \in Stages : s < job[t].stage => Calls(s) \subseteq reserved[t]
    /\ job[t].stage \in {SYNTHESIZE, VALIDATE} => answers[t] # NoValue
    /\ job[t].status = "SUCCEEDED" => job[t].stage = VALIDATE
    /\ artifacts[t]["prediction"] \in {NoValue, Cardinality(AllCalls)}

\* Only a job that has ended has an outcome in its ledger.
OutcomeOf(t, event) ==
    /\ event.key[1] = "outcome" => job[t].status \in Terminal /\ event.key[2] = Outcome(t)
    /\ event.key = <<"outcome", "completed">> => event.content = Cardinality(AllCalls)

LedgerTask(t) ==
    \A n \in 1 .. Len(task_ledger[t].events) : OutcomeOf(t, task_ledger[t].events[n])

JobOK ==
    /\ \A p \in Procs : JobProc(p)
    /\ \A t \in Tasks : JobTask(t) /\ LedgerTask(t)

\* An outcome is the verdict on a job that has ended.
OutcomesOK ==
    \A o \in outcomes :
        /\ <<o[1], o[2]>> \in applications
        /\ job[o[1]].status \in Terminal
        /\ o[3] = evaluate(o[1])

\* Enough of the tasks that s is credited with earned it the status.
Earned(s) ==
    \E tasks \in SUBSET {t \in Tasks : application_has_outcome(t, s)} :
        /\ Cardinality(tasks) >= MinEvaluations
        /\ Wilson[<<Cardinality({t \in tasks : Completed(t) /\ answers[t].good}),
                    Cardinality(tasks)>>] >= Activation

CreditOK ==
    /\ OutcomesOK
    /\ \A s \in Strategies : strategies[s].status = "ACTIVE" => Earned(s)

\* The inductive invariant.
OInv == StoreType /\ RunType /\ AuditOK /\ MemoryOK /\ JobOK /\ CreditOK

-----------------------------------------------------------------------------
(***************************************************************************)
(* Sequences, ledgers and the outbox.                                      *)
(***************************************************************************)

LEMMA SeqIsSequence ==
  ASSUME NEW S, NEW s \in Seq(S)
  PROVE  IsSequence(s)
<1>1. Len(s) \in Nat /\ s \in [1 .. Len(s) -> S]
  OBVIOUS
<1>2. s = [n \in 1 .. Len(s) |-> s[n]]
  BY <1>1
<1> QED BY <1>1, <1>2 DEF IsSequence

\* Append, for a sequence of anything.
LEMMA AppendFacts ==
  ASSUME NEW s, IsSequence(s), NEW e
  PROVE  /\ IsSequence(Append(s, e))
         /\ Len(Append(s, e)) = Len(s) + 1
         /\ \A n \in 1 .. Len(s) : Append(s, e)[n] = s[n]
         /\ Append(s, e)[Len(s) + 1] = e
<1> DEFINE S == {s[n] : n \in 1 .. Len(s)} \cup {e}
<1>1. Len(s) \in Nat /\ s = [n \in 1 .. Len(s) |-> s[n]]
  BY DEF IsSequence
<1>2. \A n \in 1 .. Len(s) : s[n] \in S
  OBVIOUS
<1>3. s \in [1 .. Len(s) -> S]
  BY <1>1, <1>2
<1>4. s \in Seq(S) /\ e \in S
  BY <1>1, <1>3
<1> HIDE DEF S
<1>5. /\ Append(s, e) \in Seq(S)
      /\ Len(Append(s, e)) = Len(s) + 1
      /\ \A n \in 1 .. Len(s) : Append(s, e)[n] = s[n]
      /\ Append(s, e)[Len(s) + 1] = e
  BY <1>4
<1>6. IsSequence(Append(s, e))
  BY <1>5, SeqIsSequence
<1> QED BY <1>5, <1>6

LEMMA SequenceIn ==
  ASSUME NEW s, IsSequence(s), NEW S, \A n \in 1 .. Len(s) : s[n] \in S
  PROVE  s \in Seq(S)
<1>1. Len(s) \in Nat /\ s = [n \in 1 .. Len(s) |-> s[n]]
  BY DEF IsSequence
<1>2. s \in [1 .. Len(s) -> S]
  BY <1>1
<1> QED BY <1>1, <1>2

\* new is s followed by r.
Joined(s, r, new) ==
    /\ Len(new) = Len(s) + Len(r)
    /\ \A n \in 1 .. Len(s) : new[n] = s[n]
    /\ \A n \in 1 .. Len(r) : new[Len(s) + n] = r[n]

LEMMA ConcatIn ==
  ASSUME NEW S, NEW s \in Seq(S), NEW r \in Seq(S)
  PROVE  s \o r \in Seq(S) /\ Joined(s, r, s \o r)
BY DEF Joined

\* Concatenation, for sequences of anything.
LEMMA ConcatFacts ==
  ASSUME NEW s, IsSequence(s), NEW r, IsSequence(r)
  PROVE  IsSequence(s \o r) /\ Joined(s, r, s \o r)
<1> DEFINE S == {s[n] : n \in 1 .. Len(s)} \cup {r[n] : n \in 1 .. Len(r)}
<1>1. /\ \A n \in 1 .. Len(s) : s[n] \in S
      /\ \A n \in 1 .. Len(r) : r[n] \in S
  OBVIOUS
<1> HIDE DEF S
<1>2. s \in Seq(S) /\ r \in Seq(S)
  BY <1>1, SequenceIn, Zenon
<1>3. s \o r \in Seq(S) /\ Joined(s, r, s \o r)
  BY <1>2, ConcatIn, Zenon
<1>4. IsSequence(s \o r)
  BY <1>3, SeqIsSequence, Zenon
<1> QED BY <1>3, <1>4

\* m is what the ledger l becomes when e is appended, whatever of it arrives.
Extends(l, m, e) ==
    /\ LedgerOK(m)
    /\ \A n \in 1 .. Len(l.events) :
        n \in 1 .. Len(m.events) /\ m.events[n] = l.events[n]
    /\ \A n \in 1 .. Len(m.events) :
        m.events[n] = e \/ n \in 1 .. Len(l.events)
    /\ Loads(m) => Loads(l)

\* An event that is not there is written at the end.
LEMMA NewLine ==
  ASSUME NEW l, LedgerOK(l), NEW e, WithKey(l, e.key) = {}, l.tail = "line",
         NEW tail \in {"line", "open"}
  PROVE  LET m == [events |-> Append(l.events, e), tail |-> tail]
         IN  Extends(l, m, e) /\ WithKey(m, e.key) # {}
<1> DEFINE m == [events |-> Append(l.events, e), tail |-> tail]
           k == Len(l.events)
<1>1. IsSequence(l.events) /\ k \in Nat
  BY DEF LedgerOK, IsSequence
<1>2. /\ IsSequence(m.events) /\ Len(m.events) = k + 1
      /\ \A n \in 1 .. k : m.events[n] = l.events[n]
      /\ m.events[k + 1] = e
  BY <1>1, AppendFacts
<1>3. \A n \in 1 .. k : l.events[n].key # e.key
  BY DEF WithKey
<1>4. \A i, n \in 1 .. k : l.events[i].key = l.events[n].key => i = n
  BY DEF LedgerOK, NoDuplicates
<1>5. m = [events |-> m.events, tail |-> m.tail] /\ m.tail = tail
  OBVIOUS
<1> HIDE DEF m
<1>6. \A n \in 1 .. (k + 1) : n \in 1 .. k \/ n = k + 1
  BY <1>1
<1>7. NoDuplicates(m)
  BY <1>1, <1>2, <1>3, <1>4, <1>6 DEF NoDuplicates
<1>8. LedgerOK(m)
  BY <1>2, <1>5, <1>7 DEF LedgerOK
<1>9. Extends(l, m, e)
  BY <1>1, <1>2, <1>5, <1>6, <1>8 DEF Extends, Loads
<1>10. k + 1 \in WithKey(m, e.key)
  BY <1>1, <1>2 DEF WithKey
<1> QED BY <1>9, <1>10 DEF m

\* A line that is spoilt keeps the events before it.
LEMMA Spoilt ==
  ASSUME NEW l, LedgerOK(l), NEW e
  PROVE  LET m == [l EXCEPT !.tail = "garbage"]
         IN  Extends(l, m, e) /\ ~Loads(m)
<1> DEFINE m == [l EXCEPT !.tail = "garbage"]
<1>1. l = [events |-> l.events, tail |-> l.tail]
  BY DEF LedgerOK
<1>2. m.events = l.events /\ m.tail = "garbage" /\ m = [events |-> m.events, tail |-> m.tail]
  BY <1>1
<1> HIDE DEF m
<1>3. LedgerOK(m)
  BY <1>2 DEF LedgerOK, NoDuplicates
<1>4. Extends(l, m, e) /\ ~Loads(m)
  BY <1>2, <1>3 DEF Extends, Loads
<1> QED BY <1>4 DEF m

LEMMA ExtendsSelf ==
  ASSUME NEW l, LedgerOK(l), NEW e
  PROVE  Extends(l, l, e)
BY DEF Extends

\* An append never loses an event, and one that leaves a file a reader
\* accepts leaves the event in it.
LEMMA AppendedFacts ==
  ASSUME NEW l, LedgerOK(l), NEW e
  PROVE  /\ Extends(l, Appended(l, e), e)
         /\ Loads(Appended(l, e)) => WithKey(Appended(l, e), e.key) # {}
<1>1. CASE WithKey(l, e.key) # {}
  BY <1>1, ExtendsSelf DEF Appended
<1>2. CASE WithKey(l, e.key) = {} /\ l.tail = "line"
  <2>1. Appended(l, e) = [events |-> Append(l.events, e), tail |-> "line"]
    BY <1>2 DEF Appended, Written, LedgerOK
  <2> QED BY <1>2, <2>1, NewLine
<1>3. CASE WithKey(l, e.key) = {} /\ l.tail # "line"
  <2>1. Appended(l, e) = [l EXCEPT !.tail = "garbage"]
    BY <1>3 DEF Appended, Written
  <2> QED BY <2>1, Spoilt
<1> QED BY <1>1, <1>2, <1>3

LEMMA TornFacts ==
  ASSUME NEW l, LedgerOK(l), NEW e, NEW m \in Torn(l, e)
  PROVE  Extends(l, m, e)
<1>1. CASE m = l
  BY <1>1, ExtendsSelf
<1>2. CASE m = [l EXCEPT !.tail = "garbage"]
  BY <1>2, Spoilt
<1>3. CASE /\ m = [events |-> Append(l.events, e), tail |-> "open"]
           /\ WithKey(l, e.key) = {} /\ l.tail = "line"
  BY <1>3, NewLine
<1> QED BY <1>1, <1>2, <1>3 DEF Torn

\* An extension keeps the keys that are there.
LEMMA ExtendsKeys ==
  ASSUME NEW l, NEW m, NEW e, Extends(l, m, e), NEW k, WithKey(l, k) # {}
  PROVE  WithKey(m, k) # {}
<1>1. PICK n \in 1 .. Len(l.events) : l.events[n].key = k
  BY DEF WithKey
<1>2. n \in WithKey(m, k)
  BY <1>1 DEF WithKey, Extends
<1> QED BY <1>2

\* A bijection from 1 .. Cardinality(S) exists, so SetToSeq gives a sequence.
LEMMA SetToSeqFacts ==
  ASSUME NEW S, IsFiniteSet(S)
  PROVE  IsSequence(SetToSeq(S))
<1> DEFINE n == Cardinality(S)
           Fits(f) == f \in [1 .. n -> S] /\ \A a, b \in DOMAIN f : f[a] = f[b] => a = b
<1>1. n \in Nat
  BY FS_CardinalityType
<1>2. ExistsBijection(1 .. n, S)
  BY FS_CardinalityType
<1>3. PICK g \in Bijection(1 .. n, S) : TRUE
  BY <1>2 DEF ExistsBijection
<1>4. Fits(g)
  BY <1>3 DEF Bijection, Injection, IsInjective
<1>5. SetToSeq(S) = CHOOSE f \in [1 .. n -> S] : \A a, b \in DOMAIN f : f[a] = f[b] => a = b
  BY DEF SetToSeq, IsInjective
<1>6. SetToSeq(S) \in [1 .. n -> S]
  BY <1>4, <1>5
<1> QED BY <1>1, <1>6 DEF IsSequence

\* new comes out of box when entries are added that are not dispatched.
Lengthens(box, new) ==
    /\ OutboxOK(new)
    /\ \A n \in 1 .. Len(box) : n \in 1 .. Len(new) /\ new[n] = box[n]
    /\ \A n \in 1 .. Len(new) : n \in 1 .. Len(box) \/ ~new[n].dispatched

LEMMA JoinFacts ==
  ASSUME NEW box, OutboxOK(box), NEW r, IsSequence(r),
         \A n \in 1 .. Len(r) : r[n] = [key |-> r[n].key, dispatched |-> FALSE],
         NEW new, new = box \o r
  PROVE  Lengthens(box, new)
<1> DEFINE k == Len(box)
<1>1. k \in Nat /\ Len(r) \in Nat /\ IsSequence(box)
  BY DEF OutboxOK, IsSequence
<1>2. /\ IsSequence(new) /\ Len(new) = k + Len(r)
      /\ \A n \in 1 .. k : new[n] = box[n]
      /\ \A n \in 1 .. Len(r) : new[k + n] = r[n]
  <2>1. IsSequence(new) /\ Joined(box, r, new)
    BY <1>1, ConcatFacts, Zenon
  <2> QED BY <2>1 DEF Joined
<1>3. ASSUME NEW n \in 1 .. Len(new)
      PROVE  \/ n \in 1 .. k /\ new[n] = box[n]
             \/ new[n] = [key |-> new[n].key, dispatched |-> FALSE]
  <2>1. CASE n <= k
    BY <1>1, <1>2, <2>1
  <2>2. CASE n > k
    <3>1. n - k \in 1 .. Len(r) /\ n = k + (n - k)
      BY <1>1, <1>2, <2>2
    <3>2. new[n] = r[n - k]
      BY <1>2, <3>1
    <3> QED BY <3>1, <3>2
  <2> QED BY <1>1, <1>2, <2>1, <2>2
<1>4. ASSUME NEW n \in 1 .. Len(new)
      PROVE  /\ new[n] = [key |-> new[n].key, dispatched |-> new[n].dispatched]
             /\ new[n].dispatched \in BOOLEAN
  <2>1. CASE n \in 1 .. k /\ new[n] = box[n]
    <3>1. /\ box[n] = [key |-> box[n].key, dispatched |-> box[n].dispatched]
          /\ box[n].dispatched \in BOOLEAN
      BY <2>1, Zenon DEF OutboxOK
    <3> QED BY <2>1, <3>1, Zenon
  <2>2. CASE new[n] = [key |-> new[n].key, dispatched |-> FALSE]
    <3>1. new[n].dispatched = FALSE
      BY <2>2
    <3> QED BY <2>2, <3>1, Zenon
  <2> QED BY <1>3, <2>1, <2>2
<1>5. OutboxOK(new)
  BY <1>2, <1>4, Zenon DEF OutboxOK
<1>6. \A n \in 1 .. k : n \in 1 .. Len(new)
  BY <1>1, <1>2
<1>7. ASSUME NEW n \in 1 .. Len(new), ~(n \in 1 .. k)
      PROVE  ~new[n].dispatched
  <2>1. new[n] = [key |-> new[n].key, dispatched |-> FALSE]
    BY <1>3, <1>7, Zenon
  <2>2. new[n].dispatched = FALSE
    BY <2>1
  <2> QED BY <2>2
<1> QED
  BY <1>2, <1>5, <1>6, <1>7, Zenon DEF Lengthens

LEMMA EnqueueFacts ==
  ASSUME OutboxOK(outbox), NEW keys, IsSequence(keys), Enqueue(keys)
  PROVE  Lengthens(outbox, outbox')
<1> DEFINE r == [n \in 1 .. Len(keys) |-> [key |-> keys[n], dispatched |-> FALSE]]
<1>1. Len(keys) \in Nat
  BY DEF IsSequence
<1>2. IsSequence(r) /\ Len(r) = Len(keys)
  BY <1>1 DEF IsSequence
<1>3. \A n \in 1 .. Len(r) : r[n] = [key |-> r[n].key, dispatched |-> FALSE]
  BY <1>2
<1>4. outbox' = outbox \o r
  BY DEF Enqueue
<1> HIDE DEF r
<1> QED BY <1>2, <1>3, <1>4, JoinFacts, Zenon

\* One event.
LEMMA EnqueueOne ==
  ASSUME OutboxOK(outbox), NEW key, Enqueue(<<key>>)
  PROVE  Lengthens(outbox, outbox')
<1>1. IsSequence(<<key>>)
  BY DEF IsSequence
<1> QED BY <1>1, EnqueueFacts

-----------------------------------------------------------------------------
(***************************************************************************)
(* What a step does, field by field.                                       *)
(***************************************************************************)

\* Only p moves.
Only(p) == proc' \in [Procs -> ProcRec] /\ \A q \in Procs : q # p => proc'[q] = proc[q]

SameTask(p) ==
    /\ proc'[p].task = proc[p].task
    /\ proc'[p].selected = proc[p].selected
    /\ proc'[p].batch = proc[p].batch

\* Only the job, the artifacts and the ledger of t change.
OnlyTask(t) ==
    \A u \in Tasks : u # t =>
        /\ job'[u] = job[u]
        /\ reserved'[u] = reserved[u]
        /\ artifacts'[u] = artifacts[u]
        /\ answers'[u] = answers[u]
        /\ task_ledger'[u] = task_ledger[u]

LEMMA StartType == Start \in ProcRec
BY TaskAssumption DEF Start, ProcRec, PCs, ErrorCodes

LEMMA GotoFacts ==
  ASSUME proc \in [Procs -> ProcRec], NEW p \in Procs, NEW pc \in PCs, Goto(p, pc)
  PROVE  Only(p) /\ SameTask(p) /\ proc'[p].pc = pc
<1>1. proc' = [proc EXCEPT ![p] = [proc[p] EXCEPT !.pc = pc]]
  BY DEF Goto
<1>2. proc[p] \in ProcRec /\ [proc[p] EXCEPT !.pc = pc] \in ProcRec
  BY DEF ProcRec
<1>3. Only(p) /\ proc'[p] = [proc[p] EXCEPT !.pc = pc]
  BY <1>1, <1>2 DEF Only
<1> QED BY <1>2, <1>3 DEF SameTask, ProcRec

LEMMA StopFacts ==
  ASSUME proc \in [Procs -> ProcRec], NEW p \in Procs, Stop(p)
  PROVE  Only(p) /\ proc'[p] = Start
BY StartType DEF Stop, Only

\* The row of t is replaced.
JobRow(t) == job' \in [Tasks -> JobRec] /\ \A u \in Tasks : u # t => job'[u] = job[u]

\* _fail moves a running job out of the stages; any other job stays.
LEMMA FailedFacts ==
  ASSUME RunType, NEW p \in Procs, NEW code \in ErrorCodes, NEW retryable \in BOOLEAN,
         Failed(p, code, retryable)
  PROVE  LET t == proc[p].task
         IN  /\ Only(p) /\ SameTask(p) /\ JobRow(t)
             /\ job'[t].stage = job[t].stage
             /\ proc'[p].pc \in {"claim", "report"}
             /\ \/ job[t].status # "RUNNING" /\ job' = job
                \/ job[t].status = "RUNNING" /\ job'[t].status \in {"RETRY_WAIT", "FAILED"}
<1> DEFINE t == proc[p].task
           target == IF retryable /\ job[t].attempts < MaxAttempts
                     THEN "RETRY_WAIT" ELSE "FAILED"
<1>1. t \in Tasks /\ proc[p] \in ProcRec /\ job[t] \in JobRec
  BY DEF RunType, ProcRec
<1>2. target \in {"RETRY_WAIT", "FAILED"}
  OBVIOUS
<1>3. PICK pc \in {"claim", "report"} :
        proc' = [proc EXCEPT ![p] = [proc[p] EXCEPT !.code = code, !.pc = pc]]
  BY DEF Failed
<1>4. [proc[p] EXCEPT !.code = code, !.pc = pc] \in ProcRec
  BY <1>1 DEF ProcRec, PCs, BoundPCs
<1>5. Only(p) /\ proc'[p] = [proc[p] EXCEPT !.code = code, !.pc = pc]
  BY <1>3, <1>4 DEF Only, RunType
<1>6. SameTask(p) /\ proc'[p].pc = pc
  BY <1>1, <1>5 DEF SameTask, ProcRec
<1> HIDE DEF target
<1>7. CASE job[t].status = "RUNNING"
  <2> DEFINE row == [job[t] EXCEPT !.status = target, !.error = code, !.owner = NoProc]
  <2>1. job' = [job EXCEPT ![t] = row]
    BY <1>7 DEF Failed, target
  <2>2. row \in JobRec /\ row.stage = job[t].stage /\ row.status = target
    BY <1>1, <1>2 DEF JobRec, JobStatuses
  <2> HIDE DEF row
  <2>3. JobRow(t) /\ job'[t] = row
    BY <1>1, <2>1, <2>2 DEF JobRow, RunType
  <2> QED BY <1>2, <1>5, <1>6, <1>7, <2>2, <2>3
<1>8. CASE job[t].status # "RUNNING"
  <2>1. job' = job
    BY <1>8 DEF Failed
  <2> QED BY <1>5, <1>6, <1>8, <2>1 DEF JobRow, RunType
<1> QED BY <1>7, <1>8

-----------------------------------------------------------------------------
(***************************************************************************)
(* The steps of run_task.  TaskStep is what the rest of the run sees of    *)
(* them; Kept is what they leave to the other processes in the task: a job *)
(* that has ended stays as it is, one that another process is in can only  *)
(* be cancelled, and nothing that a stage has left behind goes away.       *)
(***************************************************************************)
RowKept(p, t) ==
    \/ job'[t] = job[t]
    \/ /\ job[t].status \notin Terminal
       /\ \/ job'[t].status = "CANCELLED" /\ job'[t].stage = job[t].stage
          \/ \A q \in Procs : q # p => ~InTask(q, t)

Kept(p, t) ==
    /\ RowKept(p, t)
    /\ reserved[t] \subseteq reserved'[t]
    /\ answers[t] # NoValue => answers'[t] = answers[t]
    /\ artifacts[t]["prediction"] # NoValue => artifacts'[t]["prediction"] # NoValue

TaskStep(p) ==
    LET t == proc[p].task
    IN  /\ RunType' /\ Only(p) /\ OnlyTask(t) /\ Kept(p, t)
        /\ \/ /\ SameTask(p)
              /\ proc[p].pc \in BoundPCs /\ proc'[p].pc \in BoundPCs \ {"append", "mark"}
           \/ proc'[p] = Start
        /\ artifacts'[t]["plan"] \in {artifacts[t]["plan"], proc[p].selected}

LEMMA Typing ==
  ASSUME RunType, NEW p \in Procs
  PROVE  /\ proc[p] \in ProcRec /\ proc[p].task \in Tasks /\ proc[p].pc \in PCs
         /\ proc[p].selected \subseteq Strategies
         /\ job[proc[p].task] \in JobRec /\ job[proc[p].task].stage \in Stages
         /\ job[proc[p].task].status \in JobStatuses
         /\ reserved[proc[p].task] \subseteq AllCalls
         /\ LedgerOK(task_ledger[proc[p].task])
         /\ answers[proc[p].task] \in Answers \cup {NoValue}
BY DEF RunType, ProcRec, JobRec

\* Another process is not disturbed.
LEMMA OtherProc ==
  ASSUME RunType, NEW p \in Procs, NEW t \in Tasks, OnlyTask(t), Kept(p, t),
         NEW q \in Procs, q # p, proc'[q] = proc[q], JobProc(q)
  PROVE  JobProc(q)'
<1> DEFINE u == proc[q].task
<1>1. proc[q] \in ProcRec /\ u \in Tasks
  BY Typing
<1>2. CASE u # t
  <2>1. /\ job'[u] = job[u] /\ reserved'[u] = reserved[u] /\ artifacts'[u] = artifacts[u]
        /\ answers'[u] = answers[u]
    BY <1>1, <1>2 DEF OnlyTask
  <2> QED BY <2>1 DEF JobProc
<1>3. CASE u = t /\ job'[t] = job[t]
  BY <1>3 DEF JobProc, Kept
<1>4. CASE u = t /\ job'[t] # job[t]
  <2>1. job[t].status \notin Terminal
    BY <1>4 DEF Kept, RowKept
  <2>2. CASE job'[t].status = "CANCELLED" /\ job'[t].stage = job[t].stage
    BY <1>4, <2>1, <2>2 DEF JobProc, Kept, Terminal
  <2>3. CASE ~InTask(q, t)
    <3>1. proc[q].pc \notin InTaskPCs
      BY <1>4, <2>3 DEF InTask, InTaskPCs
    <3> QED BY <1>4, <2>1, <3>1 DEF JobProc, InTaskPCs
  <2> QED BY <1>4, <2>2, <2>3 DEF Kept, RowKept
<1> QED BY <1>2, <1>3, <1>4

\* A ledger that stays as it is keeps its outcome.
LEMMA LedgerStays ==
  ASSUME NEW p \in Procs, NEW t \in Tasks, RowKept(p, t),
         NEW event, OutcomeOf(t, event)
  PROVE  OutcomeOf(t, event)'
BY DEF OutcomeOf, RowKept, Outcome

\* What is left to show of a step of p that only concerns t.
LEMMA JobCombine ==
  ASSUME RunType, JobOK, NEW p \in Procs, NEW t \in Tasks, Only(p), OnlyTask(t), Kept(p, t),
         JobProc(p)', JobTask(t)',
         \/ task_ledger' = task_ledger
         \/ LedgerTask(t)'
  PROVE  JobOK'
<1>1. ASSUME NEW q \in Procs PROVE JobProc(q)'
  <2>1. CASE q = p
    BY <2>1
  <2>2. CASE q # p
    BY <2>2, OtherProc DEF Only, JobOK
  <2> QED BY <2>1, <2>2
<1>2. ASSUME NEW u \in Tasks, u # t PROVE JobTask(u)' /\ LedgerTask(u)'
  <2>1. /\ job'[u] = job[u] /\ reserved'[u] = reserved[u] /\ artifacts'[u] = artifacts[u]
        /\ answers'[u] = answers[u] /\ task_ledger'[u] = task_ledger[u]
    BY <1>2 DEF OnlyTask
  <2>2. JobTask(u) /\ LedgerTask(u)
    BY DEF JobOK
  <2>3. JobTask(u)'
    BY <2>1, <2>2 DEF JobTask
  <2>4. LedgerTask(u)'
    BY <2>1, <2>2 DEF LedgerTask, OutcomeOf, Outcome
  <2> QED BY <2>3, <2>4
<1>3. LedgerTask(t)'
  <2>1. CASE task_ledger' = task_ledger
    BY <2>1, LedgerStays DEF JobOK, LedgerTask, Kept
  <2> QED BY <2>1
<1> QED BY <1>1, <1>2, <1>3 DEF JobOK

\* A process that is inside a task whose job runs is there alone.
LEMMA Alone ==
  ASSUME RunType, JobOK, NEW p \in Procs, proc[p].pc \in InTaskPCs,
         job[proc[p].task].status = "RUNNING"
  PROVE  \A q \in Procs : q # p => ~InTask(q, proc[p].task)
<1>1. job[proc[p].task].owner = p
  BY DEF JobOK, JobProc
<1>2. ASSUME NEW q \in Procs, q # p, InTask(q, proc[p].task) PROVE FALSE
  <2>1. proc[q].task = proc[p].task /\ proc[q].pc \in InTaskPCs
    BY <1>2 DEF InTask, InTaskPCs
  <2>2. job[proc[q].task].owner = q
    BY <2>1 DEF JobOK, JobProc
  <2> QED BY <1>1, <1>2, <2>1, <2>2
<1> QED BY <1>2

\* A step that only writes the row of its job.
LEMMA RowOnly ==
  ASSUME RunType, NEW p \in Procs, NEW t \in Tasks, Only(p), JobRow(t), RowKept(p, t),
         UNCHANGED <<reserved, artifacts, answers, task_ledger, policy_ledger>>
  PROVE  RunType' /\ OnlyTask(t) /\ Kept(p, t)
<1>1. OnlyTask(t) /\ Kept(p, t)
  BY DEF OnlyTask, JobRow, Kept
<1>2. RunType'
  BY DEF RunType, Only, JobRow
<1> QED BY <1>1, <1>2

LEMMA CreateJobStep ==
  ASSUME RunType, JobOK, NEW p \in Procs, NEW t \in Tasks, t = proc[p].task,
         CreateJob(p), policy_ledger' = policy_ledger
  PROVE  TaskStep(p) /\ JobOK'
<1>1. proc[p] \in ProcRec /\ job[t] \in JobRec /\ proc[p].pc = "create"
  BY Typing DEF CreateJob, At
<1>2. Only(p) /\ SameTask(p) /\ proc'[p].pc = "claim"
  <2>1. "claim" \in PCs /\ Goto(p, "claim")
    BY DEF CreateJob, PCs, BoundPCs
  <2> QED BY <2>1, GotoFacts DEF RunType
<1>3. /\ JobRow(t) /\ job'[t].stage = job[t].stage
      /\ \/ job'[t] = job[t]
         \/ job[t].status = "NONE" /\ job'[t].status = "QUEUED"
  <2>1. CASE job[t].status = "NONE"
    <3>1. job' = [job EXCEPT ![t] = [job[t] EXCEPT !.status = "QUEUED"]]
      BY <2>1 DEF CreateJob
    <3>2. [job[t] EXCEPT !.status = "QUEUED"] \in JobRec
      BY <1>1 DEF JobRec, JobStatuses
    <3>3. JobRow(t) /\ job'[t] = [job[t] EXCEPT !.status = "QUEUED"]
      BY <1>1, <3>1, <3>2 DEF JobRow, RunType
    <3> QED BY <1>1, <2>1, <3>3 DEF JobRec
  <2>2. CASE job[t].status # "NONE"
    <3>1. job' = job
      BY <2>2 DEF CreateJob
    <3>2. JobRow(t)
      BY <3>1 DEF JobRow, RunType
    <3> QED BY <3>1, <3>2
  <2> QED BY <2>1, <2>2
<1>4. RowKept(p, t)
  <2>1. CASE job[t].status = "NONE"
    <3>1. \A q \in Procs : ~InTask(q, t)
      BY <2>1 DEF JobOK, JobProc, InTask, InTaskPCs
    <3> QED BY <2>1, <3>1 DEF RowKept, Terminal
  <2>2. CASE job'[t] = job[t]
    BY <2>2 DEF RowKept
  <2> QED BY <1>3, <2>1, <2>2
<1>5. RunType' /\ OnlyTask(t) /\ Kept(p, t)
  BY <1>1, <1>2, <1>3, <1>4, RowOnly DEF CreateJob
<1>6. TaskStep(p)
  BY <1>1, <1>2, <1>5 DEF TaskStep, CreateJob, BoundPCs
<1>7. JobProc(p)'
  BY <1>1, <1>2 DEF JobProc, InTaskPCs, AfterTaskPCs
<1>8. JobTask(t)'
  BY <1>1, <1>3 DEF JobOK, JobTask, CreateJob
<1> QED BY <1>1, <1>2, <1>5, <1>6, <1>7, <1>8, JobCombine DEF CreateJob

LEMMA ClaimStep ==
  ASSUME RunType, JobOK, NEW p \in Procs, NEW t \in Tasks, t = proc[p].task,
         Claim(p), policy_ledger' = policy_ledger
  PROVE  TaskStep(p) /\ JobOK'
<1>1. proc[p] \in ProcRec /\ job[t] \in JobRec /\ proc[p].pc = "claim"
  BY Typing DEF Claim, At
<1>2. CASE Claimable(p, t)
  <2> DEFINE row == [job[t] EXCEPT !.status = "RUNNING", !.owner = p,
                                   !.attempts = job[t].attempts + 1]
             pc == IF job[t].stage = VALIDATE THEN "finalize" ELSE "stage"
             rec == [proc[p] EXCEPT !.code = "none", !.pc = pc]
  <2>1. job' = [job EXCEPT ![t] = row] /\ proc' = [proc EXCEPT ![p] = rec]
    BY <1>2 DEF Claim
  <2>2. /\ row \in JobRec /\ row.status = "RUNNING" /\ row.owner = p
        /\ row.stage = job[t].stage
    <3>1. job[t].attempts \in Nat /\ job[t].attempts + 1 \in Nat
      BY <1>1 DEF JobRec
    <3> QED BY <1>1, <3>1 DEF JobRec, JobStatuses
  <2>3. /\ rec \in ProcRec /\ rec.pc = pc /\ rec.task = t
        /\ rec.selected = proc[p].selected /\ rec.batch = proc[p].batch
    BY <1>1 DEF ProcRec, PCs, BoundPCs, InTaskPCs, ErrorCodes
  <2> HIDE DEF row, rec
  <2>4. JobRow(t) /\ job'[t] = row
    BY <1>1, <2>1, <2>2 DEF JobRow, RunType
  <2>5. Only(p) /\ proc'[p] = rec /\ SameTask(p)
    BY <1>1, <2>1, <2>3 DEF Only, RunType, SameTask
  <2>6. RowKept(p, t)
    <3>1. ASSUME NEW q \in Procs, q # p, InTask(q, t) PROVE FALSE
      <4>1. job[t].status = "RUNNING" /\ job[t].owner = q
        BY <1>2, <3>1 DEF JobOK, JobProc, InTask, InTaskPCs, Claimable
      <4> QED BY <1>2, <3>1, <4>1, NullAssumption DEF Claimable
    <3> QED BY <1>2, <3>1 DEF RowKept, Claimable, Terminal
  <2>7. RunType' /\ OnlyTask(t) /\ Kept(p, t)
    BY <1>1, <2>4, <2>5, <2>6, RowOnly DEF Claim
  <2>8. TaskStep(p)
    BY <1>1, <2>3, <2>5, <2>7 DEF TaskStep, Claim, BoundPCs, InTaskPCs
  <2>9. JobProc(p)'
    BY <1>1, <2>2, <2>3, <2>4, <2>5 DEF JobProc, InTaskPCs, AfterTaskPCs
  <2>10. JobTask(t)'
    BY <1>1, <2>2, <2>4 DEF JobOK, JobTask, Claim
  <2> QED BY <1>1, <2>5, <2>7, <2>8, <2>9, <2>10, JobCombine DEF Claim
<1>3. CASE ~Claimable(p, t)
  <2>1. Only(p) /\ SameTask(p) /\ proc'[p].pc = "report"
    <3>1. "report" \in PCs /\ Goto(p, "report")
      BY <1>3 DEF Claim, PCs, BoundPCs
    <3> QED BY <3>1, GotoFacts DEF RunType
  <2>2. job' = job /\ JobRow(t) /\ RowKept(p, t)
    BY <1>3 DEF Claim, JobRow, RunType, RowKept
  <2>3. RunType' /\ OnlyTask(t) /\ Kept(p, t)
    BY <1>1, <2>1, <2>2, RowOnly DEF Claim
  <2>4. TaskStep(p)
    BY <1>1, <2>1, <2>3 DEF TaskStep, Claim, BoundPCs
  <2>5. JobProc(p)'
    BY <1>1, <2>1 DEF JobProc, InTaskPCs, AfterTaskPCs
  <2>6. JobTask(t)'
    BY <1>1, <2>2 DEF JobOK, JobTask, Claim
  <2> QED BY <1>1, <2>1, <2>3, <2>4, <2>5, <2>6, JobCombine DEF Claim
<1> QED BY <1>2, <1>3

LEMMA BeginStageStep ==
  ASSUME RunType, JobOK, NEW p \in Procs, NEW t \in Tasks, t = proc[p].task,
         BeginStage(p), policy_ledger' = policy_ledger
  PROVE  TaskStep(p) /\ JobOK'
<1>1. /\ proc[p].pc = "stage" /\ job[t].status = "RUNNING" /\ job[t].owner = p
      /\ job[t].stage \notin {READ, VALIDATE}
  BY DEF BeginStage, At, JobOK, JobProc, InTaskPCs
<1>2. Only(p) /\ SameTask(p) /\ proc'[p].pc = "handle"
  <2>1. "handle" \in PCs /\ Goto(p, "handle")
    BY DEF BeginStage, PCs, BoundPCs, InTaskPCs
  <2> QED BY <2>1, GotoFacts DEF RunType
<1>3. job' = job /\ JobRow(t) /\ RowKept(p, t)
  BY DEF BeginStage, JobRow, RunType, RowKept
<1>4. RunType' /\ OnlyTask(t) /\ Kept(p, t)
  BY <1>2, <1>3, RowOnly DEF BeginStage
<1>5. TaskStep(p)
  BY <1>1, <1>2, <1>4 DEF TaskStep, BeginStage, BoundPCs, InTaskPCs
<1>6. JobProc(p)'
  BY <1>1, <1>2, <1>3 DEF JobProc, InTaskPCs, AfterTaskPCs, SameTask
<1>7. JobTask(t)'
  BY <1>3 DEF JobOK, JobTask, BeginStage
<1> QED BY <1>2, <1>4, <1>5, <1>6, <1>7, JobCombine DEF BeginStage

LEMMA ReadAndProposeStep ==
  ASSUME RunType, JobOK, NEW p \in Procs, NEW t \in Tasks, t = proc[p].task,
         ReadAndPropose(p), policy_ledger' = policy_ledger
  PROVE  TaskStep(p) /\ JobOK'
<1> DEFINE row == [job[t] EXCEPT !.stage = CHALLENGE]
<1>1. /\ proc[p].pc = "stage" /\ job[t].status = "RUNNING" /\ job[t].owner = p
      /\ job[t].stage = READ /\ job[t] \in JobRec
  BY Typing DEF ReadAndPropose, At, JobOK, JobProc, InTaskPCs
<1>2. job' = [job EXCEPT ![t] = row]
  BY DEF ReadAndPropose
<1>3. /\ row \in JobRec /\ row.stage = CHALLENGE /\ row.status = "RUNNING" /\ row.owner = p
  BY <1>1 DEF JobRec, Stages
<1> HIDE DEF row
<1>4. JobRow(t) /\ job'[t] = row
  BY <1>2, <1>3 DEF JobRow, RunType
<1>5. Only(p) /\ SameTask(p) /\ proc'[p].pc = "stage"
  BY <1>1 DEF ReadAndPropose, Only, SameTask, RunType
<1>6. RowKept(p, t)
  BY <1>1, Alone DEF RowKept, InTaskPCs, Terminal
<1>7. RunType' /\ OnlyTask(t) /\ Kept(p, t)
  BY <1>4, <1>5, <1>6, RowOnly DEF ReadAndPropose
<1>8. TaskStep(p)
  BY <1>1, <1>5, <1>7 DEF TaskStep, ReadAndPropose, BoundPCs, InTaskPCs
<1>9. JobProc(p)'
  BY <1>3, <1>4, <1>5 DEF JobProc, InTaskPCs, AfterTaskPCs, SameTask, CHALLENGE, VALIDATE
<1>10. JobTask(t)'
  <2>1. JobTask(t)
    BY DEF JobOK
  <2>2. Calls(READ) = {}
    BY DEF Calls, PLAN, RETRIEVE, READ, CHALLENGE, DECIDE
  <2>3. \A s \in Stages : s < CHALLENGE => s < READ \/ s = READ
    BY DEF Stages, PLAN, RETRIEVE, READ, CHALLENGE, DECIDE, SYNTHESIZE, VALIDATE
  <2>4. CHALLENGE \notin {SYNTHESIZE, VALIDATE}
    BY DEF CHALLENGE, SYNTHESIZE, VALIDATE
  <2>5. \A s \in Stages : s < CHALLENGE => Calls(s) \subseteq reserved[t]
    BY <1>1, <2>1, <2>2, <2>3 DEF JobTask
  <2> QED BY <1>3, <1>4, <2>1, <2>4, <2>5 DEF JobTask, ReadAndPropose
<1> QED BY <1>5, <1>7, <1>8, <1>9, <1>10, JobCombine DEF ReadAndPropose

\* An answer is given once.
AnswerGiven(t) ==
    /\ answers' \in [Tasks -> Answers \cup {NoValue}]
    /\ \A u \in Tasks : u # t => answers'[u] = answers[u]
    /\ answers[t] # NoValue => answers'[t] = answers[t]

\* A handler that fails: from a stage to the next claim or the report.
LEMMA FailedStep ==
  ASSUME RunType, JobOK, NEW p \in Procs, NEW t \in Tasks, t = proc[p].task,
         NEW code \in ErrorCodes, NEW retryable \in BOOLEAN, Failed(p, code, retryable),
         proc[p].pc = "handle", AnswerGiven(t),
         UNCHANGED <<reserved, artifacts, task_ledger, policy_ledger>>
  PROVE  TaskStep(p) /\ JobOK'
<1>1. /\ Only(p) /\ SameTask(p) /\ JobRow(t)
      /\ job'[t].stage = job[t].stage
      /\ proc'[p].pc \in {"claim", "report"}
      /\ \/ job[t].status # "RUNNING" /\ job' = job
         \/ job[t].status = "RUNNING" /\ job'[t].status \in {"RETRY_WAIT", "FAILED"}
  BY FailedFacts
<1>2. RowKept(p, t)
  BY <1>1, Alone DEF RowKept, InTaskPCs, Terminal
<1>3. OnlyTask(t) /\ Kept(p, t)
  BY <1>1, <1>2 DEF OnlyTask, JobRow, Kept, AnswerGiven
<1>4. RunType'
  BY <1>1 DEF RunType, Only, JobRow, AnswerGiven
<1>5. TaskStep(p)
  BY <1>1, <1>3, <1>4 DEF TaskStep, BoundPCs, InTaskPCs
<1>6. JobProc(p)'
  BY <1>1 DEF JobProc, InTaskPCs, AfterTaskPCs
<1>7. JobTask(t)'
  BY <1>1 DEF JobOK, JobTask, AnswerGiven
<1> QED BY <1>1, <1>3, <1>5, <1>6, <1>7, JobCombine

LEMMA AnswersStay ==
  ASSUME RunType, NEW t \in Tasks, answers' = answers
  PROVE  AnswerGiven(t)
BY DEF AnswerGiven, RunType

LEMMA HandlerFailsStep ==
  ASSUME RunType, JobOK, NEW p \in Procs, NEW t \in Tasks, t = proc[p].task,
         HandlerFails(p), policy_ledger' = policy_ledger
  PROVE  TaskStep(p) /\ JobOK'
BY FailedStep, AnswersStay DEF HandlerFails, At, ErrorCodes

LEMMA CallsOfStage ==
  ASSUME NEW s \in Stages
  PROVE  Calls(s) \subseteq AllCalls
<1>1. CASE s = VALIDATE
  <2>1. Calls(s) = {}
    BY <1>1 DEF Calls, PLAN, RETRIEVE, CHALLENGE, DECIDE, VALIDATE
  <2> QED BY <2>1
<1>2. CASE s # VALIDATE
  <2>1. s \in PLAN .. SYNTHESIZE
    BY <1>2 DEF Stages, PLAN, RETRIEVE, READ, CHALLENGE, DECIDE, SYNTHESIZE, VALIDATE
  <2> QED BY <2>1 DEF AllCalls
<1> QED BY <1>1, <1>2

LEMMA ReserveStep ==
  ASSUME RunType, JobOK, NEW p \in Procs, NEW t \in Tasks, t = proc[p].task,
         Reserve(p), policy_ledger' = policy_ledger
  PROVE  TaskStep(p) /\ JobOK'
<1>1. proc[p].pc = "handle" /\ job[t].stage \in Stages
  BY Typing DEF Reserve, At
<1>2. PICK call \in Unreserved(t) :
        \/ /\ reserved' = [reserved EXCEPT ![t] = @ \cup {call}]
           /\ UNCHANGED <<job, proc>>
        \/ Failed(p, "BUDGET_EXCEEDED", FALSE) /\ UNCHANGED reserved
  BY DEF Reserve
<1>3. CASE Failed(p, "BUDGET_EXCEEDED", FALSE) /\ UNCHANGED reserved
  BY <1>1, <1>3, FailedStep, AnswersStay DEF Reserve, ErrorCodes
<1>4. CASE reserved' = [reserved EXCEPT ![t] = @ \cup {call}] /\ UNCHANGED <<job, proc>>
  <2>1. call \in AllCalls
    BY <1>1, CallsOfStage DEF Unreserved
  <2>2. /\ reserved' \in [Tasks -> SUBSET AllCalls]
        /\ reserved'[t] = reserved[t] \cup {call}
        /\ \A u \in Tasks : u # t => reserved'[u] = reserved[u]
    BY <1>4, <2>1 DEF RunType
  <2>3. RunType' /\ Only(p) /\ SameTask(p) /\ proc'[p].pc = "handle"
    BY <1>1, <1>4, <2>2 DEF RunType, Only, SameTask, Reserve
  <2>4. OnlyTask(t) /\ Kept(p, t)
    BY <1>4, <2>2 DEF OnlyTask, Kept, RowKept, Reserve
  <2>5. TaskStep(p)
    BY <1>1, <2>3, <2>4 DEF TaskStep, Reserve, BoundPCs, InTaskPCs
  <2>6. JobProc(p)'
    BY <1>1, <1>4 DEF JobOK, JobProc, InTaskPCs, AfterTaskPCs
  <2>7. JobTask(t)'
    BY <1>4, <2>2 DEF JobOK, JobTask, Reserve
  <2> QED BY <2>3, <2>4, <2>5, <2>6, <2>7, JobCombine DEF Reserve
<1> QED BY <1>2, <1>3, <1>4

\* At SYNTHESIZE every paid call of the job has been reserved.
LEMMA AllReserved ==
  ASSUME RunType, NEW t \in Tasks, JobTask(t), job[t].stage = SYNTHESIZE
  PROVE  reserved[t] = AllCalls
<1>1. ASSUME NEW s \in PLAN .. SYNTHESIZE PROVE Calls(s) \subseteq reserved[t]
  <2>1. CASE s \in Stages /\ s < SYNTHESIZE
    BY <2>1 DEF JobTask
  <2>2. CASE s = 3 \/ s = SYNTHESIZE
    BY <2>2 DEF Calls, PLAN, RETRIEVE, CHALLENGE, DECIDE, SYNTHESIZE
  <2> QED BY <2>1, <2>2 DEF Stages, PLAN, RETRIEVE, READ, CHALLENGE, DECIDE, SYNTHESIZE
<1>2. AllCalls \subseteq reserved[t]
  BY <1>1 DEF AllCalls
<1> QED BY <1>2 DEF RunType

\* What a handler puts: the memory into the plan, the calls into the
\* prediction.
LEMMA ProducedFacts ==
  ASSUME NEW p \in Procs, NEW t, t = proc[p].task, job[t].stage \in Stages \ {READ, VALIDATE}
  PROVE  /\ Produced(p).key \in Keys
         /\ Produced(p).key = "plan" => Produced(p).value = proc[p].selected
         /\ Produced(p).key = "prediction" =>
                job[t].stage = SYNTHESIZE /\ Produced(p).value = Cardinality(reserved[t])
<1> USE DEF PLAN, RETRIEVE, READ, CHALLENGE, DECIDE, SYNTHESIZE, VALIDATE
<1>1. CASE job[t].stage = PLAN
  <2>1. Produced(p) = [key |-> "plan", value |-> proc[p].selected]
    BY <1>1 DEF Produced
  <2> QED BY <2>1 DEF Keys
<1>2. CASE job[t].stage = RETRIEVE
  <2>1. Produced(p) = [key |-> "support", value |-> "passages"]
    BY <1>2 DEF Produced
  <2> QED BY <2>1 DEF Keys
<1>3. CASE job[t].stage = CHALLENGE
  <2>1. Produced(p) = [key |-> "counter", value |-> "passages"]
    BY <1>3 DEF Produced
  <2> QED BY <2>1 DEF Keys
<1>4. CASE job[t].stage = DECIDE
  <2>1. Produced(p) = [key |-> "decision", value |-> answers'[t]]
    BY <1>4 DEF Produced
  <2> QED BY <2>1 DEF Keys
<1>5. CASE job[t].stage = SYNTHESIZE
  <2>1. Produced(p) = [key |-> "prediction", value |-> Cardinality(reserved[t])]
    BY <1>5 DEF Produced
  <2> QED BY <1>5, <2>1 DEF Keys
<1> QED BY <1>1, <1>2, <1>3, <1>4, <1>5 DEF Stages

\* One artifact of one task is written.
Puts(t, k, v) ==
    /\ artifacts' = [u \in Tasks |-> [i \in Keys |-> artifacts'[u][i]]]
    /\ \A u \in Tasks : u # t => artifacts'[u] = artifacts[u]
    /\ artifacts'[t][k] = v
    /\ \A i \in Keys : i # k => artifacts'[t][i] = artifacts[t][i]

LEMMA PutFacts ==
  ASSUME RunType, NEW t \in Tasks, NEW k \in Keys, NEW v,
         artifacts' = [artifacts EXCEPT ![t][k] = v]
  PROVE  Puts(t, k, v)
<1>1. artifacts = [u \in Tasks |-> [i \in Keys |-> artifacts[u][i]]]
  BY DEF RunType
<1> DEFINE a == [artifacts[t] EXCEPT ![k] = v]
<1>2. artifacts[t] = [i \in Keys |-> artifacts[t][i]]
  BY <1>1
<1>3. a = [i \in Keys |-> a[i]] /\ a[k] = v /\ \A i \in Keys : i # k => a[i] = artifacts[t][i]
  BY <1>2
<1>4. artifacts' = [artifacts EXCEPT ![t] = a]
  OBVIOUS
<1> HIDE DEF a
<1>5. /\ artifacts' = [u \in Tasks |-> artifacts'[u]]
      /\ artifacts'[t] = a
      /\ \A u \in Tasks : u # t => artifacts'[u] = artifacts[u]
  BY <1>1, <1>4
<1>6. \A u \in Tasks : artifacts'[u] = [i \in Keys |-> artifacts'[u][i]]
  BY <1>1, <1>3, <1>5
<1> QED BY <1>3, <1>5, <1>6 DEF Puts

LEMMA HandleStep ==
  ASSUME RunType, JobOK, NEW p \in Procs, NEW t \in Tasks, t = proc[p].task,
         Handle(p), policy_ledger' = policy_ledger
  PROVE  TaskStep(p) /\ JobOK'
<1>1. /\ proc[p].pc = "handle" /\ job[t].stage \in Stages \ {READ, VALIDATE}
      /\ JobTask(t)
  BY Typing DEF Handle, At, JobOK, JobProc
<1>2. Calls(job[t].stage) \subseteq reserved[t]
  BY DEF Handle, Unreserved
<1>3. AnswerGiven(t) /\ (job[t].stage = DECIDE => answers'[t] # NoValue)
  <2>1. CASE job[t].stage = DECIDE /\ answers[t] = NoValue
    <3>1. PICK a \in Answers : answers' = [answers EXCEPT ![t] = a]
      BY <2>1 DEF Handle
    <3> QED BY <2>1, <3>1, NullAssumption DEF AnswerGiven, RunType
  <2>2. CASE ~(job[t].stage = DECIDE /\ answers[t] = NoValue)
    <3>1. answers' = answers
      BY <2>2 DEF Handle
    <3> QED BY <2>2, <3>1, AnswersStay
  <2> QED BY <2>1, <2>2
<1>4. PICK k \in Keys : \E v :
        /\ k = Produced(p).key /\ v = Produced(p).value
        /\ k = "plan" => v = proc[p].selected
        /\ k = "prediction" =>
              job[t].stage = SYNTHESIZE /\ v = Cardinality(reserved[t])
  BY <1>1, ProducedFacts
<1>5. PICK v :
        /\ k = Produced(p).key /\ v = Produced(p).value
        /\ k = "plan" => v = proc[p].selected
        /\ k = "prediction" =>
              job[t].stage = SYNTHESIZE /\ v = Cardinality(reserved[t])
  BY <1>4
<1>6. \/ /\ artifacts' = [artifacts EXCEPT ![t][k] = v]
         /\ Goto(p, "checkpoint") /\ UNCHANGED job
      \/ Failed(p, "UNHANDLED_STAGE_ERROR", TRUE) /\ UNCHANGED artifacts
  BY <1>5 DEF Handle, Put
<1>7. UNCHANGED <<reserved, task_ledger>>
  BY DEF Handle
<1>8. CASE Failed(p, "UNHANDLED_STAGE_ERROR", TRUE) /\ UNCHANGED artifacts
  BY <1>1, <1>3, <1>7, <1>8, FailedStep DEF ErrorCodes
<1>9. CASE /\ artifacts' = [artifacts EXCEPT ![t][k] = v]
           /\ Goto(p, "checkpoint") /\ UNCHANGED job
  <2>1. Only(p) /\ SameTask(p) /\ proc'[p].pc = "checkpoint"
    <3>1. "checkpoint" \in PCs
      BY DEF PCs, BoundPCs, InTaskPCs
    <3> QED BY <1>9, <3>1, GotoFacts DEF RunType
  <2>2. /\ artifacts' = [u \in Tasks |-> [i \in Keys |-> artifacts'[u][i]]]
        /\ \A u \in Tasks : u # t => artifacts'[u] = artifacts[u]
        /\ artifacts'[t][k] = v
        /\ \A i \in Keys : i # k => artifacts'[t][i] = artifacts[t][i]
    <3>1. Puts(t, k, v)
      BY <1>9, PutFacts, Zenon
    <3> QED BY <3>1 DEF Puts
  <2>3. artifacts'[t]["plan"] \in {artifacts[t]["plan"], proc[p].selected}
    BY <1>5, <2>2 DEF Keys
  <2>4. \/ artifacts'[t]["prediction"] = artifacts[t]["prediction"]
        \/ job[t].stage = SYNTHESIZE /\ artifacts'[t]["prediction"] = Cardinality(AllCalls)
    BY <1>1, <1>5, <2>2, AllReserved DEF Keys
  <2>5. artifacts[t]["prediction"] # NoValue => artifacts'[t]["prediction"] # NoValue
    BY <1>1, <2>4 DEF JobTask
  <2>6. OnlyTask(t) /\ Kept(p, t)
    BY <1>3, <1>7, <1>9, <2>2, <2>5 DEF OnlyTask, Kept, RowKept, AnswerGiven
  <2>7. RunType'
    BY <1>3, <1>7, <1>9, <2>1, <2>2 DEF RunType, Only, AnswerGiven
  <2>8. TaskStep(p)
    BY <1>1, <2>1, <2>3, <2>6, <2>7 DEF TaskStep, BoundPCs, InTaskPCs
  <2>9. JobProc(p)'
    <3>1. JobProc(p)
      BY DEF JobOK
    <3> QED BY <1>1, <1>2, <1>3, <1>7, <1>9, <2>1, <3>1
            DEF JobProc, InTaskPCs, AfterTaskPCs, SameTask
  <2>10. JobTask(t)'
    BY <1>1, <1>3, <1>7, <1>9, <2>4 DEF JobTask, AnswerGiven
  <2> QED BY <1>7, <2>1, <2>6, <2>8, <2>9, <2>10, JobCombine
<1> QED BY <1>6, <1>8, <1>9

LEMMA CheckpointStep ==
  ASSUME RunType, JobOK, NEW p \in Procs, NEW t \in Tasks, t = proc[p].task,
         Checkpoint(p), policy_ledger' = policy_ledger
  PROVE  TaskStep(p) /\ JobOK'
<1> DEFINE row == [job[t] EXCEPT !.stage = job[t].stage + 1]
           pc == IF job[t].stage = SYNTHESIZE THEN "finalize" ELSE "stage"
<1>1. /\ proc[p].pc = "checkpoint" /\ job[t].status = "RUNNING" /\ job[t].owner = p
      /\ job[t].stage \in Stages \ {READ, VALIDATE} /\ job[t] \in JobRec
      /\ Calls(job[t].stage) \subseteq reserved[t]
      /\ job[t].stage = DECIDE => answers[t] # NoValue
      /\ JobTask(t)
  BY Typing DEF Checkpoint, At, JobOK, JobProc, InTaskPCs
<1>2. /\ job[t].stage + 1 \in Stages
      /\ job[t].stage + 1 = VALIDATE <=> job[t].stage = SYNTHESIZE
      /\ job[t].stage + 1 = SYNTHESIZE <=> job[t].stage = DECIDE
      /\ \A s \in Stages : s < job[t].stage + 1 => s < job[t].stage \/ s = job[t].stage
  BY <1>1 DEF Stages, PLAN, RETRIEVE, READ, CHALLENGE, DECIDE, SYNTHESIZE, VALIDATE
<1>3. job' = [job EXCEPT ![t] = row] /\ Goto(p, pc)
  BY DEF Checkpoint
<1>4. /\ row \in JobRec /\ row.stage = job[t].stage + 1 /\ row.status = "RUNNING"
      /\ row.owner = p
  BY <1>1, <1>2 DEF JobRec
<1> HIDE DEF row
<1>5. JobRow(t) /\ job'[t] = row
  BY <1>3, <1>4 DEF JobRow, RunType
<1>6. Only(p) /\ SameTask(p) /\ proc'[p].pc = pc
  <2>1. pc \in PCs
    BY DEF PCs, BoundPCs, InTaskPCs
  <2> QED BY <1>3, <2>1, GotoFacts DEF RunType
<1>7. RowKept(p, t)
  BY <1>1, Alone DEF RowKept, InTaskPCs, Terminal
<1>8. RunType' /\ OnlyTask(t) /\ Kept(p, t)
  BY <1>5, <1>6, <1>7, RowOnly DEF Checkpoint
<1>9. TaskStep(p)
  BY <1>1, <1>6, <1>8 DEF TaskStep, Checkpoint, BoundPCs, InTaskPCs
<1>10. JobProc(p)'
  BY <1>2, <1>4, <1>5, <1>6 DEF JobProc, InTaskPCs, AfterTaskPCs, SameTask
<1>11. JobTask(t)'
  BY <1>1, <1>2, <1>4, <1>5 DEF JobTask, Checkpoint
<1> QED BY <1>6, <1>8, <1>9, <1>10, <1>11, JobCombine DEF Checkpoint

LEMMA FinalizeStep ==
  ASSUME RunType, JobOK, NEW p \in Procs, NEW t \in Tasks, t = proc[p].task,
         Finalize(p), policy_ledger' = policy_ledger
  PROVE  TaskStep(p) /\ JobOK'
<1> DEFINE row == [job[t] EXCEPT !.status = "SUCCEEDED", !.owner = NoProc]
<1>1. /\ proc[p].pc = "finalize" /\ job[t].status = "RUNNING" /\ job[t].owner = p
      /\ job[t].stage = VALIDATE /\ job[t] \in JobRec
      /\ JobTask(t)
  BY Typing DEF Finalize, At, JobOK, JobProc, InTaskPCs
<1>2. job' = [job EXCEPT ![t] = row] /\ Goto(p, "report")
  BY DEF Finalize
<1>3. row \in JobRec /\ row.stage = job[t].stage /\ row.status = "SUCCEEDED"
  BY <1>1 DEF JobRec, JobStatuses
<1> HIDE DEF row
<1>4. JobRow(t) /\ job'[t] = row
  BY <1>2, <1>3 DEF JobRow, RunType
<1>5. Only(p) /\ SameTask(p) /\ proc'[p].pc = "report"
  <2>1. "report" \in PCs
    BY DEF PCs, BoundPCs
  <2> QED BY <1>2, <2>1, GotoFacts DEF RunType
<1>6. RowKept(p, t)
  BY <1>1, Alone DEF RowKept, InTaskPCs, Terminal
<1>7. RunType' /\ OnlyTask(t) /\ Kept(p, t)
  BY <1>4, <1>5, <1>6, RowOnly DEF Finalize
<1>8. TaskStep(p)
  BY <1>1, <1>5, <1>7 DEF TaskStep, Finalize, BoundPCs, InTaskPCs
<1>9. JobProc(p)'
  BY <1>5 DEF JobProc, InTaskPCs, AfterTaskPCs
<1>10. JobTask(t)'
  BY <1>1, <1>3, <1>4 DEF JobTask, Finalize
<1> QED BY <1>5, <1>7, <1>8, <1>9, <1>10, JobCombine DEF Finalize

LEMMA NoticeCancelStep ==
  ASSUME RunType, JobOK, NEW p \in Procs, NEW t \in Tasks, t = proc[p].task,
         NoticeCancel(p), policy_ledger' = policy_ledger
  PROVE  TaskStep(p) /\ JobOK'
<1>1. proc[p].pc \in {"stage", "checkpoint", "finalize"}
  BY DEF NoticeCancel, At
<1>2. Only(p) /\ SameTask(p) /\ proc'[p].pc = "report"
  <2>1. "report" \in PCs /\ Goto(p, "report")
    BY DEF NoticeCancel, PCs, BoundPCs
  <2> QED BY <2>1, GotoFacts DEF RunType
<1>3. job' = job /\ JobRow(t) /\ RowKept(p, t)
  BY DEF NoticeCancel, JobRow, RunType, RowKept
<1>4. RunType' /\ OnlyTask(t) /\ Kept(p, t)
  BY <1>2, <1>3, RowOnly DEF NoticeCancel
<1>5. TaskStep(p)
  BY <1>1, <1>2, <1>4 DEF TaskStep, NoticeCancel, BoundPCs, InTaskPCs
<1>6. JobProc(p)'
  BY <1>2 DEF JobProc, InTaskPCs, AfterTaskPCs
<1>7. JobTask(t)'
  BY <1>3 DEF JobOK, JobTask, NoticeCancel
<1> QED BY <1>2, <1>4, <1>5, <1>6, <1>7, JobCombine DEF NoticeCancel

\* Where the report leads.
LEMMA ReportFacts ==
  ASSUME RunType, NEW p \in Procs, NEW t \in Tasks, t = proc[p].task, Report(p)
  PROVE  \/ /\ Goto(p, "commit") /\ artifacts' = artifacts
            /\ job[t].status = "SUCCEEDED" /\ artifacts[t]["prediction"] # NoValue
         \/ /\ Goto(p, "commit") /\ job[t].status \in {"FAILED", "CANCELLED"}
            /\ \E v : Puts(t, "failure", v)
         \/ Stop(p) /\ artifacts' = artifacts
<1>1. CASE job[t].status = "SUCCEEDED"
  BY <1>1 DEF Report
<1>2. CASE job[t].status \in {"FAILED", "CANCELLED"}
  <2> DEFINE v == <<Cardinality(reserved[t]), FailureCode(p, t)>>
  <2>1. \/ artifacts' = [artifacts EXCEPT ![t]["failure"] = v] /\ Goto(p, "commit")
        \/ Stop(p) /\ artifacts' = artifacts
    BY <1>2 DEF Report
  <2>2. "failure" \in Keys
    BY DEF Keys
  <2> HIDE DEF v
  <2>3. CASE artifacts' = [artifacts EXCEPT ![t]["failure"] = v] /\ Goto(p, "commit")
    <3>1. Puts(t, "failure", v)
      BY <2>2, <2>3, PutFacts, Zenon
    <3> QED BY <1>2, <2>3, <3>1
  <2> QED BY <2>1, <2>3
<1>3. CASE job[t].status \notin {"SUCCEEDED", "FAILED", "CANCELLED"}
  BY <1>3 DEF Report
<1> QED BY <1>1, <1>2, <1>3

LEMMA ReportStep ==
  ASSUME RunType, JobOK, NEW p \in Procs, NEW t \in Tasks, t = proc[p].task,
         Report(p), policy_ledger' = policy_ledger
  PROVE  TaskStep(p) /\ JobOK'
<1>1. proc[p].pc = "report" /\ UNCHANGED <<job, reserved, answers, task_ledger>>
  BY DEF Report, At
<1>2. /\ artifacts' = [u \in Tasks |-> [i \in Keys |-> artifacts'[u][i]]]
      /\ \A u \in Tasks : u # t => artifacts'[u] = artifacts[u]
      /\ artifacts'[t]["plan"] = artifacts[t]["plan"]
      /\ artifacts'[t]["prediction"] = artifacts[t]["prediction"]
  <2>1. CASE artifacts' = artifacts
    BY <2>1 DEF RunType
  <2>2. CASE \E v : Puts(t, "failure", v)
    BY <2>2 DEF Puts, Keys
  <2> QED BY <2>1, <2>2, ReportFacts
<1>3. /\ Only(p)
      /\ \/ /\ SameTask(p) /\ proc'[p].pc = "commit" /\ job[t].status \in Terminal
            /\ job[t].status = "SUCCEEDED" => artifacts[t]["prediction"] # NoValue
         \/ proc'[p] = Start
  <2>1. "commit" \in PCs
    BY DEF PCs, BoundPCs
  <2> QED BY <2>1, ReportFacts, GotoFacts, StopFacts DEF RunType, Terminal
<1>4. OnlyTask(t) /\ Kept(p, t)
  BY <1>1, <1>2 DEF OnlyTask, Kept, RowKept
<1>5. RunType'
  BY <1>1, <1>2, <1>3 DEF RunType, Only
<1>6. TaskStep(p)
  BY <1>1, <1>2, <1>3, <1>4, <1>5 DEF TaskStep, BoundPCs
<1>7. JobProc(p)'
  BY <1>1, <1>2, <1>3 DEF JobProc, InTaskPCs, AfterTaskPCs, SameTask, Start
<1>8. JobTask(t)'
  BY <1>1, <1>2 DEF JobOK, JobTask
<1> QED BY <1>1, <1>3, <1>4, <1>6, <1>7, <1>8, JobCombine

-----------------------------------------------------------------------------
(***************************************************************************)
(* The steps that write a task's ledger, kills and cancellations.          *)
(***************************************************************************)
LEMMA CommitmentFits ==
  ASSUME JobOK, NEW p \in Procs, NEW t \in Tasks, t = proc[p].task, proc[p].pc = "commit"
  PROVE  OutcomeOf(t, Commitment(t))
<1>1. JobProc(p) /\ JobTask(t)
  BY DEF JobOK
<1>2. Commitment(t).key = <<"outcome", Outcome(t)>>
  BY DEF Commitment, Event
<1>3. job[t].status \in Terminal
  BY <1>1 DEF JobProc
<1>4. ASSUME Commitment(t).key = <<"outcome", "completed">>
      PROVE  Commitment(t).content = Cardinality(AllCalls)
  <2>1. Outcome(t) = "completed"
    BY <1>2, <1>4
  <2>2. job[t].status = "SUCCEEDED"
    BY <2>1 DEF Outcome
  <2>3. Commitment(t).content = artifacts[t]["prediction"]
    BY <2>1 DEF Commitment, Event
  <2> QED BY <1>1, <2>2, <2>3 DEF JobProc, JobTask
<1>5. Commitment(t).key[2] = Outcome(t)
  BY <1>2
<1> QED BY <1>3, <1>4, <1>5 DEF OutcomeOf

LEMMA LinkFits ==
  ASSUME NEW p \in Procs, NEW t \in Tasks
  PROVE  OutcomeOf(t, LinkEvent(p))
<1>1. LinkEvent(p).key = <<"linked">>
  BY DEF LinkEvent, Event
<1>2. LinkEvent(p).key[1] = "linked"
  BY <1>1
<1>3. <<"outcome", "completed">>[1] = "outcome"
  OBVIOUS
<1>4. LinkEvent(p).key # <<"outcome", "completed">>
  BY <1>2, <1>3
<1> QED BY <1>2, <1>4 DEF OutcomeOf

\* A ledger of a task is extended by an event that fits.
LEMMA LedgerStep ==
  ASSUME RunType, JobOK, NEW p \in Procs, NEW t \in Tasks, t = proc[p].task, Only(p),
         UNCHANGED <<job, reserved, artifacts, answers>>, LedgerOK(policy_ledger'),
         NEW m, NEW event, task_ledger' = [task_ledger EXCEPT ![t] = m],
         Extends(task_ledger[t], m, event), OutcomeOf(t, event),
         JobProc(p)'
  PROVE  RunType' /\ OnlyTask(t) /\ Kept(p, t) /\ JobOK'
<1>1. /\ task_ledger' = [u \in Tasks |-> task_ledger'[u]]
      /\ task_ledger'[t] = m
      /\ \A u \in Tasks : u # t => task_ledger'[u] = task_ledger[u]
  BY DEF RunType
<1>2. LedgerOK(m)
  BY DEF Extends
<1>3. OnlyTask(t) /\ Kept(p, t)
  BY <1>1 DEF OnlyTask, Kept, RowKept
<1>4. \A u \in Tasks : LedgerOK(task_ledger'[u])
  BY <1>1, <1>2 DEF RunType
<1>5. RunType'
  BY <1>1, <1>4 DEF RunType, Only
<1>6. LedgerTask(t)'
  <2> SUFFICES ASSUME NEW n \in 1 .. Len(m.events)
               PROVE  OutcomeOf(t, m.events[n])'
    BY <1>1 DEF LedgerTask
  <2>1. CASE m.events[n] = event
    BY <2>1 DEF OutcomeOf, Outcome
  <2>2. CASE n \in 1 .. Len(task_ledger[t].events)
    <3>1. m.events[n] = task_ledger[t].events[n]
      BY <2>2 DEF Extends
    <3>2. OutcomeOf(t, m.events[n])
      BY <2>2, <3>1 DEF JobOK, LedgerTask
    <3> QED BY <3>2 DEF OutcomeOf, Outcome
  <2> QED BY <2>1, <2>2 DEF Extends
<1>7. JobTask(t)'
  BY DEF JobOK, JobTask
<1> QED BY <1>3, <1>5, <1>6, <1>7, JobCombine

LEMMA CommitStep ==
  ASSUME RunType, JobOK, NEW p \in Procs, NEW t \in Tasks, t = proc[p].task,
         Commit(p), policy_ledger' = policy_ledger
  PROVE  TaskStep(p) /\ JobOK'
<1>1. /\ proc[p].pc = "commit" /\ UNCHANGED <<job, reserved, artifacts, answers>>
      /\ job[t].status \in Terminal /\ LedgerOK(task_ledger[t]) /\ LedgerOK(policy_ledger)
  BY Typing DEF Commit, At, JobOK, JobProc, RunType
<1>2. CASE /\ task_ledger' = [task_ledger EXCEPT ![t] = Appended(@, Commitment(t))]
           /\ Goto(p, "apply")
  <2> DEFINE m == Appended(task_ledger[t], Commitment(t))
  <2>1. Extends(task_ledger[t], m, Commitment(t))
    BY <1>1, AppendedFacts
  <2>2. task_ledger' = [task_ledger EXCEPT ![t] = m]
    BY <1>2
  <2> HIDE DEF m
  <2>3. Only(p) /\ SameTask(p) /\ proc'[p].pc = "apply"
    <3>1. "apply" \in PCs
      BY DEF PCs, BoundPCs, AfterTaskPCs
    <3> QED BY <1>2, <3>1, GotoFacts DEF RunType
  <2>4. JobProc(p)'
    BY <1>1, <2>3 DEF JobProc, InTaskPCs, AfterTaskPCs, SameTask
  <2>5. OutcomeOf(t, Commitment(t))
    BY <1>1, CommitmentFits
  <2>6. RunType' /\ OnlyTask(t) /\ Kept(p, t) /\ JobOK'
    BY <1>1, <2>1, <2>2, <2>3, <2>4, <2>5, LedgerStep
  <2> QED BY <1>1, <2>3, <2>6 DEF TaskStep, BoundPCs, AfterTaskPCs
<1>3. CASE Stop(p) /\ UNCHANGED task_ledger
  <2>1. Only(p) /\ proc'[p] = Start
    BY <1>3, StopFacts DEF RunType
  <2>2. JobRow(t) /\ RowKept(p, t)
    BY <1>1 DEF JobRow, RowKept, RunType
  <2>3. RunType' /\ OnlyTask(t) /\ Kept(p, t)
    BY <1>1, <1>3, <2>1, <2>2, RowOnly
  <2>4. JobProc(p)'
    BY <2>1 DEF JobProc, InTaskPCs, AfterTaskPCs, Start
  <2>5. JobTask(t)'
    BY <1>1 DEF JobOK, JobTask
  <2> QED BY <1>1, <1>3, <2>1, <2>3, <2>4, <2>5, JobCombine DEF TaskStep
<1> QED BY <1>2, <1>3 DEF Commit

\* Every step of run_task.
LEMMA RunTaskStep ==
  ASSUME RunType, JobOK, NEW p \in Procs, Task(p)
  PROVE  TaskStep(p) /\ JobOK'
<1>1. PICK t \in Tasks : t = proc[p].task
  BY Typing
<1>2. RunTask(p) /\ policy_ledger' = policy_ledger
  BY DEF Task
<1> QED
  BY <1>1, <1>2, CreateJobStep, ClaimStep, BeginStageStep, ReserveStep, HandleStep,
     ReadAndProposeStep, HandlerFailsStep, CheckpointStep, FinalizeStep, NoticeCancelStep,
     ReportStep, CommitStep DEF RunTask

\* A cancellation is a step of nobody.
LEMMA CancelStep ==
  ASSUME RunType, JobOK, NEW t \in Tasks, Cancel(t), policy_ledger' = policy_ledger
  PROVE  /\ RunType' /\ JobOK' /\ OnlyTask(t) /\ proc' = proc /\ artifacts' = artifacts
         /\ answers' = answers /\ job[t].status \notin Terminal
<1> DEFINE row == [job[t] EXCEPT !.status = "CANCELLED", !.owner = NoProc]
<1>1. /\ UNCHANGED <<reserved, artifacts, answers, task_ledger, proc>>
      /\ job' = [job EXCEPT ![t] = row] /\ job[t].status \in {"QUEUED", "RUNNING", "RETRY_WAIT"}
      /\ job[t] \in JobRec
  BY DEF Cancel, RunType
<1>2. row \in JobRec /\ row.status = "CANCELLED" /\ row.stage = job[t].stage
  BY <1>1 DEF JobRec, JobStatuses
<1> HIDE DEF row
<1>3. JobRow(t) /\ job'[t] = row /\ OnlyTask(t)
  BY <1>1, <1>2 DEF JobRow, RunType, OnlyTask
<1>4. RunType'
  BY <1>1, <1>3 DEF RunType, JobRow
<1>5. ASSUME NEW q \in Procs PROVE JobProc(q)'
  <2>1. JobProc(q) /\ proc[q].task \in Tasks
    BY Typing DEF JobOK
  <2>2. CASE proc[q].task = t
    BY <1>1, <1>2, <1>3, <2>1, <2>2 DEF JobProc, Terminal
  <2>3. CASE proc[q].task # t
    <3>1. job'[proc[q].task] = job[proc[q].task]
      BY <1>3, <2>1, <2>3 DEF OnlyTask
    <3> QED BY <1>1, <2>1, <3>1 DEF JobProc
  <2> QED BY <2>2, <2>3
<1>6. ASSUME NEW u \in Tasks PROVE JobTask(u)' /\ LedgerTask(u)'
  <2>1. JobTask(u) /\ LedgerTask(u)
    BY DEF JobOK
  <2>2. job'[u] = job[u] \/ (/\ job[u].status \notin Terminal
                             /\ job'[u].status = "CANCELLED" /\ job'[u].stage = job[u].stage)
    BY <1>1, <1>2, <1>3 DEF OnlyTask, Terminal
  <2>3. JobTask(u)'
    BY <1>1, <2>1, <2>2 DEF JobTask
  <2>4. LedgerTask(u)'
    BY <1>1, <2>1, <2>2 DEF LedgerTask, OutcomeOf, Outcome
  <2> QED BY <2>3, <2>4
<1> QED BY <1>1, <1>3, <1>4, <1>5, <1>6 DEF JobOK, Terminal

-----------------------------------------------------------------------------
(***************************************************************************)
(* The transactions of the policy store.  StoreKept is what they leave to  *)
(* the others: a stored strategy keeps its origin, a bound place its       *)
(* strategies, and no application or outcome goes away.                    *)
(***************************************************************************)
StoreKept ==
    /\ \A s \in Strategies : Stored(s) =>
        Stored(s)' /\ strategies'[s].source = strategies[s].source
    /\ \A t \in Tasks : interventions[t] # Unbound => interventions'[t] = interventions[t]
    /\ applications \subseteq applications'
    /\ outcomes \subseteq outcomes'

LEMMA StoreStays ==
  ASSUME StoreType, UNCHANGED pvars
  PROVE  StoreType' /\ StoreKept
BY DEF StoreType, StoreKept, pvars, Stored

LEMMA ProposeFacts ==
  ASSUME StoreType, NEW s \in Strategies, NEW place \in Tasks, propose_strategy(s, place)
  PROVE  /\ StoreType' /\ StoreKept /\ Lengthens(outbox, outbox')
         /\ UNCHANGED <<applications, outcomes, interventions>>
         /\ \A u \in Strategies : strategies'[u].status = "ACTIVE" => strategies'[u] = strategies[u]
<1> DEFINE count == Cardinality({t \in Strategies : Stored(t)})
           row == [status |-> "CANDIDATE", source |-> place, created |-> count + 1]
<1>1. count \in Nat
  <2>1. IsFiniteSet({t \in Strategies : Stored(t)})
    BY StrategyAssumption, FS_Subset
  <2> QED BY <2>1, FS_CardinalityType
<1>2. strategies' = [strategies EXCEPT ![s] = row] /\ ~Stored(s)
  BY DEF propose_strategy
<1> HIDE DEF count
<1>3. row \in StrategyRec /\ row.status = "CANDIDATE"
  BY <1>1 DEF StrategyRec, Statuses
<1> HIDE DEF row
<1>4. /\ strategies' \in [Strategies -> StrategyRec] /\ strategies'[s] = row
      /\ \A u \in Strategies : u # s => strategies'[u] = strategies[u]
  BY <1>2, <1>3 DEF StoreType
<1>5. Lengthens(outbox, outbox') /\ UNCHANGED <<applications, outcomes, interventions>>
  BY EnqueueOne DEF propose_strategy, StoreType
<1>6. StoreType'
  BY <1>4, <1>5 DEF StoreType, Lengthens
<1>7. StoreKept
  BY <1>2, <1>4, <1>5 DEF StoreKept, Stored
<1> QED BY <1>3, <1>4, <1>5, <1>6, <1>7

LEMMA ApplicationFacts ==
  ASSUME StoreType, NEW s \in Strategies, NEW place \in Tasks, record_application(place, s)
  PROVE  /\ StoreType' /\ StoreKept /\ Lengthens(outbox, outbox')
         /\ applications' = applications \cup {<<place, s>>}
         /\ UNCHANGED <<strategies, outcomes, interventions>>
<1>1. Lengthens(outbox, outbox')
  BY EnqueueOne DEF record_application, StoreType
<1>2. /\ UNCHANGED <<strategies, outcomes, interventions>>
      /\ applications' = applications \cup {<<place, s>>}
  BY DEF record_application
<1>3. StoreType'
  BY <1>1, <1>2 DEF StoreType, Lengthens
<1>4. StoreKept
  BY <1>2 DEF StoreKept, Stored
<1> QED BY <1>1, <1>2, <1>3, <1>4

LEMMA OutcomeFacts ==
  ASSUME StoreType, NEW s \in Strategies, NEW place \in Tasks, NEW success \in BOOLEAN,
         record_outcome(place, s, success)
  PROVE  /\ StoreType' /\ StoreKept /\ Lengthens(outbox, outbox')
         /\ outcomes' = outcomes \cup {<<place, s, success>>}
         /\ <<place, s>> \in applications
         /\ UNCHANGED <<strategies, applications, interventions>>
<1>1. Lengthens(outbox, outbox')
  BY EnqueueOne DEF record_outcome, StoreType
<1>2. /\ UNCHANGED <<strategies, applications, interventions>>
      /\ outcomes' = outcomes \cup {<<place, s, success>>}
      /\ <<place, s>> \in applications
  BY DEF record_outcome
<1>3. outcomes' \subseteq Tasks \X Strategies \X BOOLEAN
  BY <1>2 DEF StoreType
<1>4. StoreType'
  BY <1>1, <1>2, <1>3 DEF StoreType, Lengthens
<1>5. StoreKept
  BY <1>2 DEF StoreKept, Stored
<1> QED BY <1>1, <1>2, <1>4, <1>5

LEMMA BindFacts ==
  ASSUME StoreType, NEW place \in Tasks, NEW chosen \in SUBSET Strategies,
         bind_sequence_intervention(place, chosen)
  PROVE  /\ StoreType' /\ StoreKept /\ Lengthens(outbox, outbox')
         /\ interventions[place] = Unbound /\ interventions'[place] = chosen
         /\ \A t \in Tasks : t # place => interventions'[t] = interventions[t]
         /\ UNCHANGED <<strategies, applications, outcomes>>
<1>1. Lengthens(outbox, outbox')
  BY EnqueueOne DEF bind_sequence_intervention, StoreType
<1>2. /\ UNCHANGED <<strategies, applications, outcomes>>
      /\ interventions[place] = Unbound
      /\ interventions' = [interventions EXCEPT ![place] = chosen]
  BY DEF bind_sequence_intervention
<1>3. /\ interventions' \in [Tasks -> {Unbound} \cup SUBSET Strategies]
      /\ interventions'[place] = chosen
      /\ \A t \in Tasks : t # place => interventions'[t] = interventions[t]
  BY <1>2 DEF StoreType
<1>4. StoreType'
  BY <1>1, <1>2, <1>3 DEF StoreType, Lengthens
<1>5. StoreKept
  BY <1>2, <1>3 DEF StoreKept, Stored
<1> QED BY <1>1, <1>2, <1>3, <1>4, <1>5

LEMMA TargetType ==
  ASSUME NEW s
  PROVE  TargetStatus(s) \in {"CANDIDATE", "ACTIVE", "SUSPENDED"}
BY DEF TargetStatus

LEMMA RefreshFacts ==
  ASSUME StoreType, refresh_statuses
  PROVE  /\ StoreType' /\ StoreKept /\ Lengthens(outbox, outbox')
         /\ UNCHANGED <<applications, outcomes, interventions>>
         /\ \A s \in Strategies : strategies'[s].status = "ACTIVE" =>
                strategies[s].status = "ACTIVE" \/ TargetStatus(s) = "ACTIVE"
<1> DEFINE Row(s) == IF s \in Moving THEN [strategies[s] EXCEPT !.status = TargetStatus(s)]
                                     ELSE strategies[s]
           keys == SetToSeq({TransitionKey(s) : s \in Moving})
<1>1. /\ strategies' = [s \in Strategies |-> Row(s)]
      /\ Enqueue(keys) /\ UNCHANGED <<applications, outcomes, interventions>>
  BY DEF refresh_statuses
<1>2. ASSUME NEW s \in Strategies
      PROVE  /\ Row(s) \in StrategyRec /\ Row(s).source = strategies[s].source
             /\ Row(s).status \in {strategies[s].status, TargetStatus(s)}
             /\ Stored(s) => Row(s).status # "NONE"
  <2>1. strategies[s] \in StrategyRec
    BY DEF StoreType
  <2>2. CASE s \in Moving
    <3>1. Row(s) = [strategies[s] EXCEPT !.status = TargetStatus(s)]
      BY <2>2
    <3> HIDE DEF Row
    <3> QED BY <2>1, <3>1, TargetType DEF StrategyRec, Statuses
  <2>3. CASE s \notin Moving
    BY <2>1, <2>3 DEF StrategyRec, Stored
  <2> QED BY <2>2, <2>3
<1> HIDE DEF Row
<1>3. strategies' \in [Strategies -> StrategyRec] /\ \A s \in Strategies : strategies'[s] = Row(s)
  BY <1>1, <1>2
<1>4. IsSequence(keys)
  <2>1. IsFiniteSet(Moving)
    BY StrategyAssumption, FS_Subset DEF Moving
  <2>2. IsFiniteSet({TransitionKey(s) : s \in Moving})
    <3> DEFINE T == {TransitionKey(s) : s \in Moving}
               f == [s \in Moving |-> TransitionKey(s)]
    <3>1. f \in Surjection(Moving, T)
      BY DEF Surjection
    <3> HIDE DEF f, T
    <3>2. IsFiniteSet(T)
      BY <2>1, <3>1, FS_Surjection
    <3> QED BY <3>2 DEF T
  <2> QED BY <2>2, SetToSeqFacts
<1> HIDE DEF keys
<1>5. Lengthens(outbox, outbox')
  BY <1>1, <1>4, EnqueueFacts DEF StoreType
<1>6. StoreType'
  BY <1>1, <1>3, <1>5 DEF StoreType, Lengthens
<1>7. StoreKept
  BY <1>1, <1>2, <1>3 DEF StoreKept, Stored
<1> QED BY <1>1, <1>2, <1>3, <1>5, <1>6, <1>7

LEMMA MarkedEntry ==
  ASSUME NEW entry, entry = [key |-> entry.key, dispatched |-> entry.dispatched], NEW e
  PROVE  [entry EXCEPT !.dispatched = e] = [key |-> entry.key, dispatched |-> e]
OBVIOUS

\* One entry of the outbox is marked.
LEMMA MarkFacts ==
  ASSUME StoreType, NEW n \in 1 .. Len(outbox), mark_dispatched(n)
  PROVE  /\ StoreType' /\ StoreKept
         /\ UNCHANGED <<strategies, applications, outcomes, interventions>>
         /\ Len(outbox') = Len(outbox)
         /\ \A i \in 1 .. Len(outbox) :
                outbox'[i].key = outbox[i].key /\ (i # n => outbox'[i] = outbox[i])
<1>0. PICK b : b = TRUE
  OBVIOUS
<1>1. /\ outbox' = [outbox EXCEPT ![n] = [outbox[n] EXCEPT !.dispatched = b]]
      /\ UNCHANGED <<strategies, applications, outcomes, interventions>>
  BY <1>0 DEF mark_dispatched
<1>2. /\ IsSequence(outbox) /\ Len(outbox) \in Nat
      /\ outbox = [i \in 1 .. Len(outbox) |-> outbox[i]]
      /\ outbox[n] = [key |-> outbox[n].key, dispatched |-> outbox[n].dispatched]
  BY DEF StoreType, OutboxOK, IsSequence
<1> DEFINE entry == [key |-> outbox[n].key, dispatched |-> b]
<1>3. [outbox[n] EXCEPT !.dispatched = b] = entry
  BY <1>2, MarkedEntry, Zenon
<1>4. outbox' = [i \in 1 .. Len(outbox) |-> IF i = n THEN entry ELSE outbox[i]]
  BY <1>1, <1>2, <1>3
<1>5. entry.key = outbox[n].key /\ entry.dispatched = b /\ b \in BOOLEAN
  BY <1>0
<1>6. entry = [key |-> entry.key, dispatched |-> entry.dispatched] /\ entry.dispatched \in BOOLEAN
  BY <1>5, Zenon
<1> HIDE DEF entry
<1>7. IsSequence(outbox') /\ Len(outbox') = Len(outbox)
  BY <1>2, <1>4 DEF IsSequence
<1>8. outbox'[n] = entry /\ \A i \in 1 .. Len(outbox) : i # n => outbox'[i] = outbox[i]
  BY <1>4
<1>9. OutboxOK(outbox')
  <2> SUFFICES ASSUME NEW i \in 1 .. Len(outbox)
               PROVE  /\ outbox'[i] = [key |-> outbox'[i].key, dispatched |-> outbox'[i].dispatched]
                      /\ outbox'[i].dispatched \in BOOLEAN
    BY <1>7, Zenon DEF OutboxOK
  <2>1. CASE i = n
    BY <1>6, <1>8, <2>1, Zenon
  <2>2. CASE i # n
    BY <1>8, <2>2, Zenon DEF StoreType, OutboxOK
  <2> QED BY <2>1, <2>2
<1>10. StoreType' /\ StoreKept
  BY <1>1, <1>9 DEF StoreType, StoreKept, Stored
<1> QED BY <1>1, <1>5, <1>7, <1>8, <1>10

-----------------------------------------------------------------------------
(***************************************************************************)
(* The flush of the outbox.                                                *)
(***************************************************************************)

\* A set of naturals that is not empty has a least element.
LEMMA HasLeast ==
  ASSUME NEW T, T \subseteq Nat, T # {}
  PROVE  \E n \in T : \A m \in T : n <= m
<1> DEFINE Less == {r \in Nat \X Nat : r[1] < r[2]}
<1>1. IsWellFoundedOn(Less, Nat)
  BY NatLessThanWellFounded DEF OpToRel
<1>2. PICK n \in T : \A m \in T : ~(<<m, n>> \in Less)
  BY <1>1, WFMin
<1>3. \A m \in T : ~(m < n)
  BY <1>2
<1> QED BY <1>3

LEMMA FirstInBatch ==
  ASSUME RunType, NEW p \in Procs, proc[p].batch # {}
  PROVE  First(p) \in proc[p].batch
<1>1. proc[p].batch \subseteq Nat
  BY DEF RunType, ProcRec
<1>2. \E n \in proc[p].batch : \A m \in proc[p].batch : n <= m
  BY <1>1, HasLeast
<1> QED BY <1>2 DEF First

\* The keys of the outbox are fixed, the policy ledger only grows.
AuditKept ==
    /\ \A n \in 1 .. Len(outbox) : n \in 1 .. Len(outbox') /\ outbox'[n].key = outbox[n].key
    /\ Loads(policy_ledger') => Loads(policy_ledger)
    /\ \A k : WithKey(policy_ledger, k) # {} => WithKey(policy_ledger', k) # {}

LEMMA AuditOther ==
  ASSUME RunType, AuditKept, NEW q \in Procs, AuditProc(q), proc'[q] = proc[q]
  PROVE  AuditProc(q)'
<1>1. proc[q].batch \subseteq 1 .. Len(outbox')
  BY DEF AuditKept, AuditProc
<1>2. CASE proc[q].pc = "mark" /\ Loads(policy_ledger')
  <2>1. First(q) \in 1 .. Len(outbox)
    BY <1>2, FirstInBatch DEF AuditProc
  <2>2. First(q)' = First(q)
    BY DEF First
  <2>3. WithKey(policy_ledger, outbox[First(q)].key) # {}
    BY <1>2 DEF AuditProc, AuditKept
  <2>4. WithKey(policy_ledger', outbox'[First(q)].key) # {}
    BY <2>1, <2>3 DEF AuditKept
  <2> QED BY <1>1, <2>2, <2>4 DEF AuditProc
<1>3. CASE ~(proc[q].pc = "mark" /\ Loads(policy_ledger'))
  BY <1>1, <1>3 DEF AuditProc
<1> QED BY <1>2, <1>3

LEMMA AuditCombine ==
  ASSUME RunType, AuditOK, NEW p \in Procs, Only(p), AuditKept, AuditBox', AuditProc(p)'
  PROVE  AuditOK'
<1>1. ASSUME NEW q \in Procs, q # p PROVE AuditProc(q)'
  BY <1>1, AuditOther DEF Only, AuditOK
<1> QED BY <1>1 DEF AuditOK

\* A process that neither appends nor acknowledges next.
Calm(p) ==
    /\ proc'[p].pc \notin {"append", "mark"}
    /\ proc'[p].batch \in {proc[p].batch, {}}

\* Events are enqueued, or nothing at all is done to the outbox.
LEMMA AuditCalm ==
  ASSUME RunType, AuditOK, NEW p \in Procs, Only(p), Calm(p), policy_ledger' = policy_ledger,
         outbox' = outbox \/ Lengthens(outbox, outbox')
  PROVE  AuditOK'
<1>1. AuditKept
  BY DEF AuditKept, Lengthens
<1>2. AuditProc(p)'
  BY <1>1 DEF AuditOK, AuditProc, Calm, AuditKept
<1>3. AuditBox'
  BY DEF AuditOK, AuditBox, Lengthens
<1> QED BY <1>1, <1>2, <1>3, AuditCombine

\* The policy ledger is extended, the outbox stays.
LEMMA AuditExtends ==
  ASSUME RunType, AuditOK, outbox' = outbox, NEW event,
         Extends(policy_ledger, policy_ledger', event)
  PROVE  AuditKept /\ AuditBox'
<1>1. \A k : WithKey(policy_ledger, k) # {} => WithKey(policy_ledger', k) # {}
  BY ExtendsKeys
<1>2. Loads(policy_ledger') => Loads(policy_ledger)
  BY DEF Extends
<1>3. AuditKept
  BY <1>1, <1>2 DEF AuditKept
<1>4. AuditBox'
  BY <1>1, <1>2 DEF AuditOK, AuditBox
<1> QED BY <1>3, <1>4

-----------------------------------------------------------------------------
(***************************************************************************)
(* The memory.                                                             *)
(***************************************************************************)
LEMMA ForeignKept ==
  ASSUME StoreKept, NEW s \in Strategies, NEW t \in Tasks, Foreign(s, t)
  PROVE  Foreign(s, t)'
BY DEF StoreKept, Foreign, SourceFamily

\* What is bound or put is what a task may be given.
LEMMA MemoryCombine ==
  ASSUME StoreType, StoreType', RunType, MemoryOK, StoreKept, NEW p \in Procs, Only(p),
         MemoryProc(p)',
         \A t \in Tasks : \/ interventions'[t] = interventions[t]
                          \/ \A s \in interventions'[t] : Foreign(s, t),
         \A t \in Tasks : \/ artifacts'[t]["plan"] = artifacts[t]["plan"]
                          \/ /\ artifacts'[t]["plan"] = interventions[t]
                             /\ interventions[t] # Unbound,
         \A a \in applications' : a \in applications \/ a[2] \in interventions[a[1]]
  PROVE  MemoryOK'
<1>1. ASSUME NEW q \in Procs PROVE MemoryProc(q)'
  <2>1. CASE q # p
    <3>1. /\ MemoryProc(q) /\ proc'[q] = proc[q] /\ proc[q].task \in Tasks
          /\ proc[q].selected \subseteq Strategies
      BY <2>1, Typing DEF MemoryOK, Only
    <3>2. \A s \in proc[q].selected : Foreign(s, proc[q].task) =>
            (Stored(s)' /\ SourceFamily(s)' # Family[proc[q].task])
      BY <3>1 DEF StoreKept, Foreign, SourceFamily
    <3> QED BY <3>1, <3>2 DEF MemoryProc, StoreKept, Foreign
  <2> QED BY <2>1
<1>2. ASSUME NEW t \in Tasks PROVE MemoryTask(t)'
  <2>1. MemoryTask(t)
    BY DEF MemoryOK
  <2>2. interventions'[t] # Unbound => \A s \in interventions'[t] : Foreign(s, t)'
    <3> SUFFICES ASSUME interventions'[t] # Unbound, NEW s \in interventions'[t]
                 PROVE  Foreign(s, t)'
      OBVIOUS
    <3>1. s \in Strategies
      BY DEF StoreType
    <3>2. Foreign(s, t)
      BY <2>1 DEF MemoryTask
    <3> QED BY <3>1, <3>2, ForeignKept
  <2>3. artifacts'[t]["plan"] # NoValue =>
            interventions'[t] # Unbound /\ artifacts'[t]["plan"] = interventions'[t]
    BY <2>1 DEF MemoryTask, StoreKept
  <2> QED BY <2>2, <2>3 DEF MemoryTask
<1>3. ASSUME NEW a \in applications' PROVE a[2] \in interventions'[a[1]]
  <2>1. a[1] \in Tasks /\ a[2] \in Strategies
    BY DEF StoreType
  <2>2. a[2] \in interventions[a[1]]
    BY DEF MemoryOK
  <2>3. interventions[a[1]] # Unbound
    BY <2>1, <2>2, StrategyAssumption DEF Unbound
  <2> QED BY <2>1, <2>2, <2>3 DEF StoreKept
<1> QED BY <1>1, <1>2, <1>3 DEF MemoryOK

-----------------------------------------------------------------------------
(***************************************************************************)
(* The credit.                                                             *)
(***************************************************************************)

\* The verdict on a job that has ended does not change.
VerdictsKept ==
    \A t \in Tasks : job[t].status \in Terminal =>
        /\ job'[t] = job[t]
        /\ job[t].status = "SUCCEEDED" => answers'[t] = answers[t]

LEMMA EarnedKept ==
  ASSUME StoreType, OutcomesOK, StoreKept, VerdictsKept, NEW s \in Strategies, Earned(s)
  PROVE  Earned(s)'
<1>1. PICK tasks \in SUBSET {t \in Tasks : application_has_outcome(t, s)} :
        /\ Cardinality(tasks) >= MinEvaluations
        /\ Wilson[<<Cardinality({t \in tasks : Completed(t) /\ answers[t].good}),
                    Cardinality(tasks)>>] >= Activation
  BY DEF Earned
<1>2. ASSUME NEW t \in tasks
      PROVE  /\ t \in Tasks /\ application_has_outcome(t, s)'
             /\ (Completed(t) /\ answers[t].good) <=> (Completed(t) /\ answers[t].good)'
  <2>1. PICK o \in outcomes : o[1] = t /\ o[2] = s
    BY <1>1 DEF application_has_outcome
  <2>2. t \in Tasks /\ job[t].status \in Terminal
    BY <1>1, <2>1 DEF OutcomesOK
  <2>3. o \in outcomes'
    BY <2>1 DEF StoreKept
  <2>4. application_has_outcome(t, s)'
    BY <2>1, <2>3 DEF application_has_outcome
  <2> QED BY <2>2, <2>4 DEF VerdictsKept, Completed
<1>3. {t \in tasks : Completed(t) /\ answers[t].good}
        = {t \in tasks : (Completed(t) /\ answers[t].good)'}
  BY <1>2
<1>4. tasks \in SUBSET {t \in Tasks : application_has_outcome(t, s)'}
  BY <1>2
<1> QED BY <1>1, <1>3, <1>4 DEF Earned

LEMMA CreditCombine ==
  ASSUME StoreType, OutcomesOK, StoreKept, VerdictsKept, CreditOK,
         \A o \in outcomes' : \/ o \in outcomes
                              \/ /\ <<o[1], o[2]>> \in applications /\ o[1] \in Tasks
                                 /\ job[o[1]].status \in Terminal
                                 /\ o[3] = evaluate(o[1]),
         \A s \in Strategies : strategies'[s].status = "ACTIVE" =>
            strategies[s].status = "ACTIVE" \/ Earned(s)
  PROVE  CreditOK'
<1>1. OutcomesOK'
  <2> SUFFICES ASSUME NEW o \in outcomes'
               PROVE  /\ <<o[1], o[2]>> \in applications'
                      /\ job'[o[1]].status \in Terminal
                      /\ o[3] = evaluate(o[1])'
    BY DEF OutcomesOK
  <2>1. /\ <<o[1], o[2]>> \in applications /\ o[1] \in Tasks
        /\ job[o[1]].status \in Terminal /\ o[3] = evaluate(o[1])
    BY DEF OutcomesOK, StoreType
  <2>2. evaluate(o[1])' <=> evaluate(o[1])
    BY <2>1 DEF VerdictsKept, evaluate, Completed
  <2>3. <<o[1], o[2]>> \in applications' /\ job'[o[1]].status \in Terminal
    BY <2>1 DEF VerdictsKept, StoreKept
  <2> QED BY <2>1, <2>2, <2>3 DEF evaluate
<1>2. ASSUME NEW s \in Strategies, strategies'[s].status = "ACTIVE" PROVE Earned(s)'
  BY <1>2, EarnedKept DEF CreditOK
<1> QED BY <1>1, <1>2 DEF CreditOK

\* A status that refresh_statuses gives is earned.
LEMMA TargetEarned ==
  ASSUME StoreType, MemoryOK, OutcomesOK, NEW s \in Strategies, TargetStatus(s) = "ACTIVE"
  PROVE  Earned(s)
<1> DEFINE T == {t \in Tasks : application_has_outcome(t, s)}
           Good(t) == Completed(t) /\ answers[t].good
           f == [t \in T |-> <<t, s, evaluate(t)>>]
           W == {t \in T : Good(t)}
           g == [t \in W |-> <<t, s, evaluate(t)>>]
           C == Credited(s)
           D == {o \in C : o[3]}
<1>1. /\ ~(Evaluations(s) < MinEvaluations)
      /\ WilsonLower(s) >= Activation
  BY DEF TargetStatus
<1>2. ASSUME NEW o \in outcomes, o[2] = s
      PROVE  o[1] \in T /\ o = <<o[1], s, evaluate(o[1])>> /\ o \in C
  <2>1. o = <<o[1], o[2], o[3]>> /\ o[1] \in Tasks
    BY DEF StoreType
  <2>2. o[3] = evaluate(o[1]) /\ <<o[1], s>> \in applications
    BY <1>2 DEF OutcomesOK
  <2>3. s \in interventions[o[1]]
    BY <2>2 DEF MemoryOK
  <2>4. interventions[o[1]] # Unbound
    BY <2>3, StrategyAssumption DEF Unbound
  <2>5. Family[o[1]] # SourceFamily(s)
    BY <2>1, <2>3, <2>4 DEF MemoryOK, MemoryTask, Foreign
  <2>6. o[1] \in T
    BY <1>2, <2>1 DEF application_has_outcome
  <2> QED BY <1>2, <2>1, <2>2, <2>5, <2>6 DEF Credited
<1>3. ASSUME NEW t \in T PROVE <<t, s, evaluate(t)>> \in C
  <2>1. PICK o \in outcomes : o[1] = t /\ o[2] = s
    BY DEF application_has_outcome
  <2> QED BY <1>2, <2>1
<1>4. f \in Bijection(T, C)
  <2>1. f \in [T -> C]
    BY <1>3
  <2>2. \A a, b \in T : f[a] = f[b] => a = b
    OBVIOUS
  <2>3. \A o \in C : \E t \in T : f[t] = o
    BY <1>2 DEF Credited
  <2> QED BY <2>1, <2>2, <2>3 DEF Bijection, Injection, Surjection, IsInjective
<1>5. g \in Bijection(W, D)
  <2>1. \A t \in W : <<t, s, evaluate(t)>> \in D
    BY <1>3 DEF evaluate
  <2>2. g \in [W -> D]
    BY <2>1
  <2>3. \A a, b \in W : g[a] = g[b] => a = b
    OBVIOUS
  <2>4. ASSUME NEW o \in D PROVE \E t \in W : g[t] = o
    <3>1. o \in outcomes /\ o[2] = s /\ o[3]
      BY DEF Credited
    <3>2. o[1] \in T /\ o = <<o[1], s, evaluate(o[1])>>
      BY <1>2, <3>1
    <3>3. o[3] = evaluate(o[1])
      BY <3>1 DEF OutcomesOK
    <3>4. evaluate(o[1])
      BY <3>1, <3>3
    <3>5. o[1] \in W
      BY <3>2, <3>4 DEF evaluate
    <3>6. g[o[1]] = o
      BY <3>2, <3>5
    <3> QED BY <3>5, <3>6
  <2> QED BY <2>2, <2>3, <2>4 DEF Bijection, Injection, Surjection, IsInjective
<1>6. IsFiniteSet(T) /\ IsFiniteSet(W)
  BY TaskAssumption, FS_Subset
<1> HIDE DEF f, g, C, D
<1>7. Cardinality(T) = Cardinality(C) /\ Cardinality(W) = Cardinality(D)
  BY <1>4, <1>5, <1>6, FS_Bijection DEF ExistsBijection
<1>8. Cardinality(T) \in Nat
  BY <1>6, FS_CardinalityType
<1>9. Evaluations(s) = Cardinality(T) /\ Successes(s) = Cardinality(W)
  BY <1>7 DEF Evaluations, Successes, C, D
<1>10. Cardinality(T) >= MinEvaluations /\ Cardinality(T) # 0
  BY <1>1, <1>8, <1>9, ThresholdAssumption
<1>11. Wilson[<<Cardinality(W), Cardinality(T)>>] >= Activation
  BY <1>1, <1>9, <1>10 DEF WilsonLower
<1> QED BY <1>10, <1>11 DEF Earned

-----------------------------------------------------------------------------
(***************************************************************************)
(* Every step keeps the invariant.                                         *)
(***************************************************************************)

\* A step that leaves the jobs alone and stays behind or before the task.
LEMMA QuietRun ==
  ASSUME RunType, JobOK, NEW p \in Procs, Only(p), LedgerOK(policy_ledger'),
         UNCHANGED <<job, reserved, artifacts, answers, task_ledger>>,
         \/ proc'[p].pc \in {"select", "bind", "create", "done"}
         \/ /\ proc[p].pc \in AfterTaskPCs /\ proc'[p].pc \in AfterTaskPCs
            /\ proc'[p].task = proc[p].task
  PROVE  RunType' /\ JobOK' /\ VerdictsKept
<1>1. PICK t \in Tasks : t = proc[p].task
  BY Typing
<1>2. RunType'
  BY DEF RunType, Only
<1>3. OnlyTask(t) /\ Kept(p, t)
  BY DEF OnlyTask, Kept, RowKept
<1>4. JobProc(p)'
  BY DEF JobOK, JobProc, InTaskPCs, AfterTaskPCs
<1>5. JobTask(t)'
  BY DEF JobOK, JobTask
<1>6. JobOK'
  BY <1>3, <1>4, <1>5, JobCombine
<1>7. VerdictsKept
  BY DEF VerdictsKept
<1> QED BY <1>2, <1>6, <1>7

\* A process keeps what it was given until it is through with the task.
LEMMA MemoryOwn ==
  ASSUME RunType, MemoryOK, StoreKept, NEW p \in Procs,
         \/ proc'[p].pc \in {"select", "done"}
         \/ /\ proc[p].pc \in BoundPCs /\ proc'[p].pc \in BoundPCs
            /\ proc'[p].task = proc[p].task /\ proc'[p].selected = proc[p].selected
  PROVE  MemoryProc(p)'
<1>1. proc[p].task \in Tasks /\ MemoryProc(p)
  BY Typing DEF MemoryOK
<1> QED BY <1>1 DEF MemoryProc, StoreKept, BoundPCs, InTaskPCs, AfterTaskPCs

\* The four parts together, for a step that puts no plan.
LEMMA Combined ==
  ASSUME OInv, NEW p \in Procs, Only(p), StoreType', StoreKept, RunType', JobOK', VerdictsKept,
         AuditOK', MemoryProc(p)', artifacts' = artifacts,
         \A t \in Tasks : \/ interventions'[t] = interventions[t]
                          \/ \A s \in interventions'[t] : Foreign(s, t),
         \A a \in applications' : a \in applications \/ a[2] \in interventions[a[1]],
         \A o \in outcomes' : \/ o \in outcomes
                              \/ /\ <<o[1], o[2]>> \in applications /\ o[1] \in Tasks
                                 /\ job[o[1]].status \in Terminal
                                 /\ o[3] = evaluate(o[1]),
         \A s \in Strategies : strategies'[s].status = "ACTIVE" =>
            strategies[s].status = "ACTIVE" \/ Earned(s)
  PROVE  OInv'
<1>1. StoreType /\ RunType /\ MemoryOK /\ CreditOK /\ OutcomesOK
  BY DEF OInv, CreditOK
<1>2. MemoryOK'
  BY <1>1, MemoryCombine
<1>3. CreditOK'
  BY <1>1, CreditCombine
<1> QED BY <1>2, <1>3 DEF OInv

\* For a step that leaves the tables of the store alone.
LEMMA CombinedStore ==
  ASSUME OInv, NEW p \in Procs, Only(p), StoreType', StoreKept, RunType', JobOK', VerdictsKept,
         AuditOK', MemoryProc(p)', artifacts' = artifacts,
         UNCHANGED <<strategies, applications, outcomes, interventions>>
  PROVE  OInv'
BY Combined

LEMMA TaskKeeps ==
  ASSUME OInv, NEW p \in Procs, Task(p)
  PROVE  OInv'
<1>1. StoreType /\ RunType /\ AuditOK /\ MemoryOK /\ JobOK /\ CreditOK /\ OutcomesOK
  BY DEF OInv, CreditOK
<1>2. TaskStep(p) /\ JobOK'
  BY <1>1, RunTaskStep
<1>3. UNCHANGED pvars /\ policy_ledger' = policy_ledger
  BY DEF Task
<1>4. /\ RunType' /\ Only(p) /\ OnlyTask(proc[p].task) /\ Kept(p, proc[p].task)
      /\ \/ /\ SameTask(p)
            /\ proc[p].pc \in BoundPCs /\ proc'[p].pc \in BoundPCs \ {"append", "mark"}
         \/ proc'[p] = Start
      /\ artifacts'[proc[p].task]["plan"] \in {artifacts[proc[p].task]["plan"], proc[p].selected}
  BY <1>2 DEF TaskStep
<1>5. StoreType' /\ StoreKept
  BY <1>1, <1>3, StoreStays
<1>6. /\ outbox' = outbox /\ applications' = applications /\ outcomes' = outcomes
      /\ interventions' = interventions /\ strategies' = strategies
  BY <1>3 DEF pvars
<1>7. AuditOK'
  <2>1. Calm(p)
    BY <1>4 DEF Calm, SameTask, Start
  <2> QED BY <1>1, <1>3, <1>4, <1>6, <2>1, AuditCalm
<1>8. MemoryOK'
  <2>1. MemoryProc(p)'
    BY <1>1, <1>4, <1>5, MemoryOwn DEF SameTask, Start
  <2>2. proc[p].task \in Tasks /\ MemoryProc(p) /\ MemoryTask(proc[p].task)
    BY <1>1, Typing DEF MemoryOK
  <2>3. ASSUME NEW t \in Tasks
        PROVE  \/ artifacts'[t]["plan"] = artifacts[t]["plan"]
               \/ /\ artifacts'[t]["plan"] = interventions[t]
                  /\ interventions[t] # Unbound
    <3>1. proc[p].pc \in BoundPCs
      BY Zenon DEF Task, RunTask, CreateJob, Claim, BeginStage, Reserve, Handle,
         ReadAndPropose, HandlerFails, Checkpoint, Finalize, NoticeCancel, Report, Commit,
         At, BoundPCs, InTaskPCs
    <3>2. CASE t # proc[p].task
      BY <1>4, <3>2 DEF OnlyTask
    <3>3. CASE t = proc[p].task
      BY <1>4, <2>2, <3>1, <3>3 DEF MemoryProc
    <3> QED BY <3>2, <3>3
  <2> QED BY <1>1, <1>4, <1>5, <1>6, <2>1, <2>3, MemoryCombine
<1>9. VerdictsKept
  <2> SUFFICES ASSUME NEW t \in Tasks, job[t].status \in Terminal
               PROVE  /\ job'[t] = job[t]
                      /\ job[t].status = "SUCCEEDED" => answers'[t] = answers[t]
    BY DEF VerdictsKept
  <2>1. JobTask(t)
    BY <1>1 DEF JobOK
  <2>2. CASE t # proc[p].task
    BY <1>4, <2>2 DEF OnlyTask
  <2>3. CASE t = proc[p].task
    BY <1>4, <2>1, <2>3 DEF Kept, RowKept, JobTask
  <2> QED BY <2>2, <2>3
<1>10. CreditOK'
  BY <1>1, <1>5, <1>6, <1>9, CreditCombine
<1> QED BY <1>2, <1>4, <1>5, <1>7, <1>8, <1>10 DEF OInv

\* What is chosen may be given to the task.
LEMMA SelectionsFit ==
  ASSUME StoreType, NEW t \in Tasks, NEW chosen \in Selections(t)
  PROVE  chosen \subseteq Strategies /\ \A s \in chosen : Foreign(s, t)
<1>1. ASSUME NEW s \in recall_active(Family[t])
      PROVE  s \in Strategies /\ Foreign(s, t)
  BY DEF recall_active, ActiveFor, Foreign, Stored
<1>2. ASSUME NEW s \in recall_candidate_for_evaluation(Family[t])
      PROVE  s \in Strategies /\ Foreign(s, t)
  BY DEF recall_candidate_for_evaluation, Untried, Foreign, Stored
<1>3. ASSUME NEW s \in recall_uncredited(Family[t])
      PROVE  s \in Strategies /\ Foreign(s, t)
  BY DEF recall_uncredited, Foreign
<1>4. \/ chosen = recall_uncredited(Family[t])
      \/ chosen = {}
      \/ \E s \in recall_active(Family[t]) \cup recall_candidate_for_evaluation(Family[t]) :
            chosen = {s}
  BY DEF Selections
<1> QED BY <1>1, <1>2, <1>3, <1>4

LEMMA SelectKeeps ==
  ASSUME OInv, NEW p \in Procs, Select(p)
  PROVE  OInv'
<1>1. StoreType /\ RunType /\ AuditOK /\ MemoryOK /\ JobOK /\ CreditOK
  BY DEF OInv
<1>2. PICK t \in Tasks : t = proc[p].task
  BY <1>1, Typing
<1>3. /\ proc[p] \in ProcRec /\ MemoryTask(t) /\ LedgerOK(policy_ledger)
  BY <1>1, Typing DEF MemoryOK, RunType
<1>4. PICK chosen \in IF interventions[t] # Unbound THEN {interventions[t]} ELSE Selections(t) :
        proc' = [proc EXCEPT ![p] = [proc[p] EXCEPT !.selected = chosen, !.pc = "bind"]]
  BY <1>2 DEF Select
<1>5. UNCHANGED <<pvars, job, reserved, artifacts, answers, task_ledger, policy_ledger>>
  BY DEF Select
<1>6. chosen \subseteq Strategies /\ \A s \in chosen : Foreign(s, t)
  <2>1. CASE interventions[t] # Unbound
    BY <1>1, <1>3, <1>4, <2>1 DEF MemoryTask, StoreType
  <2>2. CASE interventions[t] = Unbound
    BY <1>1, <1>4, <2>2, SelectionsFit
  <2> QED BY <2>1, <2>2
<1> DEFINE rec == [proc[p] EXCEPT !.selected = chosen, !.pc = "bind"]
<1>7. /\ rec \in ProcRec /\ rec.pc = "bind" /\ rec.selected = chosen /\ rec.task = t
      /\ rec.batch = proc[p].batch
  BY <1>2, <1>3, <1>6 DEF ProcRec, PCs
<1>8. proc' = [proc EXCEPT ![p] = rec]
  BY <1>4
<1> HIDE DEF rec
<1>9. Only(p) /\ proc'[p] = rec
  BY <1>1, <1>7, <1>8 DEF Only, RunType
<1>10. StoreType' /\ StoreKept
  BY <1>1, <1>5, StoreStays
<1>11. RunType' /\ JobOK' /\ VerdictsKept
  BY <1>1, <1>3, <1>5, <1>7, <1>9, QuietRun
<1>12. AuditOK'
  BY <1>1, <1>5, <1>7, <1>9, AuditCalm DEF Calm, pvars
<1>13. MemoryProc(p)'
  <2>1. \A s \in chosen : Foreign(s, t)'
    BY <1>6, <1>10, ForeignKept
  <2>2. "bind" \notin BoundPCs
    BY DEF BoundPCs, InTaskPCs, AfterTaskPCs
  <2> QED BY <1>7, <1>9, <2>1, <2>2 DEF MemoryProc
<1> QED BY <1>5, <1>9, <1>10, <1>11, <1>12, <1>13, CombinedStore DEF pvars

LEMMA BindKeeps ==
  ASSUME OInv, NEW p \in Procs, Bind(p)
  PROVE  OInv'
<1>1. StoreType /\ RunType /\ AuditOK /\ MemoryOK /\ JobOK /\ CreditOK
  BY DEF OInv
<1>2. PICK t \in Tasks : t = proc[p].task
  BY <1>1, Typing
<1>3. PICK chosen \in SUBSET Strategies : chosen = proc[p].selected
  BY <1>1, Typing
<1>4. /\ proc[p].pc = "bind" /\ MemoryProc(p) /\ LedgerOK(policy_ledger)
      /\ UNCHANGED <<job, reserved, artifacts, answers, task_ledger, policy_ledger>>
  BY <1>1 DEF Bind, At, MemoryOK, RunType
<1>5. "create" \in PCs
  BY DEF PCs, BoundPCs
<1>6. "unbound" \notin chosen
  BY StrategyAssumption
<1>7. \A s \in chosen : Foreign(s, t)
  BY <1>2, <1>3, <1>4 DEF MemoryProc
<1>8. CASE bind_sequence_intervention(t, chosen) /\ Goto(p, "create")
  <2>1. /\ StoreType' /\ StoreKept /\ Lengthens(outbox, outbox')
        /\ interventions[t] = Unbound /\ interventions'[t] = chosen
        /\ \A u \in Tasks : u # t => interventions'[u] = interventions[u]
        /\ UNCHANGED <<strategies, applications, outcomes>>
    BY <1>1, <1>8, BindFacts
  <2>2. Only(p) /\ SameTask(p) /\ proc'[p].pc = "create"
    BY <1>1, <1>5, <1>8, GotoFacts DEF RunType
  <2>3. RunType' /\ JobOK' /\ VerdictsKept
    BY <1>1, <1>4, <2>2, QuietRun
  <2>4. AuditOK'
    BY <1>1, <1>4, <2>1, <2>2, AuditCalm DEF Calm, SameTask
  <2>5. MemoryProc(p)'
    <3>1. proc'[p].task = t /\ proc'[p].selected = chosen
      BY <1>2, <1>3, <2>2 DEF SameTask
    <3>2. chosen # Unbound
      BY <1>6 DEF Unbound
    <3> QED BY <2>1, <2>2, <3>1, <3>2 DEF MemoryProc
  <2>6. \A u \in Tasks : \/ interventions'[u] = interventions[u]
                         \/ \A s \in interventions'[u] : Foreign(s, u)
    BY <1>7, <2>1
  <2> QED BY <1>4, <2>1, <2>2, <2>3, <2>4, <2>5, <2>6, Combined
<1>9. CASE /\ interventions[t] = chosen /\ interventions[t] # Unbound
           /\ Goto(p, "create") /\ UNCHANGED pvars
  <2>1. Only(p) /\ SameTask(p) /\ proc'[p].pc = "create"
    BY <1>1, <1>5, <1>9, GotoFacts DEF RunType
  <2>2. StoreType' /\ StoreKept
    BY <1>1, <1>9, StoreStays
  <2>3. RunType' /\ JobOK' /\ VerdictsKept
    BY <1>1, <1>4, <2>1, QuietRun
  <2>4. AuditOK'
    BY <1>1, <1>4, <1>9, <2>1, AuditCalm DEF Calm, SameTask, pvars
  <2>5. MemoryProc(p)'
    BY <1>2, <1>3, <1>9, <2>1 DEF MemoryProc, SameTask, pvars
  <2> QED BY <1>4, <1>9, <2>1, <2>2, <2>3, <2>4, <2>5, CombinedStore DEF pvars
<1>10. CASE Stop(p) /\ UNCHANGED pvars
  <2>1. Only(p) /\ proc'[p] = Start
    BY <1>1, <1>10, StopFacts DEF RunType
  <2>2. StoreType' /\ StoreKept
    BY <1>1, <1>10, StoreStays
  <2>3. RunType' /\ JobOK' /\ VerdictsKept
    BY <1>1, <1>4, <2>1, QuietRun DEF Start
  <2>4. AuditOK'
    BY <1>1, <1>4, <1>10, <2>1, AuditCalm DEF Calm, Start, pvars
  <2>5. MemoryProc(p)'
    BY <1>1, <2>1, <2>2, MemoryOwn DEF Start
  <2> QED BY <1>4, <1>10, <2>1, <2>2, <2>3, <2>4, <2>5, CombinedStore DEF pvars
<1> QED BY <1>2, <1>3, <1>8, <1>9, <1>10 DEF Bind

\* A transaction of the store behind the task.
LEMMA QuietAfter ==
  ASSUME OInv, NEW p \in Procs, proc[p].pc \in AfterTaskPCs \ {"append", "mark"}, Rest,
         StoreType', StoreKept, outbox' = outbox \/ Lengthens(outbox, outbox'),
         NEW pc \in AfterTaskPCs \ {"append", "mark"},
         UNCHANGED proc \/ Goto(p, pc)
  PROVE  /\ Only(p) /\ RunType' /\ JobOK' /\ VerdictsKept /\ AuditOK' /\ MemoryProc(p)'
         /\ artifacts' = artifacts
<1>1. StoreType /\ RunType /\ AuditOK /\ MemoryOK /\ JobOK /\ CreditOK
  BY DEF OInv
<1>2. pc \in PCs
  BY DEF PCs, BoundPCs
<1>3. Only(p) /\ SameTask(p) /\ proc'[p].pc \in AfterTaskPCs \ {"append", "mark"}
  <2>1. CASE UNCHANGED proc
    BY <1>1, <2>1 DEF Only, SameTask, RunType
  <2>2. CASE Goto(p, pc)
    BY <1>1, <1>2, <2>2, GotoFacts DEF RunType
  <2> QED BY <2>1, <2>2
<1>4. UNCHANGED <<job, reserved, artifacts, answers, task_ledger, policy_ledger>>
  BY DEF Rest
<1>5. LedgerOK(policy_ledger)
  BY <1>1 DEF RunType
<1>6. RunType' /\ JobOK' /\ VerdictsKept
  BY <1>1, <1>3, <1>4, <1>5, QuietRun DEF SameTask
<1>7. AuditOK'
  BY <1>1, <1>3, <1>4, AuditCalm DEF Calm, SameTask
<1>8. MemoryProc(p)'
  BY <1>1, <1>3, MemoryOwn DEF SameTask, BoundPCs
<1> QED BY <1>3, <1>4, <1>6, <1>7, <1>8

\* A step behind the task that only moves the process.
LEMMA MoveKeeps ==
  ASSUME OInv, NEW p \in Procs, proc[p].pc \in AfterTaskPCs \ {"append", "mark"}, Rest,
         NEW pc \in AfterTaskPCs \ {"append", "mark"}, Goto(p, pc), UNCHANGED pvars
  PROVE  OInv'
<1>1. StoreType' /\ StoreKept
  BY StoreStays DEF OInv
<1>2. UNCHANGED <<strategies, applications, outcomes, interventions, outbox>>
  BY DEF pvars
<1>3. /\ Only(p) /\ RunType' /\ JobOK' /\ VerdictsKept /\ AuditOK' /\ MemoryProc(p)'
      /\ artifacts' = artifacts
  BY <1>1, <1>2, QuietAfter
<1> QED BY <1>1, <1>2, <1>3, CombinedStore

\* A process behind the binding has what is bound.
LEMMA SelectedIsBound ==
  ASSUME OInv, NEW p \in Procs, proc[p].pc \in AfterTaskPCs
  PROVE  /\ proc[p].selected = interventions[proc[p].task]
         /\ proc[p].selected \subseteq Strategies
         /\ job[proc[p].task].status \in Terminal
<1>1. RunType /\ MemoryProc(p) /\ JobProc(p)
  BY DEF OInv, MemoryOK, JobOK
<1> QED BY <1>1, Typing DEF MemoryProc, JobProc, BoundPCs

LEMMA ApplyKeeps ==
  ASSUME OInv, NEW p \in Procs, Apply(p)
  PROVE  OInv'
<1>1. proc[p].pc = "apply" /\ Rest
  BY DEF Apply, At
<1>2. proc[p].pc \in AfterTaskPCs \ {"append", "mark"}
  BY <1>1 DEF AfterTaskPCs
<1>3. PICK t \in Tasks : t = proc[p].task
  BY Typing DEF OInv
<1>4. ASSUME NEW s \in Unapplied(p), record_application(t, s), UNCHANGED proc
      PROVE  OInv'
  <2>1. s \in interventions[t] /\ s \in Strategies
    BY <1>2, <1>3, SelectedIsBound DEF Unapplied
  <2>2. /\ StoreType' /\ StoreKept /\ Lengthens(outbox, outbox')
        /\ applications' = applications \cup {<<t, s>>}
        /\ UNCHANGED <<strategies, outcomes, interventions>>
    BY <1>4, <2>1, ApplicationFacts DEF OInv
  <2>3. /\ Only(p) /\ RunType' /\ JobOK' /\ VerdictsKept /\ AuditOK' /\ MemoryProc(p)'
        /\ artifacts' = artifacts
    BY <1>1, <1>2, <1>4, <2>2, QuietAfter
  <2>4. \A a \in applications' : a \in applications \/ a[2] \in interventions[a[1]]
    BY <2>1, <2>2
  <2> QED BY <2>2, <2>3, <2>4, Combined
<1>5. ASSUME NEW pc \in {"credit", "propose"}, Goto(p, pc), UNCHANGED pvars
      PROVE  OInv'
  <2>1. pc \in AfterTaskPCs \ {"append", "mark"}
    BY DEF AfterTaskPCs
  <2> QED BY <1>1, <1>2, <1>5, <2>1, MoveKeeps
<1>6. \/ \E s \in Unapplied(p) : record_application(t, s) /\ UNCHANGED proc
      \/ \E pc \in {"credit", "propose"} : Goto(p, pc) /\ UNCHANGED pvars
  BY <1>3 DEF Apply
<1> QED BY <1>4, <1>5, <1>6

\* The verdict is a Boolean.
LEMMA VerdictType ==
  ASSUME NEW t
  PROVE  evaluate(t) \in BOOLEAN
BY DEF evaluate

LEMMA CreditKeeps ==
  ASSUME OInv, NEW p \in Procs, Credit(p)
  PROVE  OInv'
<1>1. proc[p].pc = "credit" /\ Rest
  BY DEF Credit, At
<1>2. proc[p].pc \in AfterTaskPCs \ {"append", "mark"}
  BY <1>1 DEF AfterTaskPCs
<1>3. PICK t \in Tasks : t = proc[p].task
  BY Typing DEF OInv
<1>4. ASSUME NEW s \in Uncredited(p), record_outcome(t, s, evaluate(t)), UNCHANGED proc
      PROVE  OInv'
  <2>1. s \in Strategies /\ job[t].status \in Terminal
    BY <1>2, <1>3, SelectedIsBound DEF Uncredited
  <2>2. PICK success \in BOOLEAN : success = evaluate(t)
    BY VerdictType
  <2>3. record_outcome(t, s, success)
    BY <1>4, <2>2
  <2>4. /\ StoreType' /\ StoreKept /\ Lengthens(outbox, outbox')
        /\ outcomes' = outcomes \cup {<<t, s, success>>}
        /\ <<t, s>> \in applications
        /\ UNCHANGED <<strategies, applications, interventions>>
    BY <2>1, <2>3, OutcomeFacts DEF OInv
  <2>5. /\ Only(p) /\ RunType' /\ JobOK' /\ VerdictsKept /\ AuditOK' /\ MemoryProc(p)'
        /\ artifacts' = artifacts
    BY <1>1, <1>2, <1>4, <2>4, QuietAfter
  <2>6. ASSUME NEW o \in outcomes'
        PROVE  \/ o \in outcomes
               \/ /\ <<o[1], o[2]>> \in applications /\ o[1] \in Tasks
                  /\ job[o[1]].status \in Terminal
                  /\ o[3] = evaluate(o[1])
    <3>1. CASE o = <<t, s, success>>
      <4>1. o[1] = t /\ o[2] = s /\ o[3] = success
        BY <3>1
      <4> QED BY <2>1, <2>2, <2>4, <4>1
    <3> QED BY <2>4, <3>1
  <2> QED BY <2>4, <2>5, <2>6, Combined
<1>5. ASSUME Goto(p, "refresh"), UNCHANGED pvars
      PROVE  OInv'
  <2>1. "refresh" \in AfterTaskPCs \ {"append", "mark"}
    BY DEF AfterTaskPCs
  <2> QED BY <1>1, <1>2, <1>5, <2>1, MoveKeeps
<1> QED BY <1>3, <1>4, <1>5 DEF Credit

LEMMA RefreshKeeps ==
  ASSUME OInv, NEW p \in Procs, Refresh(p)
  PROVE  OInv'
<1>1. proc[p].pc = "refresh" /\ Rest /\ Goto(p, "propose") /\ refresh_statuses
  BY DEF Refresh, At
<1>2. /\ proc[p].pc \in AfterTaskPCs \ {"append", "mark"}
      /\ "propose" \in AfterTaskPCs \ {"append", "mark"}
  BY <1>1 DEF AfterTaskPCs
<1>3. /\ StoreType' /\ StoreKept /\ Lengthens(outbox, outbox')
      /\ UNCHANGED <<applications, outcomes, interventions>>
      /\ \A s \in Strategies : strategies'[s].status = "ACTIVE" =>
            strategies[s].status = "ACTIVE" \/ TargetStatus(s) = "ACTIVE"
  BY <1>1, RefreshFacts DEF OInv
<1>4. \A s \in Strategies : strategies'[s].status = "ACTIVE" =>
            strategies[s].status = "ACTIVE" \/ Earned(s)
  BY <1>3, TargetEarned DEF OInv, CreditOK
<1>5. /\ Only(p) /\ RunType' /\ JobOK' /\ VerdictsKept /\ AuditOK' /\ MemoryProc(p)'
      /\ artifacts' = artifacts
  BY <1>1, <1>2, <1>3, QuietAfter
<1> QED BY <1>3, <1>4, <1>5, Combined

LEMMA ProposeKeeps ==
  ASSUME OInv, NEW p \in Procs, Propose(p)
  PROVE  OInv'
<1>1. proc[p].pc = "propose" /\ Rest
  BY DEF Propose, At
<1>2. proc[p].pc \in AfterTaskPCs \ {"append", "mark"}
  BY <1>1 DEF AfterTaskPCs
<1>3. PICK t \in Tasks : t = proc[p].task
  BY Typing DEF OInv
<1>4. ASSUME NEW s \in Unproposed(p), propose_strategy(s, t), UNCHANGED proc
      PROVE  OInv'
  <2>1. s \in Strategies
    BY DEF Unproposed
  <2>2. /\ StoreType' /\ StoreKept /\ Lengthens(outbox, outbox')
        /\ UNCHANGED <<applications, outcomes, interventions>>
        /\ \A u \in Strategies : strategies'[u].status = "ACTIVE" => strategies'[u] = strategies[u]
    BY <1>4, <2>1, ProposeFacts DEF OInv
  <2>3. /\ Only(p) /\ RunType' /\ JobOK' /\ VerdictsKept /\ AuditOK' /\ MemoryProc(p)'
        /\ artifacts' = artifacts
    BY <1>1, <1>2, <1>4, <2>2, QuietAfter
  <2> QED BY <2>2, <2>3, Combined
<1>5. ASSUME Goto(p, "flush"), UNCHANGED pvars
      PROVE  OInv'
  <2>1. "flush" \in AfterTaskPCs \ {"append", "mark"}
    BY DEF AfterTaskPCs
  <2> QED BY <1>1, <1>2, <1>5, <2>1, MoveKeeps
<1> QED BY <1>3, <1>4, <1>5 DEF Propose

-----------------------------------------------------------------------------
(***************************************************************************)
(* The flush, the link, kills and cancellations.                           *)
(***************************************************************************)

\* A step that leaves the store alone.
LEMMA StoreAlone ==
  ASSUME OInv, NEW p \in Procs, Only(p), UNCHANGED pvars, artifacts' = artifacts,
         RunType', JobOK', VerdictsKept, AuditKept, AuditBox', AuditProc(p)',
         \/ proc'[p].pc \in {"select", "done"}
         \/ /\ proc[p].pc \in AfterTaskPCs /\ proc'[p].pc \in AfterTaskPCs
            /\ proc'[p].task = proc[p].task /\ proc'[p].selected = proc[p].selected
  PROVE  OInv'
<1>1. RunType /\ AuditOK /\ MemoryOK /\ StoreType
  BY DEF OInv
<1>2. StoreType' /\ StoreKept
  BY <1>1, StoreStays
<1>3. AuditOK'
  BY <1>1, AuditCombine
<1>4. MemoryProc(p)'
  BY <1>1, <1>2, MemoryOwn DEF BoundPCs
<1> QED BY <1>2, <1>3, <1>4, CombinedStore DEF pvars

\* Nothing is done to the outbox and the policy ledger.
LEMMA AuditSame ==
  ASSUME OInv, outbox' = outbox, policy_ledger' = policy_ledger
  PROVE  AuditKept /\ AuditBox'
BY DEF AuditKept, OInv, AuditOK, AuditBox

\* The process starts again or goes to the next task.
LEMMA IdleProc ==
  ASSUME NEW p \in Procs, proc'[p].pc \in {"select", "done"}, proc'[p].batch = {}
  PROVE  AuditProc(p)'
BY DEF AuditProc

LEMMA FlushKeeps ==
  ASSUME OInv, NEW p \in Procs, Flush(p)
  PROVE  OInv'
<1> DEFINE B == pending_events
           pc == IF B = {} THEN "link" ELSE "append"
           rec == [proc[p] EXCEPT !.batch = B, !.pc = pc]
<1>1. /\ proc[p].pc = "flush" /\ Rest /\ UNCHANGED pvars
      /\ proc' = [proc EXCEPT ![p] = rec]
  BY DEF Flush, At
<1>2. RunType /\ JobOK /\ LedgerOK(policy_ledger) /\ proc[p] \in ProcRec
  BY Typing DEF OInv, RunType
<1>3. B \subseteq 1 .. Len(outbox) /\ B \subseteq Nat
  BY DEF pending_events, OInv, StoreType, OutboxOK, IsSequence
<1>4. pc \in {"link", "append"} /\ (pc = "append" => B # {})
  OBVIOUS
<1> HIDE DEF B, pc
<1>5. /\ rec \in ProcRec /\ rec.pc = pc /\ rec.batch = B /\ rec.task = proc[p].task
      /\ rec.selected = proc[p].selected
  BY <1>2, <1>3, <1>4 DEF ProcRec, PCs, BoundPCs, AfterTaskPCs
<1> HIDE DEF rec
<1>6. Only(p) /\ proc'[p] = rec
  BY <1>1, <1>2, <1>5 DEF Only, RunType
<1>7. /\ UNCHANGED <<job, reserved, artifacts, answers, task_ledger, policy_ledger>>
      /\ outbox' = outbox
  BY <1>1 DEF Rest, pvars
<1>8. RunType' /\ JobOK' /\ VerdictsKept
  BY <1>1, <1>2, <1>4, <1>5, <1>6, <1>7, QuietRun DEF AfterTaskPCs
<1>9. AuditProc(p)'
  BY <1>3, <1>4, <1>5, <1>6, <1>7 DEF AuditProc
<1> QED BY <1>1, <1>4, <1>5, <1>6, <1>7, <1>8, <1>9, AuditSame, StoreAlone DEF AfterTaskPCs

LEMMA DispatchKeeps ==
  ASSUME OInv, NEW p \in Procs, Dispatch(p)
  PROVE  OInv'
<1> DEFINE e == PolicyEvent(p)
           m == Appended(policy_ledger, e)
<1>1. /\ proc[p].pc = "append" /\ UNCHANGED pvars /\ outbox' = outbox
      /\ UNCHANGED <<job, reserved, artifacts, answers, task_ledger>>
  BY DEF Dispatch, At, pvars
<1>2. RunType /\ JobOK /\ AuditOK /\ LedgerOK(policy_ledger) /\ AuditProc(p)
  BY DEF OInv, RunType, AuditOK
<1>3. CASE Stop(p) /\ UNCHANGED policy_ledger
  <2>1. Only(p) /\ proc'[p] = Start
    BY <1>2, <1>3, StopFacts DEF RunType
  <2>2. proc'[p].pc = "select" /\ proc'[p].batch = {}
    BY <2>1 DEF Start
  <2>3. RunType' /\ JobOK' /\ VerdictsKept
    BY <1>1, <1>2, <1>3, <2>1, <2>2, QuietRun
  <2> QED BY <1>1, <1>3, <2>1, <2>2, <2>3, AuditSame, IdleProc, StoreAlone
<1>4. CASE policy_ledger' = m /\ Goto(p, "mark")
  <2>1. Extends(policy_ledger, m, e) /\ (Loads(m) => WithKey(m, e.key) # {})
    BY <1>2, AppendedFacts
  <2>2. e.key = outbox[First(p)].key
    BY DEF PolicyEvent, Event
  <2> HIDE DEF e, m
  <2>3. Only(p) /\ SameTask(p) /\ proc'[p].pc = "mark"
    <3>1. "mark" \in PCs
      BY DEF PCs, BoundPCs, AfterTaskPCs
    <3> QED BY <1>2, <1>4, <3>1, GotoFacts DEF RunType
  <2>4. LedgerOK(policy_ledger')
    BY <1>4, <2>1 DEF Extends
  <2>5. RunType' /\ JobOK' /\ VerdictsKept
    BY <1>1, <1>2, <2>3, <2>4, QuietRun DEF AfterTaskPCs, SameTask
  <2>6. AuditKept /\ AuditBox'
    BY <1>1, <1>2, <1>4, <2>1, AuditExtends
  <2>7. AuditProc(p)'
    <3>1. First(p)' = First(p)
      BY <2>3 DEF First, SameTask
    <3>2. proc'[p].batch = proc[p].batch /\ proc[p].batch # {}
      BY <1>1, <1>2, <2>3 DEF AuditProc, SameTask
    <3>3. Loads(policy_ledger') => WithKey(policy_ledger', outbox'[First(p)].key) # {}
      BY <1>1, <1>4, <2>1, <2>2
    <3> QED BY <1>1, <1>2, <3>1, <3>2, <3>3 DEF AuditProc
  <2> QED BY <1>1, <2>3, <2>5, <2>6, <2>7, StoreAlone DEF AfterTaskPCs, SameTask
<1> QED BY <1>3, <1>4 DEF Dispatch

LEMMA AcknowledgeKeeps ==
  ASSUME OInv, NEW p \in Procs, Acknowledge(p)
  PROVE  OInv'
<1>1. proc[p].pc = "mark" /\ Rest
  BY DEF Acknowledge, At
<1>2. RunType /\ JobOK /\ AuditOK /\ LedgerOK(policy_ledger) /\ AuditProc(p) /\ StoreType
  BY DEF OInv, RunType, AuditOK
<1>3. PICK n \in 1 .. Len(outbox) : n = First(p)
  BY <1>1, <1>2, FirstInBatch DEF AuditProc
<1> DEFINE B == proc[p].batch \ {n}
           pc == IF proc[p].batch = {n} THEN "link" ELSE "append"
           rec == [proc[p] EXCEPT !.batch = B, !.pc = pc]
<1>4. mark_dispatched(n) /\ proc' = [proc EXCEPT ![p] = rec]
  BY <1>3 DEF Acknowledge
<1>5. /\ StoreType' /\ StoreKept
      /\ UNCHANGED <<strategies, applications, outcomes, interventions>>
      /\ Len(outbox') = Len(outbox)
      /\ \A i \in 1 .. Len(outbox) :
            outbox'[i].key = outbox[i].key /\ (i # n => outbox'[i] = outbox[i])
  BY <1>2, <1>4, MarkFacts
<1>6. proc[p] \in ProcRec /\ proc[p].batch \subseteq 1 .. Len(outbox) /\ proc[p].batch # {}
  BY <1>1, <1>2, Typing DEF AuditProc
<1>7. pc \in {"link", "append"} /\ (pc = "append" => B # {})
  BY <1>6
<1>8. B \subseteq Nat /\ B \subseteq proc[p].batch
  BY <1>6 DEF ProcRec
<1> HIDE DEF B, pc
<1>9. /\ rec \in ProcRec /\ rec.pc = pc /\ rec.batch = B /\ rec.task = proc[p].task
      /\ rec.selected = proc[p].selected
  BY <1>6, <1>7, <1>8 DEF ProcRec, PCs, BoundPCs, AfterTaskPCs
<1> HIDE DEF rec
<1>10. Only(p) /\ proc'[p] = rec
  BY <1>2, <1>4, <1>9 DEF Only, RunType
<1>11. UNCHANGED <<job, reserved, artifacts, answers, task_ledger, policy_ledger>>
  BY <1>1 DEF Rest
<1>12. RunType' /\ JobOK' /\ VerdictsKept
  BY <1>1, <1>2, <1>7, <1>9, <1>10, <1>11, QuietRun DEF AfterTaskPCs
<1>13. AuditKept
  BY <1>5, <1>11 DEF AuditKept
<1>14. AuditBox'
  <2> SUFFICES ASSUME NEW i \in 1 .. Len(outbox), outbox'[i].dispatched, Loads(policy_ledger)
               PROVE  WithKey(policy_ledger, outbox[i].key) # {}
    BY <1>5, <1>11 DEF AuditBox
  <2>1. CASE i = n
    BY <1>1, <1>2, <1>3, <2>1 DEF AuditProc
  <2>2. CASE i # n
    BY <1>2, <1>5, <2>2 DEF AuditOK, AuditBox
  <2> QED BY <2>1, <2>2
<1>15. AuditProc(p)'
  BY <1>5, <1>6, <1>7, <1>8, <1>9, <1>10 DEF AuditProc
<1>16. AuditOK'
  BY <1>2, <1>10, <1>13, <1>14, <1>15, AuditCombine
<1>17. MemoryProc(p)'
  BY <1>1, <1>2, <1>5, <1>7, <1>9, <1>10, MemoryOwn DEF OInv, BoundPCs, AfterTaskPCs
<1> QED BY <1>5, <1>10, <1>11, <1>12, <1>16, <1>17, CombinedStore

LEMMA AdvancedType ==
  ASSUME RunType, NEW p \in Procs
  PROVE  /\ Advanced(p) \in ProcRec /\ Advanced(p).pc \in {"select", "done"}
         /\ Advanced(p).batch = {}
<1>1. Start \in ProcRec
  BY StartType
<1>2. CASE proc[p].task + 1 \in Tasks
  <2>1. Advanced(p) = [Start EXCEPT !.task = proc[p].task + 1]
    BY <1>2 DEF Advanced
  <2> QED BY <1>2, <2>1 DEF Start, ProcRec, PCs, ErrorCodes
<1>3. CASE proc[p].task + 1 \notin Tasks
  <2>1. Advanced(p) = [Start EXCEPT !.pc = "done"]
    BY <1>3 DEF Advanced
  <2> QED BY <2>1, TaskAssumption DEF Start, ProcRec, PCs, ErrorCodes
<1> QED BY <1>2, <1>3

LEMMA LinkKeeps ==
  ASSUME OInv, NEW p \in Procs, Link(p)
  PROVE  OInv'
<1>1. proc[p].pc = "link" /\ Rest /\ UNCHANGED pvars
  BY DEF Link, At
<1>2. /\ UNCHANGED <<job, reserved, artifacts, answers, task_ledger, policy_ledger>>
      /\ outbox' = outbox
  BY <1>1 DEF Rest, pvars
<1>3. RunType /\ JobOK /\ LedgerOK(policy_ledger) /\ proc[p] \in ProcRec /\ AuditProc(p)
  BY Typing DEF OInv, RunType, AuditOK
<1>4. ASSUME Only(p), proc'[p].pc \in {"select", "done"}, proc'[p].batch = {}
      PROVE  OInv'
  <2>1. RunType' /\ JobOK' /\ VerdictsKept
    BY <1>2, <1>3, <1>4, QuietRun
  <2> QED BY <1>1, <1>2, <1>4, <2>1, AuditSame, IdleProc, StoreAlone
<1>5. CASE Stop(p)
  <2>1. Only(p) /\ proc'[p] = Start
    BY <1>3, <1>5, StopFacts DEF RunType
  <2> QED BY <1>4, <2>1 DEF Start
<1>6. CASE proc' = [proc EXCEPT ![p] = Advanced(p)]
  <2>1. Only(p) /\ proc'[p] = Advanced(p)
    BY <1>3, <1>6, AdvancedType DEF Only, RunType
  <2> QED BY <1>3, <1>4, <2>1, AdvancedType
<1>7. CASE proc' = [proc EXCEPT ![p] = [proc[p] EXCEPT !.head = Len(policy_ledger.events),
                                                       !.pc = "linking"]]
  <2> DEFINE rec == [proc[p] EXCEPT !.head = Len(policy_ledger.events), !.pc = "linking"]
  <2>1. Len(policy_ledger.events) \in Nat
    BY <1>3 DEF LedgerOK, IsSequence
  <2>2. /\ rec \in ProcRec /\ rec.pc = "linking" /\ rec.task = proc[p].task
        /\ rec.selected = proc[p].selected /\ rec.batch = proc[p].batch
    BY <1>3, <2>1 DEF ProcRec, PCs, BoundPCs, AfterTaskPCs
  <2> HIDE DEF rec
  <2>3. Only(p) /\ proc'[p] = rec
    BY <1>3, <1>7, <2>2 DEF Only, RunType, rec
  <2>4. RunType' /\ JobOK' /\ VerdictsKept
    BY <1>1, <1>2, <1>3, <2>2, <2>3, QuietRun DEF AfterTaskPCs
  <2>5. AuditProc(p)'
    BY <1>2, <1>3, <2>2, <2>3 DEF AuditProc
  <2> QED BY <1>1, <1>2, <2>2, <2>3, <2>4, <2>5, AuditSame, StoreAlone DEF AfterTaskPCs
<1>8. \/ Stop(p)
      \/ proc' = [proc EXCEPT ![p] = Advanced(p)]
      \/ proc' = [proc EXCEPT ![p] = [proc[p] EXCEPT !.head = Len(policy_ledger.events),
                                                     !.pc = "linking"]]
  BY DEF Link
<1> QED BY <1>5, <1>6, <1>7, <1>8

LEMMA AppendLinkKeeps ==
  ASSUME OInv, NEW p \in Procs, AppendLink(p)
  PROVE  OInv'
<1>1. /\ proc[p].pc = "linking" /\ UNCHANGED pvars /\ outbox' = outbox
      /\ UNCHANGED <<job, reserved, artifacts, answers, policy_ledger>>
  BY DEF AppendLink, At, pvars
<1>2. RunType /\ JobOK /\ LedgerOK(policy_ledger)
  BY DEF OInv, RunType
<1>3. PICK t \in Tasks : t = proc[p].task
  BY <1>2, Typing
<1>4. VerdictsKept
  BY <1>1 DEF VerdictsKept
<1>5. CASE Stop(p) /\ UNCHANGED task_ledger
  <2>1. Only(p) /\ proc'[p] = Start
    BY <1>2, <1>5, StopFacts DEF RunType
  <2>2. proc'[p].pc = "select" /\ proc'[p].batch = {}
    BY <2>1 DEF Start
  <2>3. RunType' /\ JobOK'
    BY <1>1, <1>2, <1>5, <2>1, <2>2, QuietRun
  <2> QED BY <1>1, <1>4, <2>1, <2>2, <2>3, AuditSame, IdleProc, StoreAlone
<1>6. CASE /\ task_ledger' = [task_ledger EXCEPT ![t] = Appended(@, LinkEvent(p))]
           /\ proc' = [proc EXCEPT ![p] = Advanced(p)]
  <2> DEFINE m == Appended(task_ledger[t], LinkEvent(p))
  <2>1. Extends(task_ledger[t], m, LinkEvent(p))
    BY <1>2, AppendedFacts DEF RunType
  <2>2. task_ledger' = [task_ledger EXCEPT ![t] = m]
    BY <1>6
  <2> HIDE DEF m
  <2>3. Only(p) /\ proc'[p] = Advanced(p)
    BY <1>2, <1>6, AdvancedType DEF Only, RunType
  <2>4. proc'[p].pc \in {"select", "done"} /\ proc'[p].batch = {}
    BY <1>2, <2>3, AdvancedType
  <2>5. JobProc(p)'
    BY <2>4 DEF JobProc, InTaskPCs, AfterTaskPCs
  <2>6. RunType' /\ JobOK'
    BY <1>1, <1>2, <1>3, <2>1, <2>2, <2>3, <2>5, LinkFits, LedgerStep
  <2> QED BY <1>1, <1>4, <2>3, <2>4, <2>6, AuditSame, IdleProc, StoreAlone
<1> QED BY <1>3, <1>5, <1>6 DEF AppendLink

LEMMA KillKeeps ==
  ASSUME OInv, NEW p \in Procs, Kill(p)
  PROVE  OInv'
<1>1. /\ UNCHANGED pvars /\ outbox' = outbox /\ Stop(p)
      /\ UNCHANGED <<job, reserved, artifacts, answers>>
  BY DEF Kill, pvars
<1>2. RunType /\ JobOK /\ AuditOK /\ LedgerOK(policy_ledger)
  BY DEF OInv, RunType
<1>3. PICK t \in Tasks : t = proc[p].task
  BY <1>2, Typing
<1>4. Only(p) /\ proc'[p] = Start
  BY <1>1, <1>2, StopFacts DEF RunType
<1>5. proc'[p].pc = "select" /\ proc'[p].batch = {}
  BY <1>4 DEF Start
<1>6. JobProc(p)'
  BY <1>5 DEF JobProc, InTaskPCs, AfterTaskPCs
<1>7. Extends(policy_ledger, policy_ledger', PolicyEvent(p))
  <2>1. policy_ledger' \in Torn(policy_ledger, PolicyEvent(p)) \cup {policy_ledger}
    BY DEF Kill
  <2> QED BY <1>2, <2>1, TornFacts, ExtendsSelf
<1>8. LedgerOK(policy_ledger')
  BY <1>7 DEF Extends
<1>9. PICK m : /\ task_ledger' = [task_ledger EXCEPT ![t] = m]
               /\ \/ proc[p].pc = "commit" /\ m \in Torn(task_ledger[t], Commitment(t))
                  \/ m \in Torn(task_ledger[t], LinkEvent(p))
                  \/ m = task_ledger[t]
  <2>1. CASE At(p, "commit")
    BY <1>3, <2>1 DEF Kill, At
  <2>2. CASE ~At(p, "commit") /\ At(p, "linking")
    BY <1>3, <2>2 DEF Kill
  <2>3. CASE ~At(p, "commit") /\ ~At(p, "linking")
    BY <1>3, <2>3 DEF Kill
  <2> QED BY <2>1, <2>2, <2>3
<1>10. \E event : Extends(task_ledger[t], m, event) /\ OutcomeOf(t, event)
  <2>1. LedgerOK(task_ledger[t])
    BY <1>2 DEF RunType
  <2>2. OutcomeOf(t, LinkEvent(p))
    BY LinkFits
  <2>3. proc[p].pc = "commit" => OutcomeOf(t, Commitment(t))
    BY <1>2, <1>3, CommitmentFits
  <2> QED BY <1>9, <2>1, <2>2, <2>3, TornFacts, ExtendsSelf
<1>11. RunType' /\ JobOK'
  BY <1>1, <1>2, <1>3, <1>4, <1>6, <1>8, <1>9, <1>10, LedgerStep
<1>12. AuditKept /\ AuditBox'
  BY <1>1, <1>2, <1>7, AuditExtends
<1>13. VerdictsKept
  BY <1>1 DEF VerdictsKept
<1> QED BY <1>1, <1>4, <1>5, <1>11, <1>12, <1>13, IdleProc, StoreAlone

LEMMA CancelKeeps ==
  ASSUME OInv, NEW t \in Tasks, Cancel(t), UNCHANGED <<pvars, memory, policy_ledger>>
  PROVE  OInv'
<1>1. StoreType /\ RunType /\ JobOK /\ AuditOK /\ MemoryOK /\ CreditOK /\ OutcomesOK
  BY DEF OInv, CreditOK
<1>2. /\ RunType' /\ JobOK' /\ OnlyTask(t) /\ proc' = proc /\ artifacts' = artifacts
      /\ answers' = answers /\ job[t].status \notin Terminal
  BY <1>1, CancelStep
<1>3. UNCHANGED <<strategies, applications, outcomes, interventions, outbox, policy_ledger>>
  BY DEF pvars
<1>4. StoreType' /\ StoreKept
  BY <1>1, StoreStays
<1>5. AuditOK'
  BY <1>1, <1>2, <1>3 DEF AuditOK, AuditBox, AuditProc, First
<1>6. MemoryOK'
  BY <1>1, <1>2, <1>3 DEF MemoryOK, MemoryProc, MemoryTask, Foreign, Stored, SourceFamily
<1>7. VerdictsKept
  BY <1>2 DEF VerdictsKept, OnlyTask
<1>8. CreditOK'
  BY <1>1, <1>3, <1>4, <1>7, CreditCombine
<1> QED BY <1>2, <1>4, <1>5, <1>6, <1>8 DEF OInv

-----------------------------------------------------------------------------
(***************************************************************************)
(* The invariant holds in every state.                                     *)
(***************************************************************************)

LEMMA EmptyLedgerOK == LedgerOK(EmptyLedger)
<1>1. Len(<<>>) = 0 /\ <<>> = [n \in 1 .. 0 |-> <<>>[n]]
  OBVIOUS
<1>2. EmptyLedger.events = <<>> /\ EmptyLedger.tail = "line"
  BY DEF EmptyLedger
<1>3. IsSequence(EmptyLedger.events) /\ Len(EmptyLedger.events) = 0
  BY <1>1, <1>2 DEF IsSequence
<1>4. NoDuplicates(EmptyLedger)
  BY <1>3 DEF NoDuplicates
<1>5. EmptyLedger = [events |-> EmptyLedger.events, tail |-> EmptyLedger.tail]
  BY DEF EmptyLedger
<1> QED BY <1>2, <1>3, <1>4, <1>5 DEF LedgerOK

LEMMA OInitInv ==
  ASSUME OInit
  PROVE  OInv
<1> USE DEF OInit, PInit, BaseInit
<1>1. NoStrategy \in StrategyRec /\ NoStrategy.status = "NONE"
  <2>1. (CHOOSE p \in Places : TRUE) \in Tasks
    BY TaskAssumption
  <2> QED BY <2>1 DEF NoStrategy, StrategyRec, Statuses
<1>2. Len(outbox) = 0
  OBVIOUS
<1>3. StoreType
  <2>1. strategies \in [Strategies -> StrategyRec]
    BY <1>1
  <2>2. interventions \in [Tasks -> {Unbound} \cup SUBSET Strategies]
    BY TaskAssumption
  <2>3. OutboxOK(outbox)
    BY <1>2 DEF OutboxOK, IsSequence
  <2> QED BY <2>1, <2>2, <2>3 DEF StoreType
<1>4. RunType
  <2>1. NewJob \in JobRec
    BY DEF NewJob, JobRec, JobStatuses, Stages, ErrorCodes
  <2>2. job \in [Tasks -> JobRec] /\ proc \in [Procs -> ProcRec]
    BY <2>1, StartType
  <2>3. /\ task_ledger = [t \in Tasks |-> task_ledger[t]]
        /\ \A t \in Tasks : LedgerOK(task_ledger[t])
        /\ LedgerOK(policy_ledger)
    BY EmptyLedgerOK
  <2>4. /\ reserved \in [Tasks -> SUBSET AllCalls]
        /\ answers \in [Tasks -> Answers \cup {NoValue}]
        /\ artifacts = [t \in Tasks |-> [k \in Keys |-> artifacts[t][k]]]
    OBVIOUS
  <2> QED BY <2>2, <2>3, <2>4 DEF RunType
<1>5. \A p \in Procs : proc[p].pc = "select" /\ proc[p].batch = {}
  BY DEF Start
<1>6. AuditOK
  BY <1>2, <1>5 DEF AuditOK, AuditBox, AuditProc
<1>7. MemoryOK
  <2>1. \A p \in Procs : MemoryProc(p)
    BY <1>5 DEF MemoryProc, BoundPCs, InTaskPCs, AfterTaskPCs
  <2>2. \A t \in Tasks : MemoryTask(t)
    BY TaskAssumption DEF MemoryTask, Keys
  <2> QED BY <2>1, <2>2 DEF MemoryOK
<1>8. JobOK
  <2>1. \A p \in Procs : JobProc(p)
    BY <1>5 DEF JobProc, InTaskPCs, AfterTaskPCs
  <2>2. \A t \in Tasks : /\ job[t].status = "NONE" /\ job[t].stage = PLAN
                         /\ artifacts[t]["prediction"] = NoValue
    BY DEF NewJob, Keys
  <2>3. \A t \in Tasks : JobTask(t)
    BY <2>2 DEF JobTask, Stages, PLAN, RETRIEVE, READ, CHALLENGE, DECIDE, SYNTHESIZE, VALIDATE
  <2>4. \A t \in Tasks : LedgerTask(t)
    BY DEF LedgerTask, EmptyLedger
  <2> QED BY <2>1, <2>3, <2>4 DEF JobOK
<1>9. CreditOK
  BY <1>1 DEF CreditOK, OutcomesOK
<1> QED BY <1>3, <1>4, <1>6, <1>7, <1>8, <1>9 DEF OInv

LEMMA OStutterKeeps ==
  ASSUME OInv, UNCHANGED ovars
  PROVE  OInv'
<1>1. /\ UNCHANGED <<strategies, applications, outcomes, interventions, outbox>>
      /\ UNCHANGED <<job, reserved, artifacts, answers, task_ledger, proc, policy_ledger>>
  BY DEF ovars, pvars, bvars
<1>2. StoreType' /\ RunType'
  BY <1>1 DEF OInv, StoreType, RunType
<1>3. AuditOK'
  BY <1>1 DEF OInv, AuditOK, AuditBox, AuditProc, First
<1>4. MemoryOK'
  BY <1>1 DEF OInv, MemoryOK, MemoryProc, MemoryTask, Foreign, Stored, SourceFamily
<1>5. JobOK'
  BY <1>1 DEF OInv, JobOK, JobProc, JobTask, LedgerTask, OutcomeOf, Outcome
<1>6. CreditOK'
  <2>1. VerdictsKept
    BY <1>1 DEF VerdictsKept
  <2>2. StoreType /\ CreditOK /\ OutcomesOK
    BY DEF OInv, CreditOK
  <2>3. StoreKept
    BY <2>2, StoreStays DEF ovars
  <2> QED BY <1>1, <2>1, <2>2, <2>3, CreditCombine
<1> QED BY <1>2, <1>3, <1>4, <1>5, <1>6 DEF OInv

LEMMA ONextKeeps ==
  ASSUME OInv, [ONext]_ovars
  PROVE  OInv'
<1>1. CASE UNCHANGED ovars
  BY <1>1, OStutterKeeps
<1>2. CASE \E p \in Procs : Step(p) \/ Kill(p)
  <2>1. PICK p \in Procs : Step(p) \/ Kill(p)
    BY <1>2
  <2>2. CASE Kill(p)
    BY <2>2, KillKeeps
  <2>3. CASE Select(p) \/ Bind(p) \/ Task(p)
    BY <2>3, SelectKeeps, BindKeeps, TaskKeeps
  <2>4. CASE Apply(p) \/ Credit(p) \/ Refresh(p) \/ Propose(p)
    BY <2>4, ApplyKeeps, CreditKeeps, RefreshKeeps, ProposeKeeps
  <2>5. CASE Flush(p) \/ Dispatch(p) \/ Acknowledge(p)
    BY <2>5, FlushKeeps, DispatchKeeps, AcknowledgeKeeps
  <2>6. CASE Link(p) \/ AppendLink(p)
    BY <2>6, LinkKeeps, AppendLinkKeeps
  <2> QED BY <2>1, <2>2, <2>3, <2>4, <2>5, <2>6 DEF Step
<1>3. CASE \E t \in Tasks : Cancel(t) /\ UNCHANGED <<pvars, memory, policy_ledger>>
  BY <1>3, CancelKeeps
<1> QED BY <1>1, <1>2, <1>3 DEF ONext

\* In every state of a run, whatever processes are killed, resumed or run side
\* by side, the outbox, the memory, the jobs and the credit agree as OInv says.
THEOREM OrderedRunInvariance == OSpec => []OInv
<1>1. OInit => OInv
  BY OInitInv
<1>2. OInv /\ [ONext]_ovars => OInv'
  BY ONextKeeps
<1> QED BY <1>1, <1>2, PTL DEF OSpec

-----------------------------------------------------------------------------
(***************************************************************************)
(* What follows from it.                                                   *)
(***************************************************************************)

\* A policy ledger that verifies holds no event twice, and every event that
\* the outbox no longer holds as pending: dispatch is at least once, and the
\* keys of the ledger make it exactly once.
THEOREM EventsExactlyOnce == OSpec => []ExactlyOneDurableEvent
<1>1. OInv => ExactlyOneDurableEvent
  BY DEF OInv, AuditOK, AuditBox, RunType, LedgerOK, ExactlyOneDurableEvent
<1> QED BY <1>1, OrderedRunInvariance, PTL

\* A task's plan carries the memory bound to its place and no other, and only
\* bound strategies are recorded as applied.
THEOREM PlansUseBoundMemory == OSpec => []PlanUsesBoundMemory
<1>1. OInv => PlanUsesBoundMemory
  BY DEF OInv, MemoryOK, MemoryTask, PlanUsesBoundMemory
<1> QED BY <1>1, OrderedRunInvariance, PTL

\* A strategy is ACTIVE only if enough tasks of other families that were given
\* it earned the status by their sealed answers.
THEOREM ActiveStrategiesAreEarned == OSpec => []ActiveIsEarned
<1>1. ASSUME OInv, NEW s \in Strategies, strategies[s].status = "ACTIVE",
             NEW t \in Tasks, application_has_outcome(t, s)
      PROVE  s \in interventions[t] /\ Family[t] # SourceFamily(s)
  <2>1. PICK o \in outcomes : o[1] = t /\ o[2] = s
    BY <1>1 DEF application_has_outcome
  <2>2. <<t, s>> \in applications
    BY <1>1, <2>1 DEF OInv, CreditOK, OutcomesOK
  <2>3. s \in interventions[t]
    BY <1>1, <2>2 DEF OInv, MemoryOK
  <2>4. interventions[t] # Unbound
    BY <2>3, StrategyAssumption DEF Unbound
  <2>5. Foreign(s, t)
    BY <1>1, <2>3, <2>4 DEF OInv, MemoryOK, MemoryTask
  <2> QED BY <2>3, <2>5 DEF Foreign
<1>2. ASSUME OInv, NEW s \in Strategies, strategies[s].status = "ACTIVE"
      PROVE  Earned(s)
  BY <1>2 DEF OInv, CreditOK
<1>3. OInv => ActiveIsEarned
  BY <1>1, <1>2 DEF ActiveIsEarned, Earned
<1> QED BY <1>3, OrderedRunInvariance, PTL

\* A task has one committed outcome, that of its job, and a completed one
\* reports each paid call of its stages once.
THEOREM OutcomesAreUnique == OSpec => []OneCommittedOutcome
<1>1. OInv => OneCommittedOutcome
  BY DEF OInv, JobOK, LedgerTask, OutcomeOf, AllCalls, OneCommittedOutcome
<1> QED BY <1>1, OrderedRunInvariance, PTL
=============================================================================
