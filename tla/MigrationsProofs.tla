--------------------------- MODULE MigrationsProofs ---------------------------
(***************************************************************************)
(* The safety of the migrations for any processes, releases and schemas:   *)
(* the history of a database is its schema, and nothing goes backwards.    *)
(*                                                                         *)
(* What carries the proof is what a process may still believe.  It decides *)
(* from a version that it read some time ago; the version only grows, so   *)
(* what it read is not above the real one, and the primary key of the      *)
(* history refuses every version that somebody else applied meanwhile.     *)
(* Hence a migration that commits starts exactly one above the version the *)
(* database really has.                                                    *)
(***************************************************************************)
EXTENDS Migrations, TLAPS

Tables == (UNION {Objects[v] : v \in 1 .. MaxVersion}) \cup Objects[1] \cup {"unknown"}

Db == [exists : BOOLEAN, application_id : Identities, user_version : Nat,
       history : SUBSET Nat, tables : SUBSET Tables]

Seen == [application_id : Identities, user_version : Nat, tables : SUBSET Tables,
         history : SUBSET Nat]

Fields == {"application_id", "user_version", "tables", "history"}

Row == [pc : Fields \cup {"down", "decide", "apply", "up"},
        call : {"none", "migrate", "prepare", "verify"}, seen : Seen]

\* What a process has read of a database d is not newer than d, a foreign
\* database was seen to be foreign, and only others are migrated.
RowFits(r, d) ==
    /\ r.seen.user_version <= d.user_version
    /\ d.application_id = "other" /\ r.pc \notin {"down", "application_id"} =>
        r.seen.application_id = "other"
    /\ r.pc = "apply" => r.seen.application_id # "other"

MInv ==
    /\ db \in Db
    /\ proc \in [Procs -> Row]
    /\ HistoryIsSchema
    /\ \A p \in Procs : RowFits(proc[p], db)
    /\ db.application_id = "other" => db.exists

\* How a step may change the database.
Forward(d, e) ==
    /\ e.user_version >= d.user_version
    /\ d.history \subseteq e.history
    /\ d.tables \subseteq e.tables
    /\ e.application_id = "other" <=> d.application_id = "other"
    /\ d.application_id = "other" => e = [d EXCEPT !.exists = TRUE]

-----------------------------------------------------------------------------
\* Every release knows a version, and no version the schema does not have.
LEMMA LatestIsVersion == \A p \in Procs : Latest(p) \in 1 .. MaxVersion
  BY SchemaAssumption, ReleaseAssumption DEF Latest

\* A read fills one field of what was seen; what it says stays true.
LEMMA ReadRow ==
  ASSUME NEW d \in Db, NEW r \in Row, RowFits(r, d), r.pc \in Fields,
         NEW next \in {"user_version", "tables", "history", "decide"}
  PROVE  LET s == [r EXCEPT !.seen[r.pc] = d[r.pc], !.pc = next]
         IN  s \in Row /\ RowFits(s, d)
<1> DEFINE s == [r EXCEPT !.seen[r.pc] = d[r.pc], !.pc = next]
<1>1. CASE r.pc = "application_id"
  <2>1. s = [r EXCEPT !.seen = [r.seen EXCEPT !.application_id = d.application_id], !.pc = next]
    BY <1>1 DEF Row, Seen, Db
  <2> QED BY <2>1, <1>1 DEF Row, Seen, Db, RowFits, Fields, Identities
<1>2. CASE r.pc = "user_version"
  <2> DEFINE t == [r.seen EXCEPT !.user_version = d.user_version]
  <2>1. s = [r EXCEPT !.seen = t, !.pc = next]
    BY <1>2 DEF Row, Seen, Db
  <2>2. t \in Seen /\ t.user_version = d.user_version /\ t.application_id = r.seen.application_id
    BY DEF Row, Seen, Db
  <2> HIDE DEF t
  <2>3. /\ s \in Row /\ s.pc = next
        /\ s.seen.user_version = d.user_version
        /\ s.seen.application_id = r.seen.application_id
    BY <2>1, <2>2 DEF Row, Fields
  <2>4. d.user_version \in Nat
    BY DEF Db
  <2> HIDE DEF s
  <2>5. RowFits(s, d)
    BY <2>3, <2>4, <1>2 DEF RowFits
  <2> QED BY <2>3, <2>5 DEF s
<1>3. CASE r.pc = "tables"
  <2>1. s = [r EXCEPT !.seen = [r.seen EXCEPT !.tables = d.tables], !.pc = next]
    BY <1>3 DEF Row, Seen, Db
  <2> QED BY <2>1, <1>3 DEF Row, Seen, Db, RowFits, Fields
<1>4. CASE r.pc = "history"
  <2>1. s = [r EXCEPT !.seen = [r.seen EXCEPT !.history = d.history], !.pc = next]
    BY <1>4 DEF Row, Seen, Db
  <2> QED BY <2>1, <1>4 DEF Row, Seen, Db, RowFits, Fields
<1> QED BY <1>1, <1>2, <1>3, <1>4 DEF Fields

\* A call starts with nothing read.
LEMMA FreshRow ==
  ASSUME NEW d \in Db, NEW call \in {"migrate", "prepare", "verify"}
  PROVE  LET s == [pc |-> "application_id", call |-> call, seen |-> NothingRead]
         IN  s \in Row /\ RowFits(s, d)
  BY DEF Db, Row, Seen, Fields, NothingRead, RowFits, Identities

\* A process that is down believes nothing.
LEMMA DownRow ==
  ASSUME NEW d \in Db
  PROVE  Down \in Row /\ RowFits(Down, d)
  BY DEF Db, Row, Seen, Fields, NothingRead, RowFits, Identities, Down

\* A database that went forward still fits what others have read of it.
LEMMA FitsForward ==
  ASSUME NEW d \in Db, NEW e \in Db, NEW r \in Row, RowFits(r, d), Forward(d, e)
  PROVE  RowFits(r, e)
  BY DEF Db, Row, Seen, RowFits, Forward

-----------------------------------------------------------------------------
\* The transaction: what it commits has the history of its schema and is
\* ahead of what was there.
LEMMA AfterForward ==
  ASSUME MInv, NEW p \in Procs, At(p, "apply"), Commits(p)
  PROVE  /\ After(p) \in Db
         /\ Forward(db, After(p))
         /\ After(p).history = 1 .. After(p).user_version
         /\ Schema(After(p).user_version) \subseteq After(p).tables
         /\ After(p).application_id = "ours"
         /\ kind = "runtime" /\ After(p).user_version > 0 =>
              After(p).tables = Schema(After(p).user_version)
<1> DEFINE lo == proc[p].seen.user_version + 1
           uv == db.user_version
           new == UNION {Objects[v] : v \in Pending(p)}
<1>1. /\ uv \in Nat /\ proc[p].seen.user_version \in Nat
      /\ proc[p].seen.user_version <= uv
      /\ Latest(p) \in 1 .. MaxVersion /\ MaxVersion \in Nat
      /\ db.history = 1 .. uv
      /\ db.history \subseteq Nat /\ db.tables \subseteq Tables
  BY LatestIsVersion, SchemaAssumption DEF MInv, Db, Row, Seen, RowFits, HistoryIsSchema
<1>2. Pending(p) = lo .. Latest(p)
  BY <1>1 DEF Pending, IsLegacy
<1>3. db.application_id # "other"
  BY DEF MInv, RowFits, At
<1>4. /\ After(p).application_id = "ours"
      /\ After(p).user_version = IF Pending(p) = {} THEN uv ELSE Latest(p)
      /\ After(p).history = db.history \cup Pending(p)
      /\ After(p).tables = db.tables \cup new
  BY DEF After, MInv, Db
<1>5. new \subseteq Tables /\ Pending(p) \subseteq Nat
  BY <1>1, <1>2 DEF Tables
<1>6. After(p) \in Db
  <2>1. /\ db.history \cup Pending(p) \in SUBSET Nat /\ db.tables \cup new \in SUBSET Tables
        /\ (IF Pending(p) = {} THEN uv ELSE Latest(p)) \in Nat
    BY <1>1, <1>5
  <2> QED BY <2>1 DEF After, Db, Identities, MInv
<1>7. CASE Pending(p) = {}
  <2>1. After(p) = [db EXCEPT !.application_id = "ours"]
    <3>1. After(p) = [db EXCEPT !.application_id = "ours", !.tables = db.tables,
                                !.history = db.history, !.user_version = uv]
      BY <1>7 DEF After
    <3> QED BY <3>1 DEF MInv, Db
  <2> QED BY <2>1, <1>1, <1>3, <1>6 DEF MInv, Db, Forward, HistoryIsSchema
<1>8. CASE Pending(p) # {}
  <2>1. lo <= Latest(p) /\ lo \notin db.history
    BY <1>1, <1>2, <1>8 DEF Commits, Unrecorded
  <2>2. lo = uv + 1 /\ uv < Latest(p)
    BY <2>1, <1>1
  <2>3. db.history \cup Pending(p) = 1 .. Latest(p)
    BY <2>2, <1>1, <1>2
  <2>4. Schema(Latest(p)) \subseteq db.tables \cup new
    <3>1. SUFFICES ASSUME NEW v \in 1 .. Latest(p), NEW t \in Objects[v]
                   PROVE  t \in db.tables \cup new
      BY DEF Schema
    <3>2. CASE v <= uv
      <4>1. Objects[v] \subseteq Schema(uv)
        BY <3>2, <1>1 DEF Schema
      <4> QED BY <4>1 DEF MInv, HistoryIsSchema
    <3>3. CASE v > uv
      <4>1. v \in Pending(p)
        BY <3>3, <2>2, <1>1, <1>2
      <4> QED BY <4>1
    <3> QED BY <3>2, <3>3, <1>1
  <2>5. kind = "runtime" => After(p).tables = Schema(Latest(p))
    BY DEF Commits
  <2>6. /\ After(p).user_version = Latest(p) /\ After(p).history = 1 .. Latest(p)
        /\ After(p).tables = db.tables \cup new /\ After(p).application_id = "ours"
    BY <1>4, <1>8, <2>3
  <2>7. Forward(db, After(p))
    BY <2>2, <2>6, <1>1, <1>3, <1>4 DEF Forward
  <2> QED BY <1>6, <2>4, <2>5, <2>6, <2>7
<1> QED BY <1>7, <1>8

\* A step that leaves the database alone or creates its file, and replaces
\* the row of one process by one that fits.
LEMMA RowStep ==
  ASSUME MInv, NEW p \in Procs, NEW r \in Row, proc' = [proc EXCEPT ![p] = r],
         kind' = kind, db' = db \/ db' = [db EXCEPT !.exists = TRUE],
         RowFits(r, db)
  PROVE  MInv' /\ Forward(db, db')
<1>1. /\ db' \in Db
      /\ db'.user_version = db.user_version /\ db'.application_id = db.application_id
      /\ db'.history = db.history /\ db'.tables = db.tables
      /\ db.exists => db'.exists
  BY DEF MInv, Db
<1>2. Forward(db, db')
  <2>1. db.application_id = "other" => db' = [db EXCEPT !.exists = TRUE]
    BY DEF MInv, Db
  <2> QED BY <1>1, <2>1 DEF Forward, MInv, Db
<1>3. \A q \in Procs : proc'[q] \in Row /\ RowFits(proc'[q], db)
  BY DEF MInv
<1>4. \A q \in Procs : RowFits(proc'[q], db')
  BY <1>1, <1>2, <1>3, FitsForward DEF MInv
<1>5. proc' \in [Procs -> Row]
  BY DEF MInv
<1>6. HistoryIsSchema'
  BY <1>1 DEF MInv, HistoryIsSchema, Schema
<1> QED BY <1>1, <1>2, <1>4, <1>5, <1>6 DEF MInv

-----------------------------------------------------------------------------
\* Whatever may be at the path is a database whose history is its schema.
LEMMA InitInv == MInit => MInv
<1> SUFFICES ASSUME MInit PROVE MInv
  OBVIOUS
<1>1. \A v \in 1 .. MaxVersion : Schema(v) \subseteq Tables
  BY SchemaAssumption DEF Schema, Tables
<1>2. Schema(0) = {} /\ 1 .. 0 = {}
  BY DEF Schema
<1>3. /\ db \in Db /\ HistoryIsSchema
      /\ db.application_id = "other" => db.exists
  <2>1. CASE \E v \in 1 .. MaxVersion : db = Versioned(v)
    <3>1. PICK v \in 1 .. MaxVersion : db = Versioned(v)
      BY <2>1
    <3>2. v \in Nat /\ v > 0 /\ 1 .. v \subseteq Nat
      BY SchemaAssumption
    <3>3. db \in Db /\ db.application_id # "other"
      BY <3>1, <3>2, <1>1 DEF Versioned, Db, Identities
    <3>4. HistoryIsSchema
      BY <3>1 DEF Versioned, HistoryIsSchema
    <3> QED BY <3>3, <3>4
  <2>2. CASE ~ \E v \in 1 .. MaxVersion : db = Versioned(v)
    <3>1. db \in {[Blank EXCEPT !.exists = FALSE], Blank,
                  [Blank EXCEPT !.tables = Objects[1]], [Blank EXCEPT !.tables = Anchor],
                  [Blank EXCEPT !.tables = Anchor \cup {"unknown"}],
                  [Blank EXCEPT !.application_id = "other"]}
      BY <2>2 DEF MInit, Found
    <3>2. /\ db.user_version = 0 /\ db.history = {}
          /\ db.application_id = "other" => db.exists
      BY <3>1 DEF Blank
    <3>3. db \in Db
      <4>1. Objects[1] \subseteq Tables /\ Anchor \subseteq Tables /\ "unknown" \in Tables
        BY SchemaAssumption DEF Tables
      <4>2. \A e \in BOOLEAN, a \in Identities, T \in SUBSET Tables :
               [exists |-> e, application_id |-> a, user_version |-> 0,
                history |-> {}, tables |-> T] \in Db
        BY DEF Db
      <4>3. \E e \in BOOLEAN, a \in Identities, T \in SUBSET Tables :
               db = [exists |-> e, application_id |-> a, user_version |-> 0,
                     history |-> {}, tables |-> T]
        <5>1. {} \in SUBSET Tables /\ Anchor \cup {"unknown"} \in SUBSET Tables
          BY <4>1
        <5> QED BY <3>1, <4>1, <5>1 DEF Blank, Identities
      <4> QED BY <4>2, <4>3
    <3> QED BY <3>2, <3>3, <1>2 DEF HistoryIsSchema
  <2> QED BY <2>1, <2>2
<1>4. \A p \in Procs : proc[p] = Down /\ Down \in Row /\ RowFits(Down, db)
  BY <1>3, DownRow DEF MInit
<1> QED BY <1>3, <1>4 DEF MInv, MInit

\* Only what was seen not to be another application's goes on to be migrated.
LEMMA ApplyRow ==
  ASSUME MInv, NEW p \in Procs, At(p, "decide"), proc[p].seen.application_id # "other"
  PROVE  LET s == [proc[p] EXCEPT !.pc = "apply"] IN s \in Row /\ RowFits(s, db)
  BY DEF MInv, Row, RowFits, At

\* A process that was verified runs.
LEMMA UpRow ==
  ASSUME MInv, NEW p \in Procs, At(p, "decide")
  PROVE  LET s == [proc[p] EXCEPT !.pc = "up"] IN s \in Row /\ RowFits(s, db)
  BY DEF MInv, Row, RowFits, At

\* A start ends, whatever the process was doing.
LEMMA RefuseStep ==
  ASSUME MInv, NEW p \in Procs, Refuse(p), kind' = kind, db' = db
  PROVE  MInv' /\ Forward(db, db')
  BY DownRow, RowStep DEF Refuse, MInv

\* A call starts, and its connection may create the file.
LEMMA CallStep ==
  ASSUME MInv, NEW p \in Procs, NEW call \in {"migrate", "prepare", "verify"},
         Call(p, call), kind' = kind, db' = db \/ db' = [db EXCEPT !.exists = TRUE]
  PROVE  MInv' /\ Forward(db, db')
<1> DEFINE r == [pc |-> "application_id", call |-> call, seen |-> NothingRead]
<1>1. r \in Row /\ RowFits(r, db)
  BY FreshRow DEF MInv
<1>2. proc' = [proc EXCEPT ![p] = r]
  BY DEF Call
<1> QED BY ONLY <1>1, <1>2, RowStep, MInv, kind' = kind, p \in Procs,
                db' = db \/ db' = [db EXCEPT !.exists = TRUE]

\* One statement of a status.
LEMMA ReadStep ==
  ASSUME MInv, NEW p \in Procs, Read(p)
  PROVE  MInv' /\ Forward(db, db')
<1> DEFINE r == proc[p]
           s == [r EXCEPT !.seen[r.pc] = db[r.pc], !.pc = NextRead(p)]
<1>1. r \in Row /\ RowFits(r, db) /\ db \in Db /\ r.pc \in Fields
  BY DEF MInv, Read, NothingRead, Fields
<1>2. NextRead(p) \in {"user_version", "tables", "history", "decide"}
  BY DEF NextRead
<1>3. s \in Row /\ RowFits(s, db)
  BY <1>1, <1>2, ReadRow
<1>4. proc' = [proc EXCEPT ![p] = s]
  BY DEF Read, MInv
<1> QED BY <1>3, <1>4, RowStep DEF Read

\* What a process concludes.
LEMMA DecideStep ==
  ASSUME MInv, NEW p \in Procs, Decide(p)
  PROVE  MInv' /\ Forward(db, db')
<1> DEFINE seen == proc[p].seen
<1>1. At(p, "decide") /\ kind' = kind /\ db' = db
  BY DEF Decide
<1>2. CASE Refuse(p)
  BY <1>1, <1>2, RefuseStep
<1>3. CASE \E call \in {"migrate", "prepare", "verify"} : Call(p, call)
  BY <1>1, <1>3, CallStep
<1>4. CASE Apply(p) /\ seen.application_id # "other"
  <2> DEFINE s == [proc[p] EXCEPT !.pc = "apply"]
  <2>1. s \in Row /\ RowFits(s, db)
    BY <1>1, <1>4, ApplyRow
  <2>2. proc' = [proc EXCEPT ![p] = s]
    BY <1>4 DEF Apply, MInv
  <2> QED BY <2>1, <2>2, <1>1, RowStep
<1>5. CASE proc' = [proc EXCEPT ![p].pc = "up"]
  <2> DEFINE s == [proc[p] EXCEPT !.pc = "up"]
  <2>1. s \in Row /\ RowFits(s, db)
    BY <1>1, UpRow
  <2>2. proc' = [proc EXCEPT ![p] = s]
    BY <1>5 DEF MInv
  <2> QED BY <2>1, <2>2, <1>1, RowStep
<1>6. StatusReturns(p, seen) \/ (kind = "control" /\ Migratable(p, seen)) =>
        seen.application_id # "other"
  BY DEF StatusReturns, Migratable, Compatible
<1>7. \/ Refuse(p)
      \/ Prepare(p, seen)
      \/ /\ Migrate(p, seen)
         /\ kind = "control" \/ StatusReturns(p, seen)
      \/ Verify(p, seen)
  BY DEF Decide
<1>8. CASE Prepare(p, seen)
  BY <1>8, <1>2, <1>3 DEF Prepare
<1>9. CASE Migrate(p, seen) /\ (kind = "control" \/ StatusReturns(p, seen))
  BY <1>9, <1>2, <1>3, <1>4, <1>6 DEF Migrate
<1>10. CASE Verify(p, seen)
  BY <1>10, <1>2, <1>5 DEF Verify
<1> QED BY <1>2, <1>7, <1>8, <1>9, <1>10

\* The exclusive transaction commits or leaves the database alone.
LEMMA TransactionStep ==
  ASSUME MInv, NEW p \in Procs, Transaction(p)
  PROVE  MInv' /\ Forward(db, db')
<1>1. At(p, "apply") /\ kind' = kind
  BY DEF Transaction
<1>2. CASE ~Commits(p)
  BY <1>1, <1>2, RefuseStep DEF Transaction
<1>3. CASE Commits(p)
  <2> DEFINE r == [pc |-> "application_id", call |-> "verify", seen |-> NothingRead]
  <2>1. db' = After(p) /\ proc' = [proc EXCEPT ![p] = r]
    BY <1>3 DEF Transaction, Call
  <2>2. /\ db' \in Db /\ Forward(db, db')
        /\ db'.history = 1 .. db'.user_version
        /\ Schema(db'.user_version) \subseteq db'.tables
        /\ db'.application_id = "ours"
        /\ kind = "runtime" /\ db'.user_version > 0 =>
             db'.tables = Schema(db'.user_version)
    BY <1>1, <1>3, <2>1, AfterForward
  <2>3. HistoryIsSchema'
    BY <2>2, <1>1 DEF HistoryIsSchema, Schema
  <2>4. r \in Row /\ RowFits(r, db')
    BY <2>2, FreshRow
  <2>5. \A q \in Procs : RowFits(proc'[q], db')
    <3> SUFFICES ASSUME NEW q \in Procs PROVE RowFits(proc'[q], db')
      OBVIOUS
    <3>1. CASE q = p
      BY <3>1, <2>1, <2>4 DEF MInv
    <3>2. CASE q # p
      <4>1. proc'[q] = proc[q] /\ proc[q] \in Row /\ RowFits(proc[q], db) /\ db \in Db
        BY <3>2, <2>1 DEF MInv
      <4> QED BY <4>1, <2>2, FitsForward
    <3> QED BY <3>1, <3>2
  <2>6. proc' \in [Procs -> Row]
    BY <2>1, <2>4 DEF MInv
  <2> QED BY <2>2, <2>3, <2>5, <2>6 DEF MInv
<1> QED BY <1>2, <1>3

-----------------------------------------------------------------------------
\* Every step of every process, and a kill in any of them, keeps the invariant
\* and takes the database forward.
LEMMA StepInv == MInv /\ MNext => MInv' /\ Forward(db, db')
<1> SUFFICES ASSUME MInv, NEW p \in Procs, Step(p) \/ Kill(p)
             PROVE  MInv' /\ Forward(db, db')
  BY DEF MNext
<1>1. CASE Start(p)
  <2> DEFINE c == IF p \in Operators THEN "migrate"
                  ELSE IF kind = "runtime" THEN "prepare"
                  ELSE IF db.exists THEN "verify" ELSE "migrate"
  <2>1. c \in {"migrate", "prepare", "verify"}
    OBVIOUS
  <2>2. Call(p, c) /\ kind' = kind /\ db' = [db EXCEPT !.exists = TRUE]
    BY <1>1 DEF Start
  <2> HIDE DEF c
  <2> QED BY <2>1, <2>2, CallStep
<1>2. CASE Read(p)
  BY <1>2, ReadStep
<1>3. CASE Decide(p)
  BY <1>3, DecideStep
<1>4. CASE Transaction(p)
  BY <1>4, TransactionStep
<1>5. CASE Guard(p)
  BY <1>5, RefuseStep DEF Guard
<1>6. CASE Kill(p)
  BY <1>6, RefuseStep DEF Kill
<1> QED BY <1>1, <1>2, <1>3, <1>4, <1>5, <1>6 DEF Step

\* Nothing changes in a stuttering step.
LEMMA StutterInv == MInv /\ UNCHANGED mvars => MInv'
<1> SUFFICES ASSUME MInv, UNCHANGED mvars PROVE MInv'
  OBVIOUS
<1>1. kind' = kind /\ db' = db /\ proc' = proc
  BY DEF mvars
<1> QED BY <1>1 DEF MInv, HistoryIsSchema, Schema

\* The inductive invariant holds for any processes, releases and schemas:
\* what a process has read is never ahead of the database it migrates.
THEOREM MigrationInvariance == MSpec => []MInv
<1>1. MInv /\ [MNext]_mvars => MInv'
  BY StepInv, StutterInv
<1> QED BY InitInv, <1>1, PTL DEF MSpec

\* The version, the history and the tables of a database agree in every state
\* of runtime_migrations.py and migrations.py, whatever stale or torn status a
\* process decided from.
THEOREM HistoryTheorem == MSpec => []HistoryIsSchema
<1>1. MInv => HistoryIsSchema
  BY DEF MInv
<1> QED BY MigrationInvariance, <1>1, PTL

\* No step of any release takes a database back, and none touches the
\* database of another application.
THEOREM ForwardTheorem == MSpec => ForwardOnly
<1> DEFINE A == /\ db'.user_version >= db.user_version
                /\ db.history \subseteq db'.history
                /\ db.tables \subseteq db'.tables
                /\ db.application_id = "other" => db' = [db EXCEPT !.exists = TRUE]
<1>1. MInv /\ [MNext]_mvars => [A]_mvars
  BY StepInv DEF Forward
<1>2. MSpec => [][A]_mvars
  BY MigrationInvariance, <1>1, PTL DEF MSpec
<1> QED BY <1>2 DEF ForwardOnly

=============================================================================
