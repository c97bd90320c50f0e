----------------------------- MODULE Migrations -----------------------------
(***************************************************************************)
(* The forward-only schema migrations of src/src/operations/migrations.py  *)
(* (the control database) and runtime_migrations.py (the other databases), *)
(* for one database and the processes that open it.  A process reads the   *)
(* identity, the version, the tables and the history of the database one   *)
(* statement at a time, outside any transaction, decides from what it read *)
(* and migrates in one BEGIN EXCLUSIVE transaction.  Another process may   *)
(* commit between any two of these steps, and a process may be killed in   *)
(* any of them.  Processes may run different releases: their Latest        *)
(* differs.  A migration is the set of tables it adds; a table with other  *)
(* columns is another table.                                               *)
(***************************************************************************)
EXTENDS Naturals, Sequences, FiniteSets

CONSTANTS
    Procs,
    Releases,     \* process -> latest runtime schema version its release knows
    Operators,    \* processes that run the migrate command; the rest are services
    Adopters,     \* operators that pass allow_legacy_adoption
    Objects,      \* version -> tables its migration creates
    Anchor,       \* legacy_anchor_tables
    Kinds,        \* "control", "runtime"
    MaxKills      \* bound: processes killed

MaxVersion == Len(Objects)
Schema(version) == UNION {Objects[v] : v \in 1 .. version}

ASSUME SchemaAssumption ==
    /\ MaxVersion \in Nat
    /\ Anchor \subseteq Objects[1] /\ Anchor # {}
    /\ \A v, w \in 1 .. MaxVersion : v # w => Objects[v] \cap Objects[w] = {}
    /\ \A v \in 1 .. MaxVersion : Objects[v] # {}
    /\ MaxKills \in Nat

ASSUME ReleaseAssumption ==
    /\ Releases \in [Procs -> 1 .. MaxVersion]
    /\ Adopters \subseteq Operators /\ Operators \subseteq Procs

VARIABLES
    kind,         \* which of the two migration modules owns the database
    db,           \* the database file
    proc,         \* process -> where it is and what it has read
    kills

mvars == <<kind, db, proc, kills>>

\* PRAGMA application_id: 0, this kind's, or another application's.
Identities == {"none", "ours", "other"}

Blank == [exists |-> TRUE, application_id |-> "none", user_version |-> 0,
          history |-> {}, tables |-> {}]
Versioned(version) ==
    [exists |-> TRUE, application_id |-> "ours", user_version |-> version,
     history |-> 1 .. version, tables |-> Schema(version)]

\* What may be at the path: nothing, an empty file, a database of before the
\* migrations (whole, without its ancillary tables, or with an unknown
\* table), one of an earlier release, one of another application.
Found ==
    {[Blank EXCEPT !.exists = FALSE], Blank,
     [Blank EXCEPT !.tables = Objects[1]], [Blank EXCEPT !.tables = Anchor],
     [Blank EXCEPT !.tables = Anchor \cup {"unknown"}],
     [Blank EXCEPT !.application_id = "other"]}
    \cup {Versioned(v) : v \in 1 .. MaxVersion}

NothingRead == [application_id |-> "none", user_version |-> 0, tables |-> {},
                history |-> {}]
Down == [pc |-> "down", call |-> "none", seen |-> NothingRead]

MInit ==
    /\ kind \in Kinds
    /\ db \in Found
    /\ proc = [p \in Procs |-> Down]
    /\ kills = 0

\* The latest version: there is only one of the control schema.
Latest(p) == IF kind = "control" THEN 1 ELSE Releases[p]

At(p, pc) == proc[p].pc = pc

\* A MigrationError or an SQLite error ends the start of the process.
Refuse(p) == proc' = [proc EXCEPT ![p] = Down]

Call(p, call) ==
    proc' = [proc EXCEPT ![p] = [pc |-> "application_id", call |-> call, seen |-> NothingRead]]

-----------------------------------------------------------------------------
(***************************************************************************)
(* A process starts.                                                       *)
(***************************************************************************)

\* JobStore.__init__ migrates only where there is no file; the other stores
\* prepare their database; an operator runs the migration itself.  Connecting
\* creates the file.
Start(p) ==
    /\ At(p, "down")
    /\ Call(p, IF p \in Operators THEN "migrate"
               ELSE IF kind = "runtime" THEN "prepare"
               ELSE IF db.exists THEN "verify" ELSE "migrate")
    /\ db' = [db EXCEPT !.exists = TRUE]
    /\ UNCHANGED <<kind, kills>>

\* The four statements of a status, each a read transaction of its own; the
\* migration of the control database reads no history.
NextRead(p) ==
    CASE At(p, "application_id") -> "user_version"
      [] At(p, "user_version")   -> "tables"
      [] At(p, "tables")         -> IF kind = "control" /\ proc[p].call = "migrate"
                                    THEN "decide" ELSE "history"
      [] OTHER                   -> "decide"

Read(p) ==
    /\ proc[p].pc \in DOMAIN NothingRead
    /\ proc' = [proc EXCEPT ![p].seen[proc[p].pc] = db[proc[p].pc],
                            ![p].pc = NextRead(p)]
    /\ UNCHANGED <<kind, db, kills>>

-----------------------------------------------------------------------------
(***************************************************************************)
(* What a process concludes from what it has read.                         *)
(***************************************************************************)
IsBlank(seen) == seen.tables = {} /\ seen.user_version = 0 /\ seen.application_id = "none"

LegacyTables == IF kind = "control" THEN Objects[1] ELSE Anchor
IsLegacy(seen) == seen.tables \cap LegacyTables # {} /\ seen.user_version = 0

IsReady(p, seen) ==
    /\ seen.application_id = "ours" /\ seen.user_version = Latest(p)
    /\ kind = "runtime" => Cardinality(seen.history) = Latest(p)

\* The tables are read again for the comparison with the expected schema.
\* Control compares the tables it requires, the others all of them.
StructureFits(p, seen) ==
    /\ IsLegacy(seen) => IF kind = "control" THEN Objects[1] \subseteq db.tables
                         ELSE seen.tables \subseteq Schema(Latest(p))
    /\ seen.user_version > 0 =>
        IF kind = "control" THEN Objects[1] \subseteq db.tables
        ELSE db.tables = Schema(seen.user_version)

Compatible(p, seen) ==
    seen.application_id \in {"none", "ours"} /\ seen.user_version <= Latest(p)

\* schema_status and runtime_schema_status return; otherwise they raise.
StatusReturns(p, seen) ==
    /\ Compatible(p, seen)
    /\ seen.history = 1 .. seen.user_version
    /\ kind = "runtime" /\ seen.tables # {} /\ seen.user_version = 0 => IsLegacy(seen)
    /\ StructureFits(p, seen)

\* Mutant: a database of an earlier version is not migrated.
MigratableOnce(p, seen) ==
    /\ IsLegacy(seen) => p \in Adopters
    /\ IF kind = "control" THEN Compatible(p, seen) ELSE IsBlank(seen) \/ IsLegacy(seen)

\* A database that the migration accepts.
Migratable(p, seen) ==
    /\ IsLegacy(seen) => p \in Adopters
    /\ IF kind = "control" THEN Compatible(p, seen)
       ELSE \/ IsBlank(seen) \/ IsLegacy(seen)
            \/ seen.application_id = "ours" /\ seen.user_version \in 1 .. Latest(p) - 1

\* prepare_runtime_database.
Prepare(p, seen) ==
    IF IsBlank(seen) THEN Call(p, "migrate")
    ELSE IF IsLegacy(seen) THEN Refuse(p) ELSE Call(p, "verify")

Apply(p) == proc' = [proc EXCEPT ![p].pc = "apply"]

\* verify_control_database and verify_runtime_database; then the process runs.
Verify(p, seen) ==
    IF IsReady(p, seen) THEN proc' = [proc EXCEPT ![p].pc = "up"] ELSE Refuse(p)

Migrate(p, seen) ==
    IF kind = "runtime" /\ IsReady(p, seen) THEN Call(p, "verify")
    ELSE IF Migratable(p, seen) THEN Apply(p) ELSE Refuse(p)

Decide(p) ==
    LET seen == proc[p].seen
        status == (kind = "control" /\ proc[p].call = "migrate") \/ StatusReturns(p, seen)
    IN  /\ At(p, "decide")
        /\ \/ ~status /\ Refuse(p)
           \/ status /\ proc[p].call = "prepare" /\ Prepare(p, seen)
           \/ status /\ proc[p].call = "migrate" /\ Migrate(p, seen)
           \/ status /\ proc[p].call = "verify" /\ Verify(p, seen)
        /\ UNCHANGED <<kind, db, kills>>

-----------------------------------------------------------------------------
(***************************************************************************)
(* The exclusive transaction.                                              *)
(***************************************************************************)

\* The versions it applies, from what was read before it began.
Pending(p) ==
    (IF IsLegacy(proc[p].seen) THEN 1 ELSE proc[p].seen.user_version + 1) .. Latest(p)

\* INSERT INTO schema_migrations: the version is its primary key.
Unrecorded(p) == Pending(p) \cap db.history = {}

\* CREATE TABLE fails on a table that is there, but for the first version of
\* a runtime database (IF NOT EXISTS) and an adopted control database.
Creatable(p) ==
    \A v \in Pending(p) :
        \/ Objects[v] \cap db.tables = {}
        \/ kind = "runtime" /\ v = 1
        \/ kind = "control" /\ IsLegacy(proc[p].seen)

\* Mutant: an adopted database is given its version but no tables.
AfterAsIs(p) ==
    [db EXCEPT !.application_id = "ours",
               !.history = @ \cup Pending(p),
               !.user_version = IF Pending(p) = {} THEN @ ELSE Latest(p)]

After(p) ==
    [db EXCEPT !.application_id = "ours",
               !.tables = @ \cup UNION {Objects[v] : v \in Pending(p)},
               !.history = @ \cup Pending(p),
               !.user_version = IF Pending(p) = {} THEN @ ELSE Latest(p)]

\* The structure is compared before the commit of a runtime database, and
\* before the adoption of a control database.
Commits(p) ==
    /\ Unrecorded(p) /\ Creatable(p)
    /\ IF kind = "runtime" THEN After(p).tables = Schema(Latest(p))
       ELSE IsLegacy(proc[p].seen) => Objects[1] \subseteq db.tables

\* Mutant: a database that cannot be migrated is created afresh.
TransactionAfresh(p) ==
    /\ At(p, "apply")
    /\ db' = IF Commits(p) THEN After(p) ELSE Versioned(Latest(p))
    /\ Call(p, "verify")
    /\ UNCHANGED <<kind, kills>>

Transaction(p) ==
    /\ At(p, "apply")
    /\ \/ Commits(p) /\ db' = After(p) /\ Call(p, "verify")
       \/ ~Commits(p) /\ Refuse(p) /\ UNCHANGED db
    /\ UNCHANGED <<kind, kills>>

-----------------------------------------------------------------------------
\* assert_control_compatibility and assert_runtime_compatibility.
GuardPasses(p) == db.application_id = "ours" /\ db.user_version = Latest(p)

\* Another release has migrated the database: requests of this one raise.
Guard(p) ==
    /\ At(p, "up") /\ ~GuardPasses(p)
    /\ Refuse(p)
    /\ UNCHANGED <<kind, db, kills>>

\* A transaction that has not committed leaves nothing behind, but a file that
\* was created stays.
Kill(p) ==
    /\ kills < MaxKills /\ ~At(p, "down")
    /\ kills' = kills + 1
    /\ Refuse(p)
    /\ UNCHANGED <<kind, db>>

Step(p) == Start(p) \/ Read(p) \/ Decide(p) \/ Transaction(p) \/ Guard(p)

MNext == \E p \in Procs : Step(p) \/ Kill(p)

\* A supervisor starts every process again; nothing else is assumed.
MSpec == MInit /\ [][MNext]_mvars /\ \A p \in Procs : WF_mvars(Step(p))

-----------------------------------------------------------------------------
(***************************************************************************)
(* Properties.                                                             *)
(***************************************************************************)
MTypeOK ==
    /\ kind \in {"control", "runtime"}
    /\ db.application_id \in Identities
    /\ db.user_version \in 0 .. MaxVersion
    /\ db.history \subseteq 1 .. MaxVersion
    /\ kills \in 0 .. MaxKills

\* The version, the history and the tables of a database agree, whatever
\* stale or torn status a migrating process decided from, and however the
\* database came to its version: created, adopted or upgraded.  The request
\* guard, which looks at the identity and the version only, then vouches for
\* the tables of its release.
HistoryIsSchema ==
    /\ db.history = 1 .. db.user_version
    /\ Schema(db.user_version) \subseteq db.tables
    /\ db.user_version > 0 =>
        /\ db.application_id = "ours"
        /\ kind = "runtime" => db.tables = Schema(db.user_version)

\* "Audited, forward-only schema migrations": no step of any release lowers
\* the version, takes back a row of the history, drops a table or adopts a
\* database of another application.
ForwardOnly ==
    [][/\ db'.user_version >= db.user_version
       /\ db.history \subseteq db'.history
       /\ db.tables \subseteq db'.tables
       /\ db.application_id = "other" => db' = [db EXCEPT !.exists = TRUE]]_mvars

\* What keeps a process out for good: another application, a newer release, an
\* unknown table, a version nobody migrates from, and an empty control file.
\* The last is left behind by a first start that is killed before it commits.
KeptOut(p) ==
    \/ db.application_id = "other" \/ "unknown" \in db.tables
    \/ db.user_version > Latest(p)
    \/ /\ db.user_version = 0 /\ db.tables # {}
       /\ Adopters = {} \/ (kind = "control" /\ ~(Objects[1] \subseteq db.tables))
    \/ db.user_version \in 1 .. Latest(p) - 1 /\ \A o \in Operators : Latest(o) < Latest(p)
    \/ kind = "control" /\ db.user_version = 0 /\ Operators = {}

\* Processes that start together may refuse each other's half-made database,
\* but with a supervisor that starts them again each of them comes up and
\* stays up, or something in the database itself keeps it out.
ComesUp == <>[](\A p \in Procs : (At(p, "up") /\ GuardPasses(p)) \/ KeptOut(p))
=============================================================================
