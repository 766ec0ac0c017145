----------------------------- MODULE Migrations -----------------------------
(***************************************************************************)
(* The schema migrations of internal/store/migrate.go: any number of       *)
(* instances of the service (store.Open) and of cmd/migrate run Migrate    *)
(* and MigrateDown on one database at the same time, with nothing but the  *)
(* database between them.                                                  *)
(*                                                                         *)
(* A member of Runs is one call of Migrate or MigrateDown.  Migrations are *)
(* numbered by their place in the sorted list, 1..NumMigrations; the one   *)
(* table that migration v creates is called v as well.                     *)
(*                                                                         *)
(* Postgres is external: every statement sees what is committed before it  *)
(* and what its own transaction has done; a changed table or row is locked *)
(* until the transaction ends; a statement that meets the lock of another  *)
(* transaction waits.                                                      *)
(***************************************************************************)
EXTENDS Integers

CONSTANTS
    Runs,
    NumMigrations,
    Needs           \* [migrations -> the tables its foreign keys refer to]

Versions == 1..NumMigrations

ASSUME MigrationsAssumption ==
    /\ NumMigrations \in Nat
    /\ Needs \in [Versions -> SUBSET Versions]
    /\ \A v \in Versions : Needs[v] \subseteq 1..(v - 1)

VARIABLES
    tables,     \* the tables that exist, committed
    records,    \* the versions in schema_migrations, committed
    kind,       \* what each run is: "none", "up" or "down"
    pc,         \* where it is
    at,         \* the version it is at
    lock,       \* the lock it holds on the table of that version; it is exclusive when
                \* its transaction has created or dropped the table
    wrote,      \* its transaction has inserted or deleted the row of that version
    downs,      \* history: the runs of Migrate since whose start a MigrateDown took effect
    overlap     \* history: a Migrate and a MigrateDown have run at the same time

db == <<tables, records>>
tx == <<lock, wrote>>
vars == <<db, kind, pc, at, tx, downs, overlap>>

-----------------------------------------------------------------------------
InTx == {"script", "record", "commit"}
Busy == {"check", "find"} \cup InTx
PCs  == {"new", "ok", "failed"} \cup Busy

\* Migrations are applied in order, so that a first start finds a first part of them.
Init ==
    /\ \E n \in 0..NumMigrations : tables = 1..n /\ records = 1..n
    /\ kind = [p \in Runs |-> "none"]
    /\ pc = [p \in Runs |-> "new"]
    /\ at = [p \in Runs |-> 1]
    /\ lock = [p \in Runs |-> "none"]
    /\ wrote = [p \in Runs |-> FALSE]
    /\ downs = {}
    /\ overlap = FALSE

Goto(p, from, to) ==
    /\ pc[p] = from
    /\ pc' = [pc EXCEPT ![p] = to]

\* The table schema_migrations is there, or is created.
Start(p, k) ==
    /\ Goto(p, "new", IF k = "up" THEN "check" ELSE "find")
    /\ kind' = [kind EXCEPT ![p] = k]
    /\ overlap' = (overlap \/ \E q \in Runs : pc[q] \in Busy /\ kind[q] # k)
    /\ UNCHANGED <<db, at, tx, downs>>

\* The transaction of p ends, and with it its locks.
EndTx(p) ==
    /\ lock' = [lock EXCEPT ![p] = "none"]
    /\ wrote' = [wrote EXCEPT ![p] = FALSE]

\* A statement fails: Rollback, and the run returns the error.
RollbackForgotten(p) ==     \* faulty: the transaction stays open
    /\ pc' = [pc EXCEPT ![p] = "failed"]
    /\ UNCHANGED <<db, kind, at, tx, downs, overlap>>
Rollback(p) ==
    /\ pc' = [pc EXCEPT ![p] = "failed"]
    /\ EndTx(p)
    /\ UNCHANGED <<db, kind, at, downs, overlap>>

-----------------------------------------------------------------------------
(* Migrate: the loop over the migrations.                                  *)

AppliedUpToLatest(v) == \E w \in records : v <= w       \* faulty: the latest one decides
Applied(v) == v \in records

\* A migration that is recorded is skipped; after the last one Migrate returns nil.
CheckSkips(p) ==
    /\ pc[p] = "check" /\ at[p] \in Versions
    /\ Applied(at[p])
    /\ at' = [at EXCEPT ![p] = @ + 1]
    /\ UNCHANGED <<db, kind, pc, tx, downs, overlap>>

CheckDone(p) ==
    /\ Goto(p, "check", "ok")
    /\ at[p] \notin Versions
    /\ UNCHANGED <<db, kind, at, tx, downs, overlap>>

CheckBegins(p) ==
    /\ Goto(p, "check", "script")
    /\ at[p] \in Versions
    /\ ~Applied(at[p])
    /\ UNCHANGED <<db, kind, at, tx, downs, overlap>>

\* The tables a run has locked: to create or drop one is also to lock those it
\* refers to.
Locked(q) ==
    CASE lock[q] = "none"      -> {}
      [] lock[q] = "shared"    -> {at[q]}
      [] lock[q] = "exclusive" -> {at[q]} \cup Needs[at[q]]

FreeToChange(p) ==
    \A q \in Runs \ {p} : Locked(q) \cap ({at[p]} \cup Needs[at[p]]) = {}
FreeToShare(p) ==
    \A q \in Runs \ {p} : lock[q] = "exclusive" => at[p] \notin Locked(q)

\* CREATE TABLE IF NOT EXISTS and its indexes, on a table that exists: no change.
UpFindsTable(p) ==
    /\ kind[p] = "up" /\ Goto(p, "script", "record")
    /\ at[p] \in tables
    /\ FreeToShare(p)
    /\ lock' = [lock EXCEPT ![p] = "shared"]
    /\ UNCHANGED <<db, kind, at, wrote, downs, overlap>>

UpCreates(p) ==
    /\ kind[p] = "up" /\ Goto(p, "script", "record")
    /\ FreeToChange(p)
    /\ at[p] \notin tables
    /\ Needs[at[p]] \subseteq tables
    /\ lock' = [lock EXCEPT ![p] = "exclusive"]
    /\ UNCHANGED <<db, kind, at, wrote, downs, overlap>>

\* A table it refers to is missing.
UpRefused(p) ==
    /\ kind[p] = "up" /\ pc[p] = "script"
    /\ FreeToChange(p)
    /\ at[p] \notin tables
    /\ ~(Needs[at[p]] \subseteq tables)
    /\ Rollback(p)

\* Another transaction has deleted, or written, the row.
DeletedByOther(p) == \E q \in Runs \ {p} : at[q] = at[p] /\ wrote[q] /\ kind[q] = "down"
WrittenByOther(p) == \E q \in Runs \ {p} : at[q] = at[p] /\ wrote[q]

\* INSERT INTO schema_migrations; a second row of a version violates its key.
RecordAutocommitted(p) ==       \* faulty: not in the transaction of the script
    /\ kind[p] = "up" /\ Goto(p, "record", "commit")
    /\ ~WrittenByOther(p)
    /\ at[p] \notin records
    /\ records' = records \cup {at[p]}
    /\ UNCHANGED <<tables, kind, at, tx, downs, overlap>>
Record(p) ==
    /\ kind[p] = "up" /\ Goto(p, "record", "commit")
    /\ ~WrittenByOther(p)
    /\ at[p] \notin records
    /\ wrote' = [wrote EXCEPT ![p] = TRUE]
    /\ UNCHANGED <<db, kind, at, lock, downs, overlap>>

RecordRefused(p) ==
    /\ kind[p] = "up" /\ pc[p] = "record"
    /\ ~WrittenByOther(p)
    /\ at[p] \in records
    /\ Rollback(p)

-----------------------------------------------------------------------------
(* MigrateDown: one step back.                                             *)

\* The latest version recorded; with none there is nothing to do.
FindOldest(p) ==            \* faulty: the ORDER BY is the other way round
    /\ Goto(p, "find", "script")
    /\ \E v \in records :
          /\ \A w \in records : v <= w
          /\ at' = [at EXCEPT ![p] = v]
    /\ UNCHANGED <<db, kind, tx, downs, overlap>>
FindLatest(p) ==
    /\ Goto(p, "find", "script")
    /\ \E v \in records :
          /\ \A w \in records : w <= v
          /\ at' = [at EXCEPT ![p] = v]
    /\ UNCHANGED <<db, kind, tx, downs, overlap>>

FindNone(p) ==
    /\ Goto(p, "find", "ok")
    /\ records = {}
    /\ UNCHANGED <<db, kind, at, tx, downs, overlap>>

Dependents(v) == {w \in tables : v \in Needs[w]}

\* DROP TABLE IF EXISTS: a table that another transaction is creating does not exist
\* yet, and is not waited for.
DownDrops(p) ==
    /\ kind[p] = "down" /\ Goto(p, "script", "record")
    /\ at[p] \in tables
    /\ FreeToChange(p)
    /\ Dependents(at[p]) = {}
    /\ lock' = [lock EXCEPT ![p] = "exclusive"]
    /\ UNCHANGED <<db, kind, at, wrote, downs, overlap>>

DownFindsNoTable(p) ==
    /\ kind[p] = "down" /\ Goto(p, "script", "record")
    /\ at[p] \notin tables
    /\ UNCHANGED <<db, kind, at, tx, downs, overlap>>

\* Another table refers to it.
DownRefused(p) ==
    /\ kind[p] = "down" /\ pc[p] = "script"
    /\ at[p] \in tables
    /\ FreeToChange(p)
    /\ Dependents(at[p]) # {}
    /\ Rollback(p)

\* DELETE FROM schema_migrations, of a row that may be gone already.
Unrecord(p) ==
    /\ kind[p] = "down" /\ Goto(p, "record", "commit")
    /\ ~DeletedByOther(p)
    /\ wrote' = [wrote EXCEPT ![p] = at[p] \in records]
    /\ UNCHANGED <<db, kind, at, lock, downs, overlap>>

-----------------------------------------------------------------------------
(* Both.                                                                   *)

\* What the transaction has done becomes visible to the others.
With(S, v, k) == IF k = "up" THEN S \cup {v} ELSE S \ {v}

TakeEffect(p) ==
    /\ tables'  = IF lock[p] = "exclusive" THEN With(tables, at[p], kind[p]) ELSE tables
    /\ records' = IF wrote[p] THEN With(records, at[p], kind[p]) ELSE records
    /\ downs'   = IF kind[p] = "down" THEN downs \cup {q \in Runs : kind[q] = "up"} ELSE downs

\* Migrate goes on with the next version, MigrateDown returns nil.
Commit(p) ==
    /\ Goto(p, "commit", IF kind[p] = "up" THEN "check" ELSE "ok")
    /\ TakeEffect(p)
    /\ EndTx(p)
    /\ at' = IF kind[p] = "up" THEN [at EXCEPT ![p] = @ + 1] ELSE at
    /\ UNCHANGED <<kind, overlap>>

\* Commit returns an error, after its effect perhaps.
CommitFails(p) ==
    /\ Goto(p, "commit", "failed")
    /\ TakeEffect(p) \/ UNCHANGED <<db, downs>>
    /\ EndTx(p)
    /\ UNCHANGED <<kind, at, overlap>>

\* A statement fails, the 30 seconds of cmd/migrate are over, or the process dies:
\* Postgres rolls the transaction back.
Abort(p) ==
    /\ pc[p] \in Busy
    /\ Rollback(p)

Finished ==
    /\ \A p \in Runs : pc[p] \in {"ok", "failed"}
    /\ UNCHANGED vars

Proceeds(p) ==
    \/ CheckSkips(p) \/ CheckDone(p) \/ CheckBegins(p)
    \/ UpFindsTable(p) \/ UpCreates(p) \/ UpRefused(p)
    \/ Record(p) \/ RecordRefused(p)
    \/ FindLatest(p) \/ FindNone(p)
    \/ DownDrops(p) \/ DownFindsNoTable(p) \/ DownRefused(p)
    \/ Unrecord(p)
    \/ Commit(p)

Next ==
    \/ \E p \in Runs : \/ \E k \in {"up", "down"} : Start(p, k)
                       \/ Proceeds(p)
                       \/ CommitFails(p)
                       \/ Abort(p)
    \/ Finished

Spec == Init /\ [][Next]_vars

\* A statement that need not wait is answered.  No failure is assumed: the locks
\* alone must not keep a run from its end.
FairSpec == Spec /\ \A p \in Runs : WF_vars(Proceeds(p))

-----------------------------------------------------------------------------
\* Locks and unwritten rows are those of a transaction in progress.
TypeOK ==
    /\ tables \subseteq Versions /\ records \subseteq Versions
    /\ kind \in [Runs -> {"none", "up", "down"}]
    /\ pc \in [Runs -> PCs]
    /\ at \in [Runs -> 1..(NumMigrations + 1)]
    /\ lock \in [Runs -> {"none", "shared", "exclusive"}]
    /\ wrote \in [Runs -> BOOLEAN]
    /\ \A p \in Runs : pc[p] \notin {"record", "commit"} => lock[p] = "none" /\ ~wrote[p]
    /\ downs \subseteq Runs
    /\ overlap \in BOOLEAN

\* A version that is recorded has its table, whatever runs at the same time and
\* wherever it fails: the code never works on a schema that is recorded but absent.
RecordedTablesExist == records \subseteq tables

\* When Migrate returns nil, every migration is recorded, also those that were
\* missing in the midst, unless a MigrateDown took effect since it started.
MigrateCompletes ==
    \A p \in Runs : pc[p] = "ok" /\ kind[p] = "up" /\ p \notin downs => records = Versions

\* Runs of one kind keep the migrations recorded a first part of the list, however
\* many there are at a time.  A Migrate and a MigrateDown at the same time may
\* leave a hole.
HolesNeedOverlap == ~overlap => \A v \in records : 1..v \subseteq records

\* The next statement of p meets a lock, or an unwritten row, of another transaction.
Waits(p) ==
    \/ /\ pc[p] = "script" /\ kind[p] = "up"
       /\ IF at[p] \in tables THEN ~FreeToShare(p) ELSE ~FreeToChange(p)
    \/ /\ pc[p] = "script" /\ kind[p] = "down"
       /\ at[p] \in tables /\ ~FreeToChange(p)
    \/ pc[p] = "record" /\ kind[p] = "up" /\ WrittenByOther(p)
    \/ pc[p] = "record" /\ kind[p] = "down" /\ DeletedByOther(p)

\* Migrate and MigrateDown take the table of a version before its row, and nothing
\* after it: whenever a run waits, a transaction in progress need not, and its end
\* will free what it holds.  The runs never wait on each other in a circle.
NoDeadlock ==
    \A p \in Runs : Waits(p) =>
        \E q \in Runs : pc[q] \in {"record", "commit"} /\ ~Waits(q)

\* No run waits for ever on the locks of others.
RunsEnd == \A p \in Runs : pc[p] \in Busy ~> pc[p] \in {"ok", "failed"}
=============================================================================
