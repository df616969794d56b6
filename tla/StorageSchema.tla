--------------------------- MODULE StorageSchema ---------------------------
(***************************************************************************)
(* The tables of the storage database and how they change: the migrations  *)
(* of alembic/versions/, run by alembic/env.py in one transaction, while   *)
(* collectors write what storage/orm.py declares.                          *)
(*                                                                         *)
(* Of a column only its integer type matters, of a value only the          *)
(* narrowest type that holds it.  A write is one step here; its statements *)
(* and its transaction are the subject of RuntimeStore.                    *)
(***************************************************************************)
EXTENDS Integers, FiniteSets, SequencesExt

CONSTANTS
  WideColumns,  \* bound: the columns whose values may need 64 bits
  MaxId,        \* 2^31 - 1: the last value of a serial id
  None

ASSUME IdAssumption == MaxId \in Nat \ {0}

VARIABLES
  revision,   \* alembic_version
  db,         \* the tables: their columns' types, rows and last serial id
  migration,  \* the running migration: where it is, the tables it has changed
  failed,     \* the operation the last migration failed at
  refused     \* the last write that was refused, and when

vars == <<revision, db, migration, failed, refused>>

-----------------------------------------------------------------------------
(* Tables and what the ORM declares.                                       *)

Columns(int4, int8) == [c \in int4 \cup int8 |-> IF c \in int8 THEN "int8" ELSE "int4"]

Oids == {"dbid", "userid"}
QueryCounters ==
  <<"calls", "rows", "shared_blks_hit", "shared_blks_read",
    "shared_blks_dirtied", "shared_blks_written">>
Activity == {"active_connections", "blocked_sessions", "waiting_locks", "granted_locks"}
Database ==
  {"datid", "numbackends", "xact_commit", "xact_rollback", "blks_read",
   "blks_hit", "deadlocks"}

ASSUME ColumnsAssumption == WideColumns \subseteq Oids \cup Range(QueryCounters) \cup Database

RuntimeTables ==
  {"runtime_snapshots", "runtime_database_snapshots",
   "runtime_current", "runtime_database_current"}
CurrentTables == {"runtime_current", "runtime_database_current"}
QueryTable == "query_metric_snapshots"

(* The integer columns of the ORM classes; the ids are serial.             *)
Declared(table) ==
  CASE table = QueryTable -> Columns({"id"} \cup Oids, Range(QueryCounters))
    [] table = "runtime_snapshots" -> Columns({"id"}, Activity)
    [] table = "runtime_database_snapshots" ->
         Columns({"id", "runtime_snapshot_id"}, Database)
    [] table = "runtime_current" -> Columns({}, Activity)
    [] table = "runtime_database_current" -> Columns({"id"}, Database)

References(table) ==
  IF table = "runtime_database_snapshots" THEN {"runtime_snapshots"} ELSE {}

-----------------------------------------------------------------------------
(* The migrations.                                                         *)

Create(table, columns) == [op |-> "create", table |-> table, columns |-> columns]
Drop(table) == [op |-> "drop", table |-> table]
Alter(column, type) == [op |-> "alter", table |-> QueryTable, column |-> column, type |-> type]

(* 20260310_01.                                                            *)
CreateQueryTable == <<Create(QueryTable, Columns({"id"} \cup Oids \cup Range(QueryCounters), {}))>>
DropQueryTable == <<Drop(QueryTable)>>

(* 20260311_01.                                                            *)
CreateRuntimeTables ==
  <<Create("runtime_snapshots", Columns({"id"}, Activity)),
    Create("runtime_database_snapshots",
           Columns({"id", "runtime_snapshot_id"}, Database)),
    Create("runtime_current", Columns({}, Activity)),
    Create("runtime_database_current", Columns({"id"}, Database))>>

DropRuntimeTables ==
  <<Drop("runtime_database_current"), Drop("runtime_current"),
    Drop("runtime_database_snapshots"), Drop("runtime_snapshots")>>

(* Fault: the last counter is not widened.                                 *)
WidenButOne ==
  [i \in 1..Len(QueryCounters) - 1 |-> Alter(QueryCounters[i], "int8")]

(* 20260320_01.                                                            *)
WidenCounters == [i \in DOMAIN QueryCounters |-> Alter(QueryCounters[i], "int8")]
NarrowCounters == [i \in DOMAIN QueryCounters |-> Alter(Reverse(QueryCounters)[i], "int4")]

(* upgrade() and downgrade() of the revisions, in the order of their       *)
(* down_revision.                                                          *)
Upgrade == <<CreateQueryTable, CreateRuntimeTables, WidenCounters>>
Downgrade == <<DropQueryTable, DropRuntimeTables, NarrowCounters>>

Revisions == Len(Upgrade)  \* the last of them is `head`

(* The script of the step that leads from a revision towards another.      *)
Script(at, to) == IF at < to THEN Upgrade[at + 1] ELSE Downgrade[at]

(* The revision it leads to.                                               *)
NextRevision(at, to) == IF at < to THEN at + 1 ELSE at - 1

-----------------------------------------------------------------------------
(* What PostgreSQL does with an operation.                                 *)

Fits(value, type) == value = "int4" \/ type = "int8"

Possible(tables, op) ==
  CASE op.op = "create" ->
         op.table \notin DOMAIN tables /\ References(op.table) \subseteq DOMAIN tables
    [] op.op = "drop" ->
         /\ op.table \in DOMAIN tables
         /\ \A t \in DOMAIN tables : op.table \notin References(t)
    [] op.op = "alter" ->
         /\ op.table \in DOMAIN tables
         /\ \A row \in tables[op.table].rows : Fits(row[op.column], op.type)

(* Fault: an altered table is created anew.                                *)
ApplyAnew(tables, op) ==
  CASE op.op = "create" ->
         [t \in DOMAIN tables \cup {op.table} |->
            IF t = op.table THEN [types |-> op.columns, rows |-> {}, serial |-> 0]
            ELSE tables[t]]
    [] op.op = "drop" -> Restrict(tables, DOMAIN tables \ {op.table})
    [] op.op = "alter" -> [tables EXCEPT ![op.table].types[op.column] = op.type,
                                         ![op.table].rows = {}]

Apply(tables, op) ==
  CASE op.op = "create" ->
         [t \in DOMAIN tables \cup {op.table} |->
            IF t = op.table THEN [types |-> op.columns, rows |-> {}, serial |-> 0]
            ELSE tables[t]]
    [] op.op = "drop" -> Restrict(tables, DOMAIN tables \ {op.table})
    [] op.op = "alter" -> [tables EXCEPT ![op.table].types[op.column] = op.type]

(* The tables as the migration's transaction sees them: those it has       *)
(* touched as it has left them, the others as they are.                    *)
InMigration ==
  [t \in DOMAIN migration.tables \cup (DOMAIN db \ migration.touched) |->
     IF t \in migration.touched THEN migration.tables[t] ELSE db[t]]

(* Tables the migration has locked exclusively: writes to them wait.       *)
Locked == IF migration = None THEN {} ELSE migration.touched \cap DOMAIN db

-----------------------------------------------------------------------------
Init ==
  /\ revision = 0
  /\ db = <<>>
  /\ migration = None /\ failed = None /\ refused = None

(* alembic upgrade or downgrade: one transaction is begun for all of it.   *)
Migrate(to) ==
  /\ migration = None
  /\ to # revision
  /\ migration' = [to |-> to, at |-> revision, done |-> 0,
                   touched |-> {}, tables |-> <<>>]
  /\ UNCHANGED <<revision, db, failed, refused>>

(* The next operation of the script; after the last one the transaction's  *)
(* own alembic_version is moved on.                                        *)
Operate ==
  /\ migration # None
  /\ migration.at # migration.to
  /\ LET script == Script(migration.at, migration.to)
         operation == script[migration.done + 1]
         touched == migration.touched \cup {operation.table}
         after == Apply(InMigration, operation)
         ended == migration.done + 1 = Len(script)
     IN /\ Possible(InMigration, operation)
        /\ migration' =
             [to |-> migration.to,
              at |-> IF ended THEN NextRevision(migration.at, migration.to) ELSE migration.at,
              done |-> IF ended THEN 0 ELSE migration.done + 1,
              touched |-> touched,
              tables |-> Restrict(after, touched \cap DOMAIN after)]
  /\ UNCHANGED <<revision, db, failed, refused>>

(* It fails: the transaction is rolled back, the migrator exits.           *)
OperationFails ==
  /\ migration # None
  /\ migration.at # migration.to
  /\ LET operation == Script(migration.at, migration.to)[migration.done + 1]
     IN ~Possible(InMigration, operation) /\ failed' = operation
  /\ migration' = None
  /\ UNCHANGED <<revision, db, refused>>

(* Fault: alembic_version counts the migrations that were run.             *)
CommitNext ==
  /\ migration # None
  /\ migration.at = migration.to
  /\ db' = InMigration
  /\ revision' = revision + 1
  /\ migration' = None
  /\ UNCHANGED <<failed, refused>>

(* COMMIT, of the tables and of alembic_version.                           *)
CommitMigration ==
  /\ migration # None
  /\ migration.at = migration.to
  /\ db' = InMigration
  /\ revision' = migration.at
  /\ migration' = None
  /\ UNCHANGED <<failed, refused>>

(* Fault: each operation is committed as it is done.                       *)
CrashHalfway ==
  /\ migration # None
  /\ db' = InMigration
  /\ migration' = None
  /\ UNCHANGED <<revision, failed, refused>>

(* The migrator or its connection dies; it may be started again.           *)
Crash ==
  /\ migration # None
  /\ migration' = None
  /\ UNCHANGED <<revision, db, failed, refused>>

-----------------------------------------------------------------------------
(* A value of each column of a table, at most one of them needing 64 bits. *)
Row(table, wide) ==
  [c \in DOMAIN Declared(table) |-> IF c = wide THEN "int8" ELSE "int4"]

Accepts(table, row) ==
  /\ table \in DOMAIN db
  /\ \A c \in DOMAIN row : Fits(row[c], db[table].types[c])
  /\ db[table].serial < MaxId

(* The row is stored; an upsert, too, takes the next id of a table that    *)
(* has ids.                                                                *)
Insert(table, row) ==
  [db[table] EXCEPT !.serial = IF "id" \in DOMAIN row THEN @ + 1 ELSE @,
                    !.rows = IF table \in CurrentTables THEN {row} ELSE @ \cup {row}]

(***************************************************************************)
(* A job writes its snapshot, with a value of one column in one of its     *)
(* tables that may need 64 bits: all of it is stored, or refused as a      *)
(* whole (a StorageWriteError).                                            *)
(***************************************************************************)
Write(tables, wide) ==
  /\ tables \cap Locked = {}
  /\ IF \A t \in tables : Accepts(t, Row(t, wide))
       THEN /\ db' = [t \in DOMAIN db |-> IF t \in tables THEN Insert(t, Row(t, wide)) ELSE db[t]]
            /\ UNCHANGED refused
       ELSE /\ refused' = [revision |-> revision, tables |-> tables, wide |-> wide,
                           usedUp |-> \E t \in tables \cap DOMAIN db : db[t].serial = MaxId]
            /\ UNCHANGED db
  /\ UNCHANGED <<revision, migration, failed>>

WriteQuerySnapshot == \E wide \in WideColumns : Write({QueryTable}, wide)
WriteRuntimeSnapshot == \E wide \in WideColumns : Write(RuntimeTables, wide)

Next ==
  \/ \E to \in 0..Revisions : Migrate(to)
  \/ Operate \/ OperationFails \/ CommitMigration \/ Crash
  \/ WriteQuerySnapshot \/ WriteRuntimeSnapshot

Spec == Init /\ [][Next]_vars

-----------------------------------------------------------------------------
(***************************************************************************)
(* The tables have typed columns, rows that fit them and ids in range.     *)
(***************************************************************************)
TypeOK ==
  /\ revision \in 0..Revisions
  /\ \A t \in DOMAIN db :
       /\ db[t].serial \in 0..MaxId
       /\ \A row \in db[t].rows :
            /\ DOMAIN row = DOMAIN db[t].types
            /\ \A c \in DOMAIN row : Fits(row[c], db[t].types[c])
  /\ migration # None => migration.to \in 0..Revisions

(***************************************************************************)
(* Whatever was upgraded, downgraded, or left half way, the tables are     *)
(* those of the revision alembic_version names, with the columns and types *)
(* of a database that was brought there directly; at the head they are     *)
(* what storage/orm.py declares.                                           *)
(***************************************************************************)
SchemaOfRevision ==
  /\ DOMAIN db = (IF revision >= 1 THEN {QueryTable} ELSE {})
                   \cup (IF revision >= 2 THEN RuntimeTables ELSE {})
  /\ \A t \in DOMAIN db :
       db[t].types = IF t = QueryTable /\ revision < Revisions
                       THEN Columns(DOMAIN Declared(t), {}) ELSE Declared(t)

(***************************************************************************)
(* A stored snapshot goes only with its table, when a migration leaves the *)
(* revision that created it, and no migration changes a value of it.       *)
(***************************************************************************)
NothingLost ==
  [][\A t \in DOMAIN db \ CurrentTables :
       IF t \in DOMAIN db' THEN db[t].rows \subseteq db'[t].rows
       ELSE revision' < revision]_vars

(***************************************************************************)
(* What is too wide is all that fails: a migration only when it narrows a  *)
(* counter, and at the head a snapshot only for an oid beyond 2^31 - 1 in  *)
(* a query snapshot (the columns are signed) or for ids that are used up.  *)
(***************************************************************************)
OnlyWidthsRefuse ==
  /\ failed # None => failed.op = "alter" /\ failed.type = "int4"
  /\ (refused # None /\ refused.revision = Revisions) =>
       (QueryTable \in refused.tables /\ refused.wide \in Oids) \/ refused.usedUp

=============================================================================
