------------------------- MODULE StorageSchemaProofs -------------------------
(***************************************************************************)
(* Proofs about StorageSchema for values of any columns and any last id:   *)
(* the schema follows the revision, nothing stored is lost, and only       *)
(* widths refuse.                                                          *)
(***************************************************************************)
EXTENDS StorageSchema, TLAPS

-----------------------------------------------------------------------------
(* The tables and columns by their number.                                 *)

RuntimeNames ==
  <<"runtime_snapshots", "runtime_database_snapshots",
    "runtime_current", "runtime_database_current">>

(* How many of the counters are wide, how many of the runtime tables there *)
(* are, and whether the query table is, `done` operations after a revision *)
(* on the way to another.                                                  *)
Wide(at, to, done) ==
  IF at = 3 THEN 6 - done ELSE IF at = 2 /\ at < to THEN done ELSE 0

Created(at, to, done) ==
  IF at = 3 THEN 4
  ELSE IF at = 2 THEN (IF to < at THEN 4 - done ELSE 4)
  ELSE IF at = 1 /\ at < to THEN done ELSE 0

Counters(n) == {QueryCounters[i] : i \in 1..n}
QueryColumns == {"id"} \cup Oids \cup Counters(6)

Tables(at, to, done) ==
  (IF at >= 1 THEN {QueryTable} ELSE {})
    \cup {RuntimeNames[i] : i \in 1..Created(at, to, done)}

Types(t, at, to, done) ==
  IF t = QueryTable
    THEN [c \in QueryColumns |-> IF c \in Counters(Wide(at, to, done)) THEN "int8" ELSE "int4"]
    ELSE Declared(t)

LEMMA NamesOfTables ==
  /\ \A i \in 1..4 : RuntimeNames[i] \in RuntimeTables /\ RuntimeNames[i] # QueryTable
  /\ \A i, j \in 1..4 : RuntimeNames[i] = RuntimeNames[j] => i = j
  /\ RuntimeTables = {RuntimeNames[i] : i \in 1..4}
  /\ \A i \in 1..4 : References(RuntimeNames[i]) \subseteq {RuntimeNames[j] : j \in 1..i - 1}
  /\ References(QueryTable) = {}
<1>1. /\ RuntimeNames[1] = "runtime_snapshots"
      /\ RuntimeNames[2] = "runtime_database_snapshots"
      /\ RuntimeNames[3] = "runtime_current"
      /\ RuntimeNames[4] = "runtime_database_current"
  BY DEF RuntimeNames
<1>2. \A i \in 1..4 : i = 1 \/ i = 2 \/ i = 3 \/ i = 4
  OBVIOUS
<1> QED BY <1>1, <1>2 DEF RuntimeTables, QueryTable, References

LEMMA NamesOfCounters ==
  /\ Len(QueryCounters) = 6 /\ DOMAIN QueryCounters = 1..6
  /\ \A i \in 1..6 : QueryCounters[i] \notin {"id"} \cup Oids
  /\ \A i, j \in 1..6 : QueryCounters[i] = QueryCounters[j] => i = j
  /\ Range(QueryCounters) = Counters(6)
<1>1. /\ QueryCounters[1] = "calls" /\ QueryCounters[2] = "rows"
      /\ QueryCounters[3] = "shared_blks_hit" /\ QueryCounters[4] = "shared_blks_read"
      /\ QueryCounters[5] = "shared_blks_dirtied"
      /\ QueryCounters[6] = "shared_blks_written"
      /\ Len(QueryCounters) = 6 /\ DOMAIN QueryCounters = 1..6
  BY DEF QueryCounters
<1>2. \A i \in 1..6 : i = 1 \/ i = 2 \/ i = 3 \/ i = 4 \/ i = 5 \/ i = 6
  OBVIOUS
<1>3. \A i \in 1..6 : QueryCounters[i] \notin {"id"} \cup Oids
  BY <1>1, <1>2 DEF Oids
<1>4. \A i, j \in 1..6 : QueryCounters[i] = QueryCounters[j] => i = j
  BY <1>1, <1>2
<1>5. Range(QueryCounters) = Counters(6)
  BY <1>1 DEF Range, Counters
<1> QED BY <1>1, <1>3, <1>4, <1>5

(* What the ORM declares, and what a revision has, is what the numbers     *)
(* say.                                                                    *)
LEMMA DeclaredQueryTable ==
  Declared(QueryTable) =
    [c \in QueryColumns |-> IF c \in Counters(6) THEN "int8" ELSE "int4"]
<1>1. Declared(QueryTable) = Columns({"id"} \cup Oids, Range(QueryCounters))
  BY DEF Declared, QueryTable
<1> QED BY <1>1, NamesOfCounters DEF QueryColumns, Columns

LEMMA DeclaredRuntimeTables ==
  /\ Declared("runtime_snapshots") = Columns({"id"}, Activity)
  /\ Declared("runtime_database_snapshots") = Columns({"id", "runtime_snapshot_id"}, Database)
  /\ Declared("runtime_current") = Columns({}, Activity)
  /\ Declared("runtime_database_current") = Columns({"id"}, Database)
BY DEF Declared, QueryTable

-----------------------------------------------------------------------------
(* The operations of the scripts.                                          *)

(* The n-th operation of a script does one thing, and does it to what the  *)
(* numbers say comes next.                                                 *)
LEMMA Creations ==
  /\ Len(CreateRuntimeTables) = 4
  /\ \A i \in 1..4 :
       CreateRuntimeTables[i] = Create(RuntimeNames[i], Declared(RuntimeNames[i]))
<1>1. /\ Len(CreateRuntimeTables) = 4
      /\ CreateRuntimeTables[1] = Create("runtime_snapshots", Columns({"id"}, Activity))
      /\ CreateRuntimeTables[2] = Create("runtime_database_snapshots",
                                         Columns({"id", "runtime_snapshot_id"}, Database))
      /\ CreateRuntimeTables[3] = Create("runtime_current", Columns({}, Activity))
      /\ CreateRuntimeTables[4] =
           Create("runtime_database_current", Columns({"id"}, Database))
  BY DEF CreateRuntimeTables
<1>2. /\ RuntimeNames[1] = "runtime_snapshots"
      /\ RuntimeNames[2] = "runtime_database_snapshots"
      /\ RuntimeNames[3] = "runtime_current"
      /\ RuntimeNames[4] = "runtime_database_current"
  BY DEF RuntimeNames
<1>3. \A i \in 1..4 : i = 1 \/ i = 2 \/ i = 3 \/ i = 4
  OBVIOUS
<1> QED BY <1>1, <1>2, <1>3, DeclaredRuntimeTables

LEMMA Drops ==
  Len(DropRuntimeTables) = 4 /\ \A i \in 1..4 : DropRuntimeTables[i] = Drop(RuntimeNames[5 - i])
<1>1. /\ Len(DropRuntimeTables) = 4
      /\ DropRuntimeTables[1] = Drop("runtime_database_current")
      /\ DropRuntimeTables[2] = Drop("runtime_current")
      /\ DropRuntimeTables[3] = Drop("runtime_database_snapshots")
      /\ DropRuntimeTables[4] = Drop("runtime_snapshots")
  BY DEF DropRuntimeTables
<1>2. /\ RuntimeNames[1] = "runtime_snapshots"
      /\ RuntimeNames[2] = "runtime_database_snapshots"
      /\ RuntimeNames[3] = "runtime_current"
      /\ RuntimeNames[4] = "runtime_database_current"
  BY DEF RuntimeNames
<1>3. \A i \in 1..4 : i = 1 \/ i = 2 \/ i = 3 \/ i = 4
  OBVIOUS
<1> QED BY <1>1, <1>2, <1>3

LEMMA Widenings ==
  /\ Len(WidenCounters) = 6
  /\ \A i \in 1..6 : WidenCounters[i] = Alter(QueryCounters[i], "int8")
BY NamesOfCounters DEF WidenCounters

LEMMA Narrowings ==
  /\ Len(NarrowCounters) = 6
  /\ \A i \in 1..6 : NarrowCounters[i] = Alter(QueryCounters[7 - i], "int4")
BY NamesOfCounters DEF NarrowCounters, Reverse

LEMMA Scripts ==
  /\ Upgrade[1] = CreateQueryTable /\ Upgrade[2] = CreateRuntimeTables
  /\ Upgrade[3] = WidenCounters
  /\ Downgrade[1] = DropQueryTable /\ Downgrade[2] = DropRuntimeTables
  /\ Downgrade[3] = NarrowCounters
  /\ Revisions = 3
BY DEF Upgrade, Downgrade, Revisions

ScriptAt(at, to) ==
  IF at < to
    THEN IF at = 0 THEN CreateQueryTable
         ELSE IF at = 1 THEN CreateRuntimeTables ELSE WidenCounters
    ELSE IF at = 3 THEN NarrowCounters
         ELSE IF at = 2 THEN DropRuntimeTables ELSE DropQueryTable

Length(at, to) ==
  IF at < to THEN IF at = 0 THEN 1 ELSE IF at = 1 THEN 4 ELSE 6
  ELSE IF at = 3 THEN 6 ELSE IF at = 2 THEN 4 ELSE 1

LEMMA ScriptOf ==
  \A at, to \in 0..3 :
    at # to => Script(at, to) = ScriptAt(at, to) /\ Len(Script(at, to)) = Length(at, to)
<1> SUFFICES ASSUME NEW at \in 0..3, NEW to \in 0..3, at # to
             PROVE  Script(at, to) = ScriptAt(at, to) /\ Len(Script(at, to)) = Length(at, to)
  OBVIOUS
<1> USE DEF ScriptAt, Length
<1>1. CASE at < to
  <2>1. (at = 0 \/ at = 1 \/ at = 2) /\ Script(at, to) = Upgrade[at + 1]
    BY <1>1 DEF Script
  <2>2. 0 + 1 = 1 /\ 1 + 1 = 2 /\ 2 + 1 = 3
    OBVIOUS
  <2>3. Script(at, to) = IF at = 0 THEN CreateQueryTable
                         ELSE IF at = 1 THEN CreateRuntimeTables ELSE WidenCounters
    BY <2>1, <2>2, Scripts
  <2>4. Len(CreateQueryTable) = 1
    BY DEF CreateQueryTable
  <2> QED BY <1>1, <2>1, <2>3, <2>4, Creations, Widenings
<1>2. CASE ~(at < to)
  <2>1. (at = 1 \/ at = 2 \/ at = 3) /\ Script(at, to) = Downgrade[at]
    BY <1>2 DEF Script
  <2>2. Script(at, to) = IF at = 3 THEN NarrowCounters
                         ELSE IF at = 2 THEN DropRuntimeTables ELSE DropQueryTable
    BY <2>1, Scripts
  <2>3. Len(DropQueryTable) = 1
    BY DEF DropQueryTable
  <2> QED BY <1>2, <2>1, <2>2, <2>3, Drops, Narrowings
<1> QED BY <1>1, <1>2

(* Where a migration can be between two operations.                        *)
Position(at, to, done) ==
  /\ at \in 0..3 /\ to \in 0..3
  /\ done \in Nat /\ (at = to => done = 0) /\ (at # to => done < Len(Script(at, to)))

After(at, to, done) ==
  IF done + 1 = Len(Script(at, to)) THEN <<NextRevision(at, to), 0>> ELSE <<at, done + 1>>

(* The three kinds of operations, between a position and the next.         *)
Creates(op, at, to, done, at2, done2) ==
  /\ op.op = "create" /\ at < to
  /\ op.table \notin Tables(at, to, done)
  /\ References(op.table) \subseteq Tables(at, to, done)
  /\ op.columns = Types(op.table, at2, to, done2)
  /\ Tables(at2, to, done2) = Tables(at, to, done) \cup {op.table}
  /\ Wide(at2, to, done2) = Wide(at, to, done)

Removes(op, at, to, done, at2, done2) ==
  /\ op.op = "drop" /\ to < at
  /\ op.table \in Tables(at, to, done)
  /\ \A t \in Tables(at, to, done) : op.table \notin References(t)
  /\ Tables(at2, to, done2) = Tables(at, to, done) \ {op.table}
  /\ Wide(at2, to, done2) = Wide(at, to, done)

Alters(op, at, to, done, at2, done2) ==
  /\ op.op = "alter" /\ op.table = QueryTable /\ QueryTable \in Tables(at, to, done)
  /\ op.column \in QueryColumns
  /\ op.type = IF at < to THEN "int8" ELSE "int4"
  /\ Tables(at2, to, done2) = Tables(at, to, done)
  /\ Types(QueryTable, at2, to, done2) =
       [c \in QueryColumns |->
          IF c = op.column THEN op.type ELSE Types(QueryTable, at, to, done)[c]]

LEMMA Steps ==
  ASSUME NEW at, NEW to, NEW done, Position(at, to, done), at # to,
         NEW op, op = Script(at, to)[done + 1],
         NEW at2, NEW done2, <<at2, done2>> = After(at, to, done)
  PROVE  /\ \/ Creates(op, at, to, done, at2, done2)
            \/ Removes(op, at, to, done, at2, done2)
            \/ Alters(op, at, to, done, at2, done2)
         /\ Position(at2, to, done2)
         /\ at < to => at <= at2 /\ at2 <= to
         /\ to < at => at2 <= at /\ to <= at2
<1>1. at \in 0..3 /\ to \in 0..3 /\ done \in Nat /\ done < Len(Script(at, to))
  BY DEF Position
<1>script. Script(at, to) = ScriptAt(at, to) /\ Len(Script(at, to)) = Length(at, to)
  BY <1>1, ScriptOf
<1>there. ASSUME NEW k \in Nat, at2 \in 0..3, done2 = k, at2 = to => k = 0,
              k < Length(at2, to) \/ at2 = to
       PROVE  Position(at2, to, done2)
  BY <1>1, <1>there, ScriptOf DEF Position
<1>2. /\ at2 = IF done + 1 = Len(Script(at, to)) THEN NextRevision(at, to) ELSE at
      /\ done2 = IF done + 1 = Len(Script(at, to)) THEN 0 ELSE done + 1
  BY DEF After
<1>3. Counters(0) = {} /\ Len(CreateQueryTable) = 1 /\ Len(DropQueryTable) = 1
  BY DEF Counters, CreateQueryTable, DropQueryTable
<1>4. CASE at = 0
  <2>1. /\ at < to /\ Script(at, to) = CreateQueryTable /\ done = 0
        /\ at2 = 1 /\ done2 = 0
    BY <1>1, <1>2, <1>4, <1>script DEF NextRevision, ScriptAt, Length
  <2>2. op = Create(QueryTable, Columns({"id"} \cup Oids \cup Counters(6), {}))
    BY <2>1, NamesOfCounters DEF CreateQueryTable
  <2>3. Position(at2, to, done2)
    BY <1>1, <1>4, <1>there, <2>1 DEF Length
  <2>4. Created(0, to, 0) = 0 /\ Created(1, to, 0) = 0 /\ Wide(0, to, 0) = 0 /\ Wide(1, to, 0) = 0
    BY <1>1 DEF Created, Wide
  <2>5. Tables(0, to, 0) = {} /\ Tables(1, to, 0) = {QueryTable}
    BY <2>4 DEF Tables
  <2>6. op.columns = Types(QueryTable, 1, to, 0)
    BY <1>3, <2>2, <2>4 DEF Create, Columns, Types, QueryColumns
  <2>7. Creates(op, at, to, done, at2, done2)
    BY <1>4, <2>1, <2>2, <2>4, <2>5, <2>6, NamesOfTables DEF Creates, Create
  <2> QED BY <1>1, <1>4, <2>1, <2>3, <2>7
<1>5. CASE at = 1 /\ at < to
  <2>1. /\ Script(at, to) = CreateRuntimeTables /\ Len(Script(at, to)) = 4
        /\ done \in 0..3
        /\ IF done = 3 THEN at2 = 2 /\ done2 = 0 ELSE at2 = 1 /\ done2 = done + 1
    <3>1. Script(at, to) = CreateRuntimeTables /\ Len(Script(at, to)) = 4
      BY <1>1, <1>5, <1>script DEF ScriptAt, Length
    <3>2. /\ at2 = IF done + 1 = 4 THEN at + 1 ELSE at
          /\ done2 = IF done + 1 = 4 THEN 0 ELSE done + 1
      BY <1>2, <1>5, <3>1 DEF NextRevision
    <3>3. done < 4
      BY <1>1, <3>1
    <3> QED BY <1>1, <1>5, <3>1, <3>2, <3>3
  <2>2. op = Create(RuntimeNames[done + 1], Declared(RuntimeNames[done + 1]))
    BY <2>1, Creations
  <2>3. Position(at2, to, done2)
    BY <1>1, <1>5, <1>there, <2>1 DEF Length
  <2>4. /\ Created(at, to, done) = done /\ Created(at2, to, done2) = done + 1
        /\ Wide(at, to, done) = 0 /\ Wide(at2, to, done2) = 0
    BY <1>1, <1>5, <2>1 DEF Created, Wide
  <2>5. /\ Tables(at, to, done) = {QueryTable} \cup {RuntimeNames[i] : i \in 1..done}
        /\ Tables(at2, to, done2) = {QueryTable} \cup {RuntimeNames[i] : i \in 1..done + 1}
    BY <1>5, <2>1, <2>4 DEF Tables
  <2>6. /\ RuntimeNames[done + 1] \notin Tables(at, to, done)
        /\ References(RuntimeNames[done + 1]) \subseteq Tables(at, to, done)
    BY <2>1, <2>5, NamesOfTables
  <2>7. Tables(at2, to, done2) = Tables(at, to, done) \cup {RuntimeNames[done + 1]}
    BY <2>1, <2>5
  <2>8. Declared(RuntimeNames[done + 1]) = Types(RuntimeNames[done + 1], at2, to, done2)
    BY <2>1, NamesOfTables DEF Types
  <2>9. Creates(op, at, to, done, at2, done2)
    BY <1>5, <2>2, <2>4, <2>6, <2>7, <2>8 DEF Creates, Create
  <2> QED BY <1>1, <1>5, <2>1, <2>3, <2>9
<1>6. CASE at = 2 /\ at < to
  <2>1. /\ Script(at, to) = WidenCounters /\ Len(Script(at, to)) = 6
        /\ done \in 0..5 /\ to = 3
        /\ IF done = 5 THEN at2 = 3 /\ done2 = 0 ELSE at2 = 2 /\ done2 = done + 1
    <3>1. Script(at, to) = WidenCounters /\ Len(Script(at, to)) = 6
      BY <1>1, <1>6, <1>script DEF ScriptAt, Length
    <3>2. /\ at2 = IF done + 1 = 6 THEN at + 1 ELSE at
          /\ done2 = IF done + 1 = 6 THEN 0 ELSE done + 1
      BY <1>2, <1>6, <3>1 DEF NextRevision
    <3>3. done < 6
      BY <1>1, <3>1
    <3> QED BY <1>1, <1>6, <3>1, <3>2, <3>3
  <2>2. op = Alter(QueryCounters[done + 1], "int8")
    BY <2>1, Widenings
  <2>3. Position(at2, to, done2)
    BY <1>1, <1>6, <1>there, <2>1 DEF Length
  <2>4. /\ Created(at, to, done) = 4 /\ Created(at2, to, done2) = 4
        /\ Wide(at, to, done) = done /\ Wide(at2, to, done2) = done + 1
    BY <1>1, <1>6, <2>1 DEF Created, Wide
  <2>5. Tables(at2, to, done2) = Tables(at, to, done) /\ QueryTable \in Tables(at, to, done)
    BY <1>6, <2>1, <2>4 DEF Tables
  <2>6. QueryCounters[done + 1] \in QueryColumns
    BY <2>1 DEF QueryColumns, Counters
  <2>7. Counters(done + 1) = Counters(done) \cup {QueryCounters[done + 1]}
    BY <2>1 DEF Counters
  <2>8. Types(QueryTable, at2, to, done2) =
          [c \in QueryColumns |-> IF c = QueryCounters[done + 1] THEN "int8"
                                  ELSE Types(QueryTable, at, to, done)[c]]
    BY <2>4, <2>7 DEF Types
  <2>9. Alters(op, at, to, done, at2, done2)
    BY <1>6, <2>2, <2>5, <2>6, <2>8 DEF Alters, Alter
  <2> QED BY <1>1, <1>6, <2>1, <2>3, <2>9
<1>7. CASE at = 3
  <2>1. /\ Script(at, to) = NarrowCounters /\ Len(Script(at, to)) = 6
        /\ done \in 0..5 /\ to < 3
        /\ IF done = 5 THEN at2 = 2 /\ done2 = 0 ELSE at2 = 3 /\ done2 = done + 1
    <3>1. Script(at, to) = NarrowCounters /\ Len(Script(at, to)) = 6
      BY <1>1, <1>7, <1>script DEF ScriptAt, Length
    <3>2. /\ at2 = IF done + 1 = 6 THEN at - 1 ELSE at
          /\ done2 = IF done + 1 = 6 THEN 0 ELSE done + 1
      <4>1. ~(at < to)
        BY <1>1, <1>7
      <4>2. NextRevision(at, to) = at - 1
        BY <4>1 DEF NextRevision
      <4> QED BY <1>2, <3>1, <4>2
    <3>3. done < 6
      BY <1>1, <3>1
    <3> QED BY <1>1, <1>7, <3>1, <3>2, <3>3
  <2>2. op = Alter(QueryCounters[6 - done], "int4")
    <3>1. done + 1 \in 1..6 /\ 7 - (done + 1) = 6 - done
      BY <2>1
    <3> QED BY <2>1, <3>1, Narrowings
  <2>3. Position(at2, to, done2)
    BY <1>1, <1>7, <1>there, <2>1 DEF Length
  <2>4. /\ Created(at, to, done) = 4 /\ Created(at2, to, done2) = 4
        /\ Wide(at, to, done) = 6 - done /\ Wide(at2, to, done2) = 5 - done
    BY <1>1, <1>7, <2>1 DEF Created, Wide
  <2>5. Tables(at2, to, done2) = Tables(at, to, done) /\ QueryTable \in Tables(at, to, done)
    BY <1>7, <2>1, <2>4 DEF Tables
  <2>6. QueryCounters[6 - done] \in QueryColumns
    BY <2>1 DEF QueryColumns, Counters
  <2>7. Counters(5 - done) = Counters(6 - done) \ {QueryCounters[6 - done]}
    BY <2>1, NamesOfCounters DEF Counters
  <2>8. Types(QueryTable, at2, to, done2) =
          [c \in QueryColumns |-> IF c = QueryCounters[6 - done] THEN "int4"
                                  ELSE Types(QueryTable, at, to, done)[c]]
    BY <2>4, <2>7 DEF Types
  <2>9. Alters(op, at, to, done, at2, done2)
    BY <1>1, <1>7, <2>1, <2>2, <2>5, <2>6, <2>8 DEF Alters, Alter
  <2> QED BY <1>1, <1>7, <2>1, <2>3, <2>9
<1>8. CASE at = 2 /\ to < at
  <2>1. /\ Script(at, to) = DropRuntimeTables /\ Len(Script(at, to)) = 4
        /\ done \in 0..3
        /\ IF done = 3 THEN at2 = 1 /\ done2 = 0 ELSE at2 = 2 /\ done2 = done + 1
    <3>1. Script(at, to) = DropRuntimeTables /\ Len(Script(at, to)) = 4
      BY <1>1, <1>8, <1>script DEF ScriptAt, Length
    <3>2. /\ at2 = IF done + 1 = 4 THEN at - 1 ELSE at
          /\ done2 = IF done + 1 = 4 THEN 0 ELSE done + 1
      <4>1. ~(at < to)
        BY <1>1, <1>8
      <4>2. NextRevision(at, to) = at - 1
        BY <4>1 DEF NextRevision
      <4> QED BY <1>2, <3>1, <4>2
    <3>3. done < 4
      BY <1>1, <3>1
    <3> QED BY <1>1, <1>8, <3>1, <3>2, <3>3
  <2>2. op = Drop(RuntimeNames[4 - done])
    <3>1. done + 1 \in 1..4 /\ 5 - (done + 1) = 4 - done
      BY <2>1
    <3> QED BY <2>1, <3>1, Drops
  <2>3. Position(at2, to, done2)
    BY <1>1, <1>8, <1>there, <2>1 DEF Length
  <2>4. /\ Created(at, to, done) = 4 - done /\ Created(at2, to, done2) = 3 - done
        /\ Wide(at, to, done) = 0 /\ Wide(at2, to, done2) = 0
    BY <1>1, <1>8, <2>1 DEF Created, Wide
  <2>5. /\ Tables(at, to, done) = {QueryTable} \cup {RuntimeNames[i] : i \in 1..4 - done}
        /\ Tables(at2, to, done2) = {QueryTable} \cup {RuntimeNames[i] : i \in 1..3 - done}
    BY <1>8, <2>1, <2>4 DEF Tables
  <2>6. RuntimeNames[4 - done] \in Tables(at, to, done)
    BY <2>1, <2>5
  <2>7. \A t \in Tables(at, to, done) : RuntimeNames[4 - done] \notin References(t)
    BY <2>1, <2>5, NamesOfTables
  <2>8. Tables(at2, to, done2) = Tables(at, to, done) \ {RuntimeNames[4 - done]}
    BY <2>1, <2>5, NamesOfTables
  <2>9. Removes(op, at, to, done, at2, done2)
    BY <1>8, <2>2, <2>4, <2>6, <2>7, <2>8 DEF Removes, Drop
  <2> QED BY <1>1, <1>8, <2>1, <2>3, <2>9
<1>9. CASE at = 1 /\ to < at
  <2>1. /\ Script(at, to) = DropQueryTable /\ done = 0 /\ to = 0
        /\ at2 = 0 /\ done2 = 0
    <3>1. Script(at, to) = DropQueryTable /\ Len(Script(at, to)) = 1
      BY <1>1, <1>9, <1>script DEF ScriptAt, Length
    <3>2. /\ at2 = IF done + 1 = 1 THEN at - 1 ELSE at
          /\ done2 = IF done + 1 = 1 THEN 0 ELSE done + 1
      <4>1. ~(at < to)
        BY <1>1, <1>9
      <4>2. NextRevision(at, to) = at - 1
        BY <4>1 DEF NextRevision
      <4> QED BY <1>2, <3>1, <4>2
    <3>3. done < 1
      BY <1>1, <3>1
    <3> QED BY <1>1, <1>9, <3>1, <3>2, <3>3
  <2>2. op = Drop(QueryTable)
    BY <2>1 DEF DropQueryTable
  <2>3. Created(0, 0, 0) = 0 /\ Created(1, 0, 0) = 0 /\ Wide(0, 0, 0) = 0 /\ Wide(1, 0, 0) = 0
    BY DEF Created, Wide
  <2>4. Tables(0, 0, 0) = {} /\ Tables(1, 0, 0) = {QueryTable}
    BY <2>3 DEF Tables
  <2>5. Removes(op, at, to, done, at2, done2)
    BY <1>9, <2>1, <2>2, <2>3, <2>4, NamesOfTables DEF Removes, Drop
  <2> QED BY <1>1, <1>9, <2>1, <2>5 DEF Position
<1> QED BY <1>1, <1>4, <1>5, <1>6, <1>7, <1>8, <1>9

-----------------------------------------------------------------------------
(* The inductive invariant.                                                *)

(* A table with typed columns, rows that fit them and ids in range.        *)
TableTyped(table) ==
  /\ table = [types |-> table.types, rows |-> table.rows, serial |-> table.serial]
  /\ table.serial \in 0..MaxId
  /\ \A row \in table.rows :
       /\ DOMAIN row = DOMAIN table.types
       /\ \A c \in DOMAIN row : Fits(row[c], table.types[c])

TablesTyped(tables) ==
  /\ tables = [t \in DOMAIN tables |-> tables[t]]
  /\ \A t \in DOMAIN tables : TableTyped(tables[t])

HasSchema(tables, at, to, done) ==
  /\ DOMAIN tables = Tables(at, to, done)
  /\ \A t \in DOMAIN tables : tables[t].types = Types(t, at, to, done)

Towards(from, at, to) == (from <= at /\ at <= to) \/ (to <= at /\ at <= from)

(* A migration sees the schema of where it is, on the way from the stored  *)
(* revision, with all rows that are stored in tables it has not dropped.   *)
MigrationInStep ==
  /\ Position(migration.at, migration.to, migration.done)
  /\ Towards(revision, migration.at, migration.to)
  /\ DOMAIN migration.tables \subseteq migration.touched
  /\ TablesTyped(InMigration)
  /\ HasSchema(InMigration, migration.at, migration.to, migration.done)
  /\ \A t \in DOMAIN db \cap DOMAIN InMigration : InMigration[t].rows = db[t].rows

Inv ==
  /\ revision \in 0..3
  /\ TablesTyped(db)
  /\ HasSchema(db, revision, revision, 0)
  /\ migration # None => MigrationInStep
  /\ OnlyWidthsRefuse

-----------------------------------------------------------------------------
(* An operation takes the tables from one position to the next.            *)

(* At a revision it does not matter which way a migration goes on.         *)
LEMMA AtRest ==
  \A at, to \in 0..3 :
    /\ Created(at, to, 0) = Created(at, at, 0)
    /\ Wide(at, to, 0) = Wide(at, at, 0)
    /\ Tables(at, to, 0) = Tables(at, at, 0)
    /\ \A t : Types(t, at, to, 0) = Types(t, at, at, 0)
<1> SUFFICES ASSUME NEW at \in 0..3, NEW to \in 0..3
             PROVE  /\ Created(at, to, 0) = Created(at, at, 0)
                    /\ Wide(at, to, 0) = Wide(at, at, 0)
                    /\ Tables(at, to, 0) = Tables(at, at, 0)
                    /\ \A t : Types(t, at, to, 0) = Types(t, at, at, 0)
  OBVIOUS
<1>1. Created(at, to, 0) = Created(at, at, 0)
  BY DEF Created
<1>2. Wide(at, to, 0) = Wide(at, at, 0)
  BY DEF Wide
<1> QED BY <1>1, <1>2 DEF Tables, Types

LEMMA CreatedIs == ASSUME NEW at, NEW to, NEW done, Position(at, to, done)
                   PROVE  Created(at, to, done) \in 0..4
<1>1. at \in 0..3 /\ to \in 0..3 /\ done \in Nat
  BY DEF Position
<1>2. at # to => done < Length(at, to)
  <2>1. at # to => done < Len(Script(at, to))
    BY DEF Position
  <2> QED BY <1>1, <2>1, ScriptOf
<1>3. (at = 1 /\ at < to) \/ (at = 2 /\ to < at) => Length(at, to) = 4
  BY <1>1 DEF Length
<1> QED BY <1>1, <1>2, <1>3 DEF Created

(* On the way up, no table is missed that a revision passed by has.        *)
LEMMA TablesGrow ==
  ASSUME NEW from \in 0..3, NEW at, NEW to, NEW done, Position(at, to, done),
         from <= at, at <= to
  PROVE  Tables(from, from, 0) \subseteq Tables(at, to, done)
<1>1. at \in 0..3 /\ to \in 0..3 /\ done \in Nat
  BY DEF Position
<1>2. Created(from, from, 0) <= Created(at, to, done) /\ Created(from, from, 0) \in 0..4
  BY <1>1 DEF Created
<1>3. Created(at, to, done) \in 0..4
  BY CreatedIs
<1>4. 1..Created(from, from, 0) \subseteq 1..Created(at, to, done)
  BY <1>2, <1>3
<1> QED BY <1>1, <1>4 DEF Tables

(* What an operation does to the table it names and to the others.         *)
LEMMA CreateApplies ==
  ASSUME NEW tables, NEW op, TablesTyped(tables), op.op = "create"
  PROVE  /\ DOMAIN Apply(tables, op) = DOMAIN tables \cup {op.table}
         /\ Apply(tables, op) = [t \in DOMAIN Apply(tables, op) |-> Apply(tables, op)[t]]
         /\ \A t \in DOMAIN tables \ {op.table} : Apply(tables, op)[t] = tables[t]
         /\ Apply(tables, op)[op.table] = [types |-> op.columns, rows |-> {}, serial |-> 0]
BY DEF Apply

LEMMA DropApplies ==
  ASSUME NEW tables, NEW op, TablesTyped(tables), op.op = "drop"
  PROVE  /\ DOMAIN Apply(tables, op) = DOMAIN tables \ {op.table}
         /\ Apply(tables, op) = [t \in DOMAIN Apply(tables, op) |-> Apply(tables, op)[t]]
         /\ \A t \in DOMAIN tables \ {op.table} : Apply(tables, op)[t] = tables[t]
BY DEF Apply, Restrict

LEMMA AlterApplies ==
  ASSUME NEW tables, NEW op, TablesTyped(tables), op.op = "alter", op.table \in DOMAIN tables,
         op.column \in DOMAIN tables[op.table].types
  PROVE  /\ DOMAIN Apply(tables, op) = DOMAIN tables
         /\ Apply(tables, op) = [t \in DOMAIN Apply(tables, op) |-> Apply(tables, op)[t]]
         /\ \A t \in DOMAIN tables \ {op.table} : Apply(tables, op)[t] = tables[t]
         /\ Apply(tables, op)[op.table] =
              [types |-> [tables[op.table].types EXCEPT ![op.column] = op.type],
               rows |-> tables[op.table].rows, serial |-> tables[op.table].serial]
<1>1. Apply(tables, op) = [tables EXCEPT ![op.table].types[op.column] = op.type]
  BY DEF Apply
<1>2. tables = [t \in DOMAIN tables |-> tables[t]]
  BY DEF TablesTyped
<1>3. tables[op.table] =
        [types |-> tables[op.table].types, rows |-> tables[op.table].rows,
         serial |-> tables[op.table].serial]
  BY DEF TablesTyped, TableTyped
<1>4. DOMAIN Apply(tables, op) = DOMAIN tables
  BY <1>1, <1>2
<1>5. Apply(tables, op)[op.table] = [tables[op.table] EXCEPT !.types[op.column] = op.type]
  BY <1>1, <1>2
<1>6. \A t \in DOMAIN tables \ {op.table} : Apply(tables, op)[t] = tables[t]
  BY <1>1, <1>2
<1> QED BY <1>1, <1>3, <1>4, <1>5, <1>6

LEMMA Applying ==
  ASSUME NEW at, NEW to, NEW done, Position(at, to, done), at # to,
         NEW tables, TablesTyped(tables), HasSchema(tables, at, to, done),
         NEW op, op = Script(at, to)[done + 1], Possible(tables, op),
         NEW at2, NEW done2, <<at2, done2>> = After(at, to, done)
  PROVE  /\ TablesTyped(Apply(tables, op))
         /\ HasSchema(Apply(tables, op), at2, to, done2)
         /\ DOMAIN Apply(tables, op) \ {op.table} = DOMAIN tables \ {op.table}
         /\ \A t \in DOMAIN tables \ {op.table} : Apply(tables, op)[t] = tables[t]
         /\ op.table \in DOMAIN tables \cap DOMAIN Apply(tables, op) =>
              Apply(tables, op)[op.table].rows = tables[op.table].rows
         /\ (op.table \notin DOMAIN tables /\ op.table \in DOMAIN Apply(tables, op)) => at < to
<1>1. PICK after : after = Apply(tables, op)
  OBVIOUS
<1>2. \/ Creates(op, at, to, done, at2, done2)
      \/ Removes(op, at, to, done, at2, done2)
      \/ Alters(op, at, to, done, at2, done2)
  BY Steps
<1>3. MaxId \in Nat
  BY IdAssumption
<1>4. CASE Creates(op, at, to, done, at2, done2)
  <2>1. /\ op.op = "create" /\ op.table \notin DOMAIN tables /\ at < to
        /\ op.columns = Types(op.table, at2, to, done2)
        /\ Tables(at2, to, done2) = DOMAIN tables \cup {op.table}
        /\ \A t : Types(t, at2, to, done2) =
             IF t = op.table THEN op.columns ELSE Types(t, at, to, done)
    <3>1. op.op = "create" /\ at < to /\ op.columns = Types(op.table, at2, to, done2)
      BY <1>4 DEF Creates
    <3>2. op.table \notin DOMAIN tables /\ Tables(at2, to, done2) = DOMAIN tables \cup {op.table}
      BY <1>4 DEF Creates, HasSchema
    <3>3. Wide(at2, to, done2) = Wide(at, to, done)
      BY <1>4 DEF Creates
    <3>4. \A t : Types(t, at2, to, done2) = Types(t, at, to, done)
      BY <3>3 DEF Types
    <3> QED BY <3>1, <3>2, <3>4
  <2>2. /\ DOMAIN after = DOMAIN tables \cup {op.table}
        /\ after = [t \in DOMAIN after |-> after[t]]
        /\ \A t \in DOMAIN tables \ {op.table} : after[t] = tables[t]
        /\ after[op.table] = [types |-> op.columns, rows |-> {}, serial |-> 0]
    BY <1>1, <2>1, CreateApplies
  <2>3. TablesTyped(after)
    BY <1>3, <2>2 DEF TablesTyped, TableTyped
  <2>4. HasSchema(after, at2, to, done2)
    BY <2>1, <2>2 DEF HasSchema
  <2> QED BY <1>1, <2>1, <2>2, <2>3, <2>4
<1>5. CASE Removes(op, at, to, done, at2, done2)
  <2>1. /\ op.op = "drop"
        /\ Tables(at2, to, done2) = DOMAIN tables \ {op.table}
        /\ \A t : Types(t, at2, to, done2) = Types(t, at, to, done)
    <3>1. op.op = "drop" /\ Tables(at2, to, done2) = DOMAIN tables \ {op.table}
      BY <1>5 DEF Removes, HasSchema
    <3>2. Wide(at2, to, done2) = Wide(at, to, done)
      BY <1>5 DEF Removes
    <3> QED BY <3>1, <3>2 DEF Types
  <2>2. /\ DOMAIN after = DOMAIN tables \ {op.table}
        /\ after = [t \in DOMAIN after |-> after[t]]
        /\ \A t \in DOMAIN tables \ {op.table} : after[t] = tables[t]
    BY <1>1, <2>1, DropApplies
  <2>3. TablesTyped(after)
    BY <2>2 DEF TablesTyped
  <2>4. HasSchema(after, at2, to, done2)
    BY <2>1, <2>2 DEF HasSchema
  <2> QED BY <1>1, <2>2, <2>3, <2>4
<1>6. CASE Alters(op, at, to, done, at2, done2)
  <2>1. /\ op.op = "alter" /\ op.table = QueryTable /\ QueryTable \in DOMAIN tables
        /\ op.column \in QueryColumns
        /\ Tables(at2, to, done2) = DOMAIN tables
    BY <1>6 DEF Alters, HasSchema
  <2>2. tables[QueryTable].types = Types(QueryTable, at, to, done)
        /\ DOMAIN Types(QueryTable, at, to, done) = QueryColumns
    BY <2>1 DEF HasSchema, Types
  <2>3. Types(QueryTable, at2, to, done2) =
          [tables[QueryTable].types EXCEPT ![op.column] = op.type]
    <3>1. Types(QueryTable, at, to, done) =
            [c \in QueryColumns |-> Types(QueryTable, at, to, done)[c]]
      BY DEF Types
    <3>2. Types(QueryTable, at2, to, done2) =
            [c \in QueryColumns |->
               IF c = op.column THEN op.type ELSE Types(QueryTable, at, to, done)[c]]
      BY <1>6 DEF Alters
    <3> QED BY <2>2, <3>1, <3>2
  <2>4. \A t : t # QueryTable => Types(t, at2, to, done2) = Types(t, at, to, done)
    BY DEF Types
  <2>5. /\ DOMAIN after = DOMAIN tables
        /\ after = [t \in DOMAIN after |-> after[t]]
        /\ \A t \in DOMAIN tables \ {QueryTable} : after[t] = tables[t]
        /\ after[QueryTable] =
             [types |-> Types(QueryTable, at2, to, done2),
              rows |-> tables[QueryTable].rows, serial |-> tables[QueryTable].serial]
    BY <1>1, <2>1, <2>2, <2>3, AlterApplies
  <2>6. \A row \in tables[QueryTable].rows : Fits(row[op.column], op.type)
    BY <2>1 DEF Possible
  <2>7. TablesTyped(after)
    <3>1. ASSUME NEW row \in tables[QueryTable].rows
          PROVE  /\ DOMAIN row = DOMAIN Types(QueryTable, at2, to, done2)
                 /\ \A c \in DOMAIN row : Fits(row[c], Types(QueryTable, at2, to, done2)[c])
      <4>1. /\ DOMAIN row = QueryColumns
            /\ \A c \in DOMAIN row : Fits(row[c], Types(QueryTable, at, to, done)[c])
        BY <2>1, <2>2 DEF TablesTyped, TableTyped
      <4>2. /\ DOMAIN Types(QueryTable, at2, to, done2) = QueryColumns
            /\ \A c \in QueryColumns : Types(QueryTable, at2, to, done2)[c] =
                 IF c = op.column THEN op.type ELSE Types(QueryTable, at, to, done)[c]
        BY <1>6 DEF Alters
      <4> QED BY <2>6, <4>1, <4>2
    <3>2. TableTyped(after[QueryTable])
      <4>1. /\ after[QueryTable].types = Types(QueryTable, at2, to, done2)
            /\ after[QueryTable].rows = tables[QueryTable].rows
            /\ after[QueryTable].serial = tables[QueryTable].serial
        BY <2>5
      <4>2. tables[QueryTable].serial \in 0..MaxId
        BY <2>1 DEF TablesTyped, TableTyped
      <4> QED BY <2>5, <3>1, <4>1, <4>2 DEF TableTyped
    <3>3. \A t \in DOMAIN after \ {QueryTable} : TableTyped(after[t])
      BY <2>5 DEF TablesTyped
    <3> QED BY <2>5, <3>2, <3>3 DEF TablesTyped
  <2>8. HasSchema(after, at2, to, done2)
    <3>1. after[QueryTable].types = Types(QueryTable, at2, to, done2)
      BY <2>5
    <3>2. \A t \in DOMAIN tables \ {QueryTable} :
            after[t].types = Types(t, at2, to, done2)
      BY <2>4, <2>5 DEF HasSchema
    <3> QED BY <2>1, <2>5, <3>1, <3>2 DEF HasSchema
  <2> QED BY <1>1, <2>1, <2>5, <2>7, <2>8
<1> QED BY <1>2, <1>4, <1>5, <1>6

-----------------------------------------------------------------------------
(* The steps of a migration.                                               *)

LEMMA InvInit == Init => Inv
<1> SUFFICES ASSUME Init PROVE Inv
  OBVIOUS
<1>1. revision = 0 /\ DOMAIN db = {} /\ db = [t \in DOMAIN db |-> db[t]]
  BY DEF Init
<1>2. Tables(0, 0, 0) = {}
  BY DEF Tables, Created
<1> QED BY <1>1, <1>2 DEF Init, Inv, TablesTyped, HasSchema, OnlyWidthsRefuse

LEMMA MigrateStep ==
  ASSUME Inv, NEW to \in 0..Revisions, Migrate(to)
  PROVE  Inv'
<1>1. /\ migration' = [to |-> to, at |-> revision, done |-> 0, touched |-> {}, tables |-> <<>>]
      /\ revision' = revision /\ db' = db /\ failed' = failed /\ refused' = refused
      /\ to # revision
  BY DEF Migrate
<1>2. /\ migration'.to = to /\ migration'.at = revision /\ migration'.done = 0
      /\ migration'.touched = {} /\ DOMAIN migration'.tables = {}
  BY <1>1
<1>3. InMigration' = db
  <2>1. InMigration' = [t \in DOMAIN migration'.tables \cup (DOMAIN db \ migration'.touched) |->
                          IF t \in migration'.touched THEN migration'.tables[t] ELSE db[t]]
    BY <1>1 DEF InMigration
  <2>2. InMigration' = [t \in DOMAIN db |-> db[t]]
    BY <1>2, <2>1
  <2> QED BY <2>2 DEF Inv, TablesTyped
<1>4. revision \in 0..3 /\ to \in 0..3
  BY Scripts DEF Inv
<1>5. Position(revision, to, 0)
  <2>1. Len(Script(revision, to)) = Length(revision, to)
    BY <1>1, <1>4, ScriptOf
  <2>2. Length(revision, to) > 0
    BY <1>1, <1>4 DEF Length
  <2> QED BY <1>1, <1>4, <2>1, <2>2 DEF Position
<1>6. HasSchema(db, revision, to, 0)
  BY <1>4, AtRest DEF Inv, HasSchema
<1>7. Towards(revision, revision, to)
  BY <1>4 DEF Towards
<1>8. MigrationInStep'
  BY <1>1, <1>2, <1>3, <1>5, <1>6, <1>7 DEF MigrationInStep, Inv
<1>9. OnlyWidthsRefuse'
  BY <1>1 DEF Inv, OnlyWidthsRefuse
<1> QED BY <1>1, <1>8, <1>9 DEF Inv

LEMMA OperateStep ==
  ASSUME Inv, Operate
  PROVE  Inv'
<1>1. PICK at, to, done, touched, tables, op :
        /\ at = migration.at /\ to = migration.to /\ done = migration.done
        /\ touched = migration.touched /\ tables = InMigration
        /\ op = Script(at, to)[done + 1]
  OBVIOUS
<1>2. PICK at2, done2 : <<at2, done2>> = After(at, to, done)
  BY DEF After
<1>3. PICK after : after = Apply(tables, op)
  OBVIOUS
<1>4. /\ at # to /\ Possible(tables, op)
      /\ migration' = [to |-> to, at |-> at2, done |-> done2,
                       touched |-> touched \cup {op.table},
                       tables |-> Restrict(after, (touched \cup {op.table}) \cap DOMAIN after)]
      /\ revision' = revision /\ db' = db /\ failed' = failed /\ refused' = refused
  BY <1>1, <1>2, <1>3 DEF Operate, After
<1>5. /\ Position(at, to, done) /\ Towards(revision, at, to) /\ TablesTyped(tables)
      /\ HasSchema(tables, at, to, done) /\ DOMAIN migration.tables \subseteq touched
      /\ \A t \in DOMAIN db \cap DOMAIN tables : tables[t].rows = db[t].rows
      /\ revision \in 0..3 /\ HasSchema(db, revision, revision, 0)
  BY <1>1 DEF Operate, Inv, MigrationInStep
<1>6. /\ TablesTyped(after) /\ HasSchema(after, at2, to, done2)
      /\ DOMAIN after \ {op.table} = DOMAIN tables \ {op.table}
      /\ \A t \in DOMAIN tables \ {op.table} : after[t] = tables[t]
      /\ op.table \in DOMAIN tables \cap DOMAIN after =>
           after[op.table].rows = tables[op.table].rows
      /\ (op.table \notin DOMAIN tables /\ op.table \in DOMAIN after) => at < to
  BY <1>1, <1>2, <1>3, <1>4, <1>5, Applying
<1>7. /\ Position(at2, to, done2)
      /\ at < to => at <= at2 /\ at2 <= to
      /\ to < at => at2 <= at /\ to <= at2
  BY <1>1, <1>2, <1>4, <1>5, Steps
<1>8. /\ migration'.to = to /\ migration'.at = at2 /\ migration'.done = done2
      /\ migration'.touched = touched \cup {op.table}
      /\ migration'.tables = Restrict(after, (touched \cup {op.table}) \cap DOMAIN after)
  BY <1>4
<1>9. /\ DOMAIN migration'.tables = (touched \cup {op.table}) \cap DOMAIN after
      /\ \A t \in DOMAIN migration'.tables : migration'.tables[t] = after[t]
  BY <1>8 DEF Restrict
<1>10. /\ DOMAIN tables = DOMAIN migration.tables \cup (DOMAIN db \ touched)
       /\ \A t \in DOMAIN tables \ touched : tables[t] = db[t]
  BY <1>1 DEF InMigration
<1>11. InMigration' = after
  <2>1. InMigration' = [t \in DOMAIN migration'.tables \cup (DOMAIN db \ migration'.touched) |->
                          IF t \in migration'.touched THEN migration'.tables[t] ELSE db[t]]
    BY <1>4 DEF InMigration
  <2>2. DOMAIN migration'.tables \cup (DOMAIN db \ migration'.touched) = DOMAIN after
    BY <1>5, <1>6, <1>8, <1>9, <1>10
  <2>3. \A t \in DOMAIN after :
          (IF t \in migration'.touched THEN migration'.tables[t] ELSE db[t]) = after[t]
    BY <1>6, <1>8, <1>9, <1>10
  <2>4. after = [t \in DOMAIN after |-> after[t]]
    BY <1>6 DEF TablesTyped
  <2> QED BY <2>1, <2>2, <2>3, <2>4
<1>12. Towards(revision, at2, to)
  <2>1. at \in 0..3 /\ to \in 0..3 /\ at2 \in 0..3
    BY <1>5, <1>7 DEF Position
  <2> QED BY <1>4, <1>5, <1>7, <2>1 DEF Towards
<1>13. \A t \in DOMAIN db \cap DOMAIN after : after[t].rows = db[t].rows
  <2>1. (op.table \notin DOMAIN tables /\ op.table \in DOMAIN after) => op.table \notin DOMAIN db
    <3>1. at < to => DOMAIN db \subseteq DOMAIN tables
      <4>1. at \in 0..3 /\ to \in 0..3
        BY <1>5 DEF Position
      <4>2. at < to => revision <= at /\ at <= to
        BY <1>5, <4>1 DEF Towards
      <4> QED BY <1>5, <4>2, TablesGrow DEF HasSchema
    <3> QED BY <1>6, <3>1
  <2> QED BY <1>5, <1>6, <2>1
<1>14. MigrationInStep'
  BY <1>4, <1>6, <1>7, <1>8, <1>9, <1>11, <1>12, <1>13 DEF MigrationInStep
<1>15. OnlyWidthsRefuse'
  BY <1>4 DEF Inv, OnlyWidthsRefuse
<1> QED BY <1>4, <1>14, <1>15 DEF Inv

LEMMA OperationFailsStep ==
  ASSUME Inv, OperationFails
  PROVE  Inv'
<1>1. PICK at, to, done, tables, op :
        /\ at = migration.at /\ to = migration.to /\ done = migration.done
        /\ tables = InMigration /\ op = Script(at, to)[done + 1]
  OBVIOUS
<1>2. PICK at2, done2 : <<at2, done2>> = After(at, to, done)
  BY DEF After
<1>3. /\ at # to /\ ~Possible(tables, op) /\ failed' = op
      /\ migration' = None
      /\ revision' = revision /\ db' = db /\ refused' = refused
  BY <1>1 DEF OperationFails
<1>4. Position(at, to, done) /\ HasSchema(tables, at, to, done)
  BY <1>1 DEF OperationFails, Inv, MigrationInStep
<1>5. op.op = "alter" /\ op.type = "int4"
  <2>1. \/ Creates(op, at, to, done, at2, done2)
        \/ Removes(op, at, to, done, at2, done2)
        \/ Alters(op, at, to, done, at2, done2)
    BY <1>1, <1>2, <1>3, <1>4, Steps
  <2>2. CASE Creates(op, at, to, done, at2, done2)
    BY <1>3, <1>4, <2>2 DEF Creates, HasSchema, Possible
  <2>3. CASE Removes(op, at, to, done, at2, done2)
    BY <1>3, <1>4, <2>3 DEF Removes, HasSchema, Possible
  <2>4. CASE Alters(op, at, to, done, at2, done2)
    BY <1>3, <1>4, <2>4 DEF Alters, HasSchema, Possible, Fits
  <2> QED BY <2>1, <2>2, <2>3, <2>4
<1> QED BY <1>3, <1>5 DEF Inv, OnlyWidthsRefuse

LEMMA CommitStep ==
  ASSUME Inv, CommitMigration
  PROVE  Inv'
<1>1. /\ db' = InMigration /\ revision' = migration.at /\ migration' = None
      /\ migration.at = migration.to /\ failed' = failed /\ refused' = refused
      /\ MigrationInStep
  BY DEF CommitMigration, Inv
<1>2. /\ migration.done = 0 /\ migration.at \in 0..3
      /\ TablesTyped(InMigration)
      /\ HasSchema(InMigration, migration.at, migration.at, 0)
  BY <1>1 DEF MigrationInStep, Position
<1> QED BY <1>1, <1>2 DEF Inv, OnlyWidthsRefuse

-----------------------------------------------------------------------------
(* A write.                                                                *)

(* A row has the columns of its table, whatever the revision.              *)
LEMMA ColumnsOfTypes ==
  \A t, at, to, done : DOMAIN Types(t, at, to, done) = DOMAIN Declared(t)
BY DeclaredQueryTable DEF Types

LEMMA InsertIs ==
  ASSUME NEW t \in DOMAIN db, TablesTyped(db), NEW row
  PROVE  Insert(t, row) =
           [types |-> db[t].types,
            rows |-> IF t \in CurrentTables THEN {row} ELSE db[t].rows \cup {row},
            serial |-> IF "id" \in DOMAIN row THEN db[t].serial + 1 ELSE db[t].serial]
<1>1. PICK types, rows, serial : db[t] = [types |-> types, rows |-> rows, serial |-> serial]
  BY DEF TablesTyped, TableTyped
<1> DEFINE serial2 == IF "id" \in DOMAIN row THEN serial + 1 ELSE serial
           rows2 == IF t \in CurrentTables THEN {row} ELSE rows \cup {row}
<1>2. db[t].types = types /\ db[t].rows = rows /\ db[t].serial = serial
  BY <1>1
<1>3. Insert(t, row) = [db[t] EXCEPT !.serial = serial2, !.rows = rows2]
  BY <1>2 DEF Insert
<1> HIDE DEF serial2, rows2
<1>4. Insert(t, row) = [types |-> types, rows |-> rows2, serial |-> serial2]
  <2>1. PICK counted : counted = [db[t] EXCEPT !.serial = serial2]
    OBVIOUS
  <2>2. counted = [types |-> types, rows |-> rows, serial |-> serial2]
    BY <1>1, <2>1
  <2>3. [counted EXCEPT !.rows = rows2] = [types |-> types, rows |-> rows2, serial |-> serial2]
    BY <2>2
  <2> QED BY <1>3, <2>1, <2>3
<1> QED BY <1>2, <1>4 DEF serial2, rows2

(* The tables that are written are typed as before, with one more row.     *)
LEMMA Stored ==
  ASSUME Inv, NEW tables, NEW wide, \A t \in tables : Accepts(t, Row(t, wide)),
         db' = [t \in DOMAIN db |-> IF t \in tables THEN Insert(t, Row(t, wide)) ELSE db[t]]
  PROVE  /\ DOMAIN db' = DOMAIN db
         /\ TablesTyped(db')
         /\ \A t \in DOMAIN db : db'[t].types = db[t].types
         /\ \A t \in DOMAIN db \ tables : db'[t] = db[t]
         /\ \A t \in DOMAIN db \ CurrentTables : db[t].rows \subseteq db'[t].rows
<1>1. TablesTyped(db) /\ MaxId \in Nat
  BY IdAssumption DEF Inv
<1>2. DOMAIN db' = DOMAIN db /\ db' = [t \in DOMAIN db' |-> db'[t]]
  OBVIOUS
<1>3. \A t \in DOMAIN db \ tables : db'[t] = db[t]
  OBVIOUS
<1>4. ASSUME NEW t \in DOMAIN db, t \in tables
      PROVE  /\ TableTyped(db'[t])
             /\ db'[t].types = db[t].types
             /\ t \notin CurrentTables => db[t].rows \subseteq db'[t].rows
  <2>1. PICK row : row = Row(t, wide)
    OBVIOUS
  <2>2. /\ DOMAIN row = DOMAIN Declared(t)
        /\ \A c \in DOMAIN row : Fits(row[c], db[t].types[c])
        /\ db[t].serial < MaxId
    BY <1>4, <2>1 DEF Accepts, Row
  <2>3. DOMAIN row = DOMAIN db[t].types
    BY <2>2, ColumnsOfTypes DEF Inv, HasSchema
  <2>4. TableTyped(db[t])
    BY <1>1 DEF TablesTyped
  <2>5. db'[t] = [types |-> db[t].types,
                  rows |-> IF t \in CurrentTables THEN {row} ELSE db[t].rows \cup {row},
                  serial |-> IF "id" \in DOMAIN row THEN db[t].serial + 1 ELSE db[t].serial]
    BY <1>1, <1>4, <2>1, InsertIs
  <2>6. /\ db'[t].types = db[t].types
        /\ db'[t].rows = IF t \in CurrentTables THEN {row} ELSE db[t].rows \cup {row}
        /\ db'[t].serial = IF "id" \in DOMAIN row THEN db[t].serial + 1 ELSE db[t].serial
    BY <2>5
  <2>7. db'[t].serial \in 0..MaxId
    BY <1>1, <2>2, <2>4, <2>6 DEF TableTyped
  <2>8. \A r \in db'[t].rows :
          /\ DOMAIN r = DOMAIN db'[t].types
          /\ \A c \in DOMAIN r : Fits(r[c], db'[t].types[c])
    BY <2>2, <2>3, <2>4, <2>6 DEF TableTyped
  <2> QED BY <2>5, <2>6, <2>7, <2>8 DEF TableTyped
<1> QED BY <1>1, <1>2, <1>3, <1>4 DEF TablesTyped

(* At the head all columns are wide but the ids and the oids.              *)
LEMMA WideAtHead ==
  ASSUME NEW t \in {QueryTable} \cup RuntimeTables, NEW wide \in WideColumns,
         NEW c \in DOMAIN Declared(t), c = wide, Declared(t)[c] # "int8"
  PROVE  t = QueryTable /\ wide \in Oids
<1>1. c \in Oids \cup Counters(6) \cup Database
  BY ColumnsAssumption, NamesOfCounters
<1>2. CASE t = QueryTable
  BY <1>1, <1>2, DeclaredQueryTable, NamesOfCounters DEF Database, Oids, QueryColumns
<1>3. CASE t = "runtime_snapshots" \/ t = "runtime_current"
  BY <1>1, <1>3, DeclaredRuntimeTables, NamesOfCounters DEF Database, Oids, Activity, Columns, Counters
<1>4. CASE t = "runtime_database_snapshots" \/ t = "runtime_database_current"
  <2>1. c \in {"id", "runtime_snapshot_id"} \cup Database
        /\ Declared(t)[c] = IF c \in Database THEN "int8" ELSE "int4"
    <3>1. CASE t = "runtime_database_snapshots"
      BY <3>1, DeclaredRuntimeTables DEF Columns
    <3>2. CASE t = "runtime_database_current"
      BY <3>2, DeclaredRuntimeTables DEF Columns
    <3> QED BY <1>4, <3>1, <3>2
  <2>2. c \notin {"id", "runtime_snapshot_id"}
    BY <1>1, NamesOfCounters DEF Counters, Oids, Database, QueryCounters
  <2> QED BY <2>1, <2>2
<1> QED BY <1>2, <1>3, <1>4 DEF RuntimeTables

LEMMA WriteStep ==
  ASSUME Inv, NEW tables \in {{QueryTable}, RuntimeTables}, NEW wide \in WideColumns,
         Write(tables, wide)
  PROVE  Inv'
<1>1. /\ revision' = revision /\ migration' = migration /\ failed' = failed
      /\ tables \cap Locked = {}
  BY DEF Write
<1>2. CASE \A t \in tables : Accepts(t, Row(t, wide))
  <2>1. /\ db' = [t \in DOMAIN db |-> IF t \in tables THEN Insert(t, Row(t, wide)) ELSE db[t]]
        /\ refused' = refused
    BY <1>2 DEF Write
  <2>2. /\ DOMAIN db' = DOMAIN db
        /\ TablesTyped(db')
        /\ \A t \in DOMAIN db : db'[t].types = db[t].types
        /\ \A t \in DOMAIN db \ tables : db'[t] = db[t]
    BY <1>2, <2>1, Stored
  <2>3. HasSchema(db', revision, revision, 0)
    BY <2>2 DEF Inv, HasSchema
  <2>4. ASSUME migration # None PROVE MigrationInStep'
    <3>1. MigrationInStep
      BY <2>4 DEF Inv
    <3>2. /\ InMigration = [t \in DOMAIN migration.tables \cup (DOMAIN db \ migration.touched) |->
                              IF t \in migration.touched THEN migration.tables[t] ELSE db[t]]
          /\ InMigration' =
               [t \in DOMAIN migration.tables \cup (DOMAIN db \ migration.touched) |->
                  IF t \in migration.touched THEN migration.tables[t] ELSE db'[t]]
      BY <1>1, <2>2 DEF InMigration
    <3>3. /\ DOMAIN InMigration' = DOMAIN InMigration
          /\ \A t \in DOMAIN InMigration \cap migration.touched :
               InMigration'[t] = InMigration[t]
          /\ \A t \in DOMAIN InMigration \ migration.touched :
               t \in DOMAIN db /\ InMigration[t] = db[t] /\ InMigration'[t] = db'[t]
      BY <3>1, <3>2 DEF MigrationInStep
    <3>4. TablesTyped(InMigration')
      <4>1. \A t \in DOMAIN InMigration' : TableTyped(InMigration'[t])
        BY <2>2, <3>1, <3>3 DEF MigrationInStep, TablesTyped
      <4>2. InMigration' = [t \in DOMAIN InMigration' |-> InMigration'[t]]
        BY <3>2
      <4> QED BY <4>1, <4>2 DEF TablesTyped
    <3>5. \A t \in DOMAIN InMigration : InMigration'[t].types = InMigration[t].types
      BY <2>2, <3>3
    <3>6. HasSchema(InMigration', migration.at, migration.to, migration.done)
      BY <3>1, <3>3, <3>5 DEF MigrationInStep, HasSchema
    <3>7. \A t \in DOMAIN db' \cap DOMAIN InMigration' : InMigration'[t].rows = db'[t].rows
      <4>1. \A t \in DOMAIN db \cap migration.touched : t \notin tables
        BY <1>1, <2>4 DEF Locked
      <4> QED BY <2>2, <3>1, <3>3, <4>1 DEF MigrationInStep
    <3> QED BY <1>1, <3>1, <3>4, <3>6, <3>7 DEF MigrationInStep
  <2>5. OnlyWidthsRefuse'
    BY <1>1, <2>1 DEF Inv, OnlyWidthsRefuse
  <2> QED BY <1>1, <2>2, <2>3, <2>4, <2>5 DEF Inv
<1>3. CASE ~(\A t \in tables : Accepts(t, Row(t, wide)))
  <2>1. /\ refused' = [revision |-> revision, tables |-> tables, wide |-> wide,
                       usedUp |-> \E t \in tables \cap DOMAIN db : db[t].serial = MaxId]
        /\ db' = db
    BY <1>3 DEF Write
  <2>2. PICK t \in tables : ~Accepts(t, Row(t, wide))
    BY <1>3
  <2>3. ASSUME revision = Revisions
        PROVE  \/ QueryTable \in tables /\ wide \in Oids
               \/ \E s \in tables \cap DOMAIN db : db[s].serial = MaxId
    <3>1. revision = 3 /\ t \in {QueryTable} \cup RuntimeTables
      BY <2>3, Scripts
    <3>2. t \in DOMAIN db /\ db[t].types = Declared(t)
      <4>1. Created(3, 3, 0) = 4 /\ Wide(3, 3, 0) = 6
        BY DEF Created, Wide
      <4>2. DOMAIN db = {QueryTable} \cup RuntimeTables
        BY <3>1, <4>1, NamesOfTables DEF Inv, HasSchema, Tables
      <4>3. db[t].types = Types(t, 3, 3, 0)
        BY <3>1, <4>2 DEF Inv, HasSchema
      <4> QED BY <3>1, <4>1, <4>2, <4>3, DeclaredQueryTable DEF Types
    <3>3. CASE db[t].serial < MaxId
      <4>1. PICK c \in DOMAIN Row(t, wide) : ~Fits(Row(t, wide)[c], Declared(t)[c])
        BY <2>2, <3>2, <3>3 DEF Accepts
      <4>2. c \in DOMAIN Declared(t) /\ c = wide /\ Declared(t)[c] # "int8"
        BY <4>1 DEF Row, Fits
      <4>3. t = QueryTable /\ wide \in Oids
        BY <3>1, <4>2, WideAtHead
      <4> QED BY <4>3
    <3>4. CASE ~(db[t].serial < MaxId)
      <4>1. db[t].serial \in 0..MaxId /\ MaxId \in Nat
        BY <3>2, IdAssumption DEF Inv, TablesTyped, TableTyped
      <4> QED BY <3>2, <3>4, <4>1
    <3> QED BY <3>3, <3>4
  <2>4. OnlyWidthsRefuse'
    <3>1. /\ refused'.revision = revision /\ refused'.tables = tables
          /\ refused'.wide = wide
      BY <2>1
    <3>2. refused'.usedUp = \E s \in tables \cap DOMAIN db : db[s].serial = MaxId
      BY <2>1
    <3>3. refused'.revision = Revisions =>
            (QueryTable \in refused'.tables /\ refused'.wide \in Oids) \/ refused'.usedUp
      BY <2>3, <3>1, <3>2
    <3> QED BY <1>1, <3>3 DEF Inv, OnlyWidthsRefuse
  <2>5. InMigration' = InMigration
    BY <1>1, <2>1 DEF InMigration
  <2> QED BY <1>1, <2>1, <2>4, <2>5 DEF Inv, MigrationInStep
<1> QED BY <1>2, <1>3

LEMMA InvNext == Inv /\ [Next]_vars => Inv'
<1> SUFFICES ASSUME Inv, [Next]_vars PROVE Inv'
  OBVIOUS
<1>1. CASE \E to \in 0..Revisions : Migrate(to)
  BY <1>1, MigrateStep
<1>2. CASE Operate
  BY <1>2, OperateStep
<1>3. CASE OperationFails
  BY <1>3, OperationFailsStep
<1>4. CASE CommitMigration
  BY <1>4, CommitStep
<1>5. CASE Crash
  BY <1>5 DEF Crash, Inv, OnlyWidthsRefuse
<1>6. CASE WriteQuerySnapshot
  BY <1>6, WriteStep DEF WriteQuerySnapshot
<1>7. CASE WriteRuntimeSnapshot
  BY <1>7, WriteStep DEF WriteRuntimeSnapshot
<1>8. CASE UNCHANGED vars
  <2>1. /\ revision' = revision /\ db' = db /\ migration' = migration
        /\ failed' = failed /\ refused' = refused
    BY <1>8 DEF vars
  <2>2. InMigration' = InMigration
    BY <2>1 DEF InMigration
  <2> QED BY <2>1, <2>2 DEF Inv, MigrationInStep, OnlyWidthsRefuse
<1> QED BY <1>1, <1>2, <1>3, <1>4, <1>5, <1>6, <1>7, <1>8 DEF Next

LEMMA InvHolds == Spec => []Inv
BY InvInit, InvNext, PTL DEF Spec

-----------------------------------------------------------------------------
(* What follows from it.                                                   *)

(***************************************************************************)
(* The rows of the tables fit their columns' types and the ids stay in     *)
(* range, for values of any columns and any last id, whatever migration    *)
(* runs beside the writes.                                                 *)
(***************************************************************************)
THEOREM TypeCorrect == Spec => []TypeOK
<1>1. Inv => TypeOK
  <2> SUFFICES ASSUME Inv PROVE TypeOK
    OBVIOUS
  <2>1. migration # None => migration.to \in 0..3
    BY DEF Inv, MigrationInStep, Position
  <2> QED BY <2>1, Scripts DEF Inv, TablesTyped, TableTyped, TypeOK
<1> QED BY InvHolds, <1>1, PTL

(***************************************************************************)
(* After any sequence of upgrades and downgrades, completed, failed or     *)
(* interrupted, the tables are those of the revision alembic_version       *)
(* names, and at the head what the ORM declares.                           *)
(***************************************************************************)
THEOREM SchemaFollowsRevision == Spec => []SchemaOfRevision
<1>1. Inv => SchemaOfRevision
  <2> SUFFICES ASSUME Inv PROVE SchemaOfRevision
    OBVIOUS
  <2>1. revision \in 0..3 /\ Revisions = 3
    BY Scripts DEF Inv
  <2>2. /\ DOMAIN db = Tables(revision, revision, 0)
        /\ \A t \in DOMAIN db : db[t].types = Types(t, revision, revision, 0)
    BY DEF Inv, HasSchema
  <2>3. /\ Created(revision, revision, 0) = IF revision >= 2 THEN 4 ELSE 0
        /\ Wide(revision, revision, 0) = IF revision = 3 THEN 6 ELSE 0
    BY <2>1 DEF Created, Wide
  <2>4. DOMAIN db = (IF revision >= 1 THEN {QueryTable} ELSE {})
                      \cup (IF revision >= 2 THEN RuntimeTables ELSE {})
    BY <2>1, <2>2, <2>3, NamesOfTables DEF Tables
  <2>5. ASSUME NEW t \in DOMAIN db
        PROVE  db[t].types = IF t = QueryTable /\ revision < Revisions
                               THEN Columns(DOMAIN Declared(t), {}) ELSE Declared(t)
    <3>1. CASE t = QueryTable /\ revision < 3
      <4>1. Counters(Wide(revision, revision, 0)) = {}
        BY <2>1, <2>3, <3>1 DEF Counters
      <4>2. db[t].types = [c \in QueryColumns |-> "int4"]
        BY <2>2, <3>1, <4>1 DEF Types
      <4>3. DOMAIN Declared(QueryTable) = QueryColumns
        BY DeclaredQueryTable
      <4> QED BY <2>1, <3>1, <4>2, <4>3 DEF Columns
    <3>2. CASE t = QueryTable /\ revision = 3
      BY <2>1, <2>2, <2>3, <3>2, DeclaredQueryTable DEF Types
    <3>3. CASE t # QueryTable
      BY <2>2, <3>3 DEF Types
    <3> QED BY <2>1, <3>1, <3>2, <3>3
  <2> QED BY <2>4, <2>5 DEF SchemaOfRevision
<1> QED BY InvHolds, <1>1, PTL

(***************************************************************************)
(* A migration fails only when it narrows a counter, and at the head only  *)
(* an oid too wide for its column or ids that are used up refuse a write.  *)
(***************************************************************************)
THEOREM WidthsRefuse == Spec => []OnlyWidthsRefuse
<1>1. Inv => OnlyWidthsRefuse
  BY DEF Inv
<1> QED BY InvHolds, <1>1, PTL

(***************************************************************************)
(* No step takes a stored snapshot away, but a downgrade that drops its    *)
(* table: not a commit beside which rows were written, not a crash.        *)
(***************************************************************************)
THEOREM NoSnapshotLost == Spec => NothingLost
<1> DEFINE Kept == \A t \in DOMAIN db \ CurrentTables :
                     IF t \in DOMAIN db' THEN db[t].rows \subseteq db'[t].rows
                     ELSE revision' < revision
<1>1. ASSUME Inv, Next PROVE Kept
  <2>1. CASE db' = db
    BY <2>1
  <2>2. ASSUME NEW tables \in {{QueryTable}, RuntimeTables}, NEW wide \in WideColumns,
               Write(tables, wide)
        PROVE  Kept
    <3>1. CASE \A t \in tables : Accepts(t, Row(t, wide))
      <4>1. db' = [t \in DOMAIN db |-> IF t \in tables THEN Insert(t, Row(t, wide)) ELSE db[t]]
        BY <2>2, <3>1 DEF Write
      <4>2. /\ DOMAIN db' = DOMAIN db
            /\ \A t \in DOMAIN db \ CurrentTables : db[t].rows \subseteq db'[t].rows
        BY <1>1, <3>1, <4>1, Stored
      <4> QED BY <4>2
    <3>2. CASE ~(\A t \in tables : Accepts(t, Row(t, wide)))
      BY <2>1, <2>2, <3>2 DEF Write
    <3> QED BY <3>1, <3>2
  <2>3. CASE CommitMigration
    <3>1. /\ db' = InMigration /\ revision' = migration.at /\ migration.at = migration.to
          /\ MigrationInStep /\ revision \in 0..3 /\ HasSchema(db, revision, revision, 0)
      BY <1>1, <2>3 DEF CommitMigration, Inv
    <3>2. /\ Position(migration.at, migration.to, migration.done)
          /\ migration.at \in 0..3
          /\ DOMAIN InMigration = Tables(migration.at, migration.to, migration.done)
      BY <3>1 DEF MigrationInStep, Position, HasSchema
    <3>3. revision <= migration.at => DOMAIN db \subseteq DOMAIN db'
      BY <3>1, <3>2, TablesGrow DEF HasSchema
    <3>4. \A t \in DOMAIN db \cap DOMAIN db' : db'[t].rows = db[t].rows
      BY <3>1 DEF MigrationInStep
    <3> QED BY <3>1, <3>2, <3>3, <3>4
  <2> QED BY <1>1, <2>1, <2>2, <2>3
       DEF Next, Migrate, Operate, OperationFails, Crash, WriteQuerySnapshot,
           WriteRuntimeSnapshot
<1>2. ASSUME Inv, [Next]_vars PROVE [Kept]_vars
  BY <1>1, <1>2
<1> QED BY InvHolds, <1>2, PTL DEF Spec, NothingLost

=============================================================================
