------------------------- MODULE RuntimeSnapshots -------------------------
(***************************************************************************)
(* The runtime snapshots the collector hands to the storage and the two    *)
(* ways the tables keep them.  A snapshot is what one collection read: the *)
(* time the collector stamped on it before reading (captured_at), the      *)
(* cluster it read (db_identifier) and the databases (datname) the read    *)
(* returned.  The code never compares the counters themselves, so the      *)
(* identity of the collection stands for all the values it read.           *)
(***************************************************************************)
EXTENDS Integers

CONSTANTS
  Collections,  \* identities of the collections that read a snapshot
  Targets,      \* db_identifiers of the monitored clusters
  Names,        \* datnames a cluster can have
  Times,        \* values of captured_at
  NoSnapshot    \* "no row"

ASSUME TimesAssumption == Times \subseteq Int

Snapshots ==
  [of : Collections, at : Times, target : Targets, names : SUBSET Names]

ASSUME NoSnapshotAssumption == NoSnapshot \notin Snapshots

MaybeSnapshot == Snapshots \cup {NoSnapshot}

(***************************************************************************)
(* The rows of runtime_database_current (or of a reader's answer) for one  *)
(* cluster: each datname has the row of some snapshot, or no row.          *)
(***************************************************************************)
RowSets == [Names -> MaybeSnapshot]

NoRows == [n \in Names |-> NoSnapshot]

(* The complete rows of one snapshot: one for each database it lists.      *)
RowsOf(s) ==
  [n \in Names |-> IF s # NoSnapshot /\ n \in s.names THEN s ELSE NoSnapshot]

(***************************************************************************)
(* The WHERE of both upserts: an incoming snapshot replaces a row that is  *)
(* absent or was captured no later.                                        *)
(***************************************************************************)
Supersedes(s, row) == row = NoSnapshot \/ s.at >= row.at

===========================================================================
