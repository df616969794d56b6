--------------------------- MODULE RuntimeStore ---------------------------
(***************************************************************************)
(* The runtime half of the storage: the transactions in which collectors   *)
(* write snapshots (storage/uow.py and RuntimeSnapshotRepository of        *)
(* storage/repositories.py) and the reads with which /metrics and the      *)
(* collector's preflight load the latest state.                            *)
(*                                                                         *)
(* A writer is one execution slot of a runtime job; several exist when     *)
(* several workers run (a rolling restart, two collectors on one cluster). *)
(* The tables are PostgreSQL's, read committed: each statement sees what   *)
(* has been committed before it and what its own transaction has done, and *)
(* nothing of a transaction is visible to others before it commits.  One   *)
(* action is one statement of the code.                                    *)
(***************************************************************************)
EXTENDS RuntimeSnapshots

CONSTANTS
  Writers,      \* runtime jobs that may have a transaction open
  Readers,      \* sessions that load runtime state
  NoWriter      \* "nobody"

ASSUME NoWriterAssumption == NoWriter \notin Writers

VARIABLES
  history,          \* runtime_snapshots, committed
  historyRows,      \* runtime_database_snapshots, committed: <<snapshot, datname>>
  current,          \* runtime_current, committed
  databaseCurrent,  \* runtime_database_current, committed
  lockedBy,         \* who holds the row of runtime_current of a cluster
  stage,            \* the statement a writer's transaction is at
  tx,               \* what a writer's transaction has done so far
  begun,            \* the collections that have been handed to the storage
  acknowledged,     \* the snapshots whose job was told that the write succeeded
  scrape            \* what a reader has loaded

tables == <<history, historyRows, current, databaseCurrent>>
writers == <<lockedBy, stage, tx, begun, acknowledged>>
vars == <<tables, writers, scrape>>

-----------------------------------------------------------------------------
(***************************************************************************)
(* A transaction: the snapshot, whether its upsert changed the row of      *)
(* runtime_current, the datnames whose row it deleted or upserted in       *)
(* runtime_database_current, and those it inserted into the history.       *)
(***************************************************************************)
Transactions ==
  [snap : MaybeSnapshot, wrote : BOOLEAN, deleted : SUBSET Names,
   upserted : SUBSET Names, rows : SUBSET Names]

NewTransaction(s) ==
  [snap |-> s, wrote |-> FALSE, deleted |-> {}, upserted |-> {}, rows |-> {}]

Stages ==
  {"idle", "insert", "current", "check", "delete", "upsert", "flush", "commit",
   "aborting"}

Target(w) == tx[w].snap.target

(* runtime_current of the writer's cluster as its transaction sees it.     *)
CurrentSeenBy(w) == IF tx[w].wrote THEN tx[w].snap ELSE current[Target(w)]

(* The row of one datname as the writer's transaction sees it.             *)
RowSeenBy(w, n) ==
  IF n \in tx[w].upserted THEN tx[w].snap
  ELSE IF n \in tx[w].deleted THEN NoSnapshot
  ELSE databaseCurrent[Target(w)][n]

-----------------------------------------------------------------------------
(* The job enters the unit of work with a snapshot it has just collected.  *)
Begin(w) ==
  /\ stage[w] = "idle"
  /\ \E s \in Snapshots :
       /\ s.of \notin begun
       /\ begun' = begun \cup {s.of}
       /\ tx' = [tx EXCEPT ![w] = NewTransaction(s)]
  /\ stage' = [stage EXCEPT ![w] = "insert"]
  /\ UNCHANGED <<tables, lockedBy, acknowledged, scrape>>

(* INSERT INTO runtime_snapshots: visible to this transaction only.        *)
InsertSnapshot(w) ==
  /\ stage[w] = "insert"
  /\ stage' = [stage EXCEPT ![w] = "current"]
  /\ UNCHANGED <<tables, lockedBy, tx, begun, acknowledged, scrape>>

(* Fault: the upsert without its WHERE.                                    *)
UpsertCurrentAlways(w) ==
  /\ stage[w] = "current"
  /\ lockedBy[Target(w)] = NoWriter
  /\ lockedBy' = [lockedBy EXCEPT ![Target(w)] = w]
  /\ tx' = [tx EXCEPT ![w].wrote = TRUE]
  /\ stage' = [stage EXCEPT ![w] = "check"]
  /\ UNCHANGED <<tables, begun, acknowledged, scrape>>

(***************************************************************************)
(* INSERT INTO runtime_current ... ON CONFLICT DO UPDATE ... WHERE.  The   *)
(* statement waits for the transaction that holds the cluster's row (or    *)
(* has inserted its key), then decides on the row as committed, and holds  *)
(* the row to the end of the transaction even when its WHERE is false.     *)
(***************************************************************************)
UpsertCurrent(w) ==
  /\ stage[w] = "current"
  /\ lockedBy[Target(w)] = NoWriter
  /\ lockedBy' = [lockedBy EXCEPT ![Target(w)] = w]
  /\ tx' = [tx EXCEPT ![w].wrote = Supersedes(tx[w].snap, current[Target(w)])]
  /\ stage' = [stage EXCEPT ![w] = "check"]
  /\ UNCHANGED <<tables, begun, acknowledged, scrape>>

(* Fault: the databases are replaced whatever snapshot is shown.           *)
CheckNothing(w) ==
  /\ stage[w] = "check"
  /\ stage' = [stage EXCEPT ![w] = "delete"]
  /\ UNCHANGED <<tables, lockedBy, tx, begun, acknowledged, scrape>>

(***************************************************************************)
(* SELECT captured_at FROM runtime_current: the databases are left alone   *)
(* when a later snapshot is shown.                                         *)
(***************************************************************************)
CheckLatest(w) ==
  /\ stage[w] = "check"
  /\ stage' = [stage EXCEPT ![w] =
                 IF Supersedes(tx[w].snap, CurrentSeenBy(w)) THEN "delete" ELSE "flush"]
  /\ UNCHANGED <<tables, lockedBy, tx, begun, acknowledged, scrape>>

(* Fault: a snapshot without databases deletes nothing.                    *)
DeleteStaleOfListed(w) ==
  /\ stage[w] = "delete"
  /\ tx' = [tx EXCEPT ![w].deleted =
              {n \in Names \ tx[w].snap.names :
                 tx[w].snap.names # {} /\ RowSeenBy(w, n) # NoSnapshot}]
  /\ stage' = [stage EXCEPT ![w] =
                 IF tx[w].snap.names = {} THEN "flush" ELSE "upsert"]
  /\ UNCHANGED <<tables, lockedBy, begun, acknowledged, scrape>>

(***************************************************************************)
(* DELETE FROM runtime_database_current: the databases the snapshot does   *)
(* not list, which is all of them when it lists none.                      *)
(***************************************************************************)
DeleteStale(w) ==
  /\ stage[w] = "delete"
  /\ tx' = [tx EXCEPT ![w].deleted =
              {n \in Names \ tx[w].snap.names : RowSeenBy(w, n) # NoSnapshot}]
  /\ stage' = [stage EXCEPT ![w] =
                 IF tx[w].snap.names = {} THEN "flush" ELSE "upsert"]
  /\ UNCHANGED <<tables, lockedBy, begun, acknowledged, scrape>>

(* INSERT INTO runtime_database_current ... ON CONFLICT DO UPDATE ... WHERE *)
UpsertRows(w) ==
  /\ stage[w] = "upsert"
  /\ tx' = [tx EXCEPT ![w].upserted =
              {n \in tx[w].snap.names : Supersedes(tx[w].snap, RowSeenBy(w, n))}]
  /\ stage' = [stage EXCEPT ![w] = "flush"]
  /\ UNCHANGED <<tables, lockedBy, begun, acknowledged, scrape>>

(* Fault: the history rows are added only for a snapshot that is shown.    *)
FlushRowsIfShown(w) ==
  /\ stage[w] = "flush"
  /\ tx' = [tx EXCEPT ![w].rows = IF tx[w].wrote THEN tx[w].snap.names ELSE {}]
  /\ stage' = [stage EXCEPT ![w] = "commit"]
  /\ UNCHANGED <<tables, lockedBy, begun, acknowledged, scrape>>

(* Fault: the job reports success as soon as the repository returns.       *)
FlushAcknowledges(w) ==
  /\ stage[w] = "flush"
  /\ tx' = [tx EXCEPT ![w].rows = tx[w].snap.names]
  /\ stage' = [stage EXCEPT ![w] = "commit"]
  /\ acknowledged' = acknowledged \cup {tx[w].snap}
  /\ UNCHANGED <<tables, lockedBy, begun, scrape>>

(***************************************************************************)
(* The last flush.  The session does not flush on its own (autoflush is    *)
(* off), so the history rows added before the upserts reach the database   *)
(* here.                                                                   *)
(***************************************************************************)
FlushRows(w) ==
  /\ stage[w] = "flush"
  /\ tx' = [tx EXCEPT ![w].rows = tx[w].snap.names]
  /\ stage' = [stage EXCEPT ![w] = "commit"]
  /\ UNCHANGED <<tables, lockedBy, begun, acknowledged, scrape>>

(* What COMMIT makes visible, and the locks it gives up.                   *)
Publish(w) ==
  LET s == tx[w].snap
  IN /\ history' = history \cup {s}
     /\ historyRows' = historyRows \cup {<<s, n>> : n \in tx[w].rows}
     /\ current' = IF tx[w].wrote THEN [current EXCEPT ![s.target] = s] ELSE current
     /\ databaseCurrent' = [databaseCurrent EXCEPT ![s.target] =
                              [n \in Names |-> RowSeenBy(w, n)]]

Release(w) ==
  lockedBy' = [d \in Targets |-> IF lockedBy[d] = w THEN NoWriter ELSE lockedBy[d]]

EndTransaction(w) ==
  /\ Release(w)
  /\ stage' = [stage EXCEPT ![w] = "idle"]
  /\ tx' = [tx EXCEPT ![w] = NewTransaction(NoSnapshot)]

(* The unit of work exits without an exception and COMMIT is answered.     *)
Commit(w) ==
  /\ stage[w] = "commit"
  /\ Publish(w)
  /\ EndTransaction(w)
  /\ acknowledged' = acknowledged \cup {tx[w].snap}
  /\ UNCHANGED <<begun, scrape>>

(***************************************************************************)
(* COMMIT takes effect but its answer is lost, or the worker dies first:   *)
(* the job logs a failed write, or nothing at all.                         *)
(***************************************************************************)
CommitUnconfirmed(w) ==
  /\ stage[w] = "commit"
  /\ Publish(w)
  /\ EndTransaction(w)
  /\ UNCHANGED <<begun, acknowledged, scrape>>

(* Fault: the session is dropped with its transaction open.                *)
FailDropped(w) ==
  /\ stage[w] \notin {"idle", "aborting"}
  /\ stage' = [stage EXCEPT ![w] = "dropped"]
  /\ UNCHANGED <<tables, lockedBy, tx, begun, acknowledged, scrape>>

(***************************************************************************)
(* A statement or COMMIT fails, the job is cancelled, or the worker dies.  *)
(* The server keeps the transaction's locks until it is rolled back.       *)
(***************************************************************************)
Fail(w) ==
  /\ stage[w] \notin {"idle", "aborting"}
  /\ stage' = [stage EXCEPT ![w] = "aborting"]
  /\ UNCHANGED <<tables, lockedBy, tx, begun, acknowledged, scrape>>

(* Fault: the session is reused before its rollback.                       *)
RollbackKeepsRow(w) ==
  /\ stage[w] = "aborting"
  /\ stage' = [stage EXCEPT ![w] = "idle"]
  /\ tx' = [tx EXCEPT ![w] = NewTransaction(NoSnapshot)]
  /\ UNCHANGED <<tables, lockedBy, begun, acknowledged, scrape>>

(* The unit of work rolls back, or the server does for a client that left. *)
Rollback(w) ==
  /\ stage[w] = "aborting"
  /\ EndTransaction(w)
  /\ UNCHANGED <<tables, begun, acknowledged, scrape>>

-----------------------------------------------------------------------------
(***************************************************************************)
(* A reader: what its first SELECT returned for each cluster (seen), the   *)
(* database rows its second SELECT returned (rows).                        *)
(***************************************************************************)
Scrapes ==
  [stage : {"idle", "databases", "served"}, seen : [Targets -> MaybeSnapshot],
   rows : [Targets -> RowSets]]

NothingSeen == [d \in Targets |-> NoSnapshot]
NothingRead == [d \in Targets |-> NoRows]

(* What a reader asks for: /metrics for all clusters or, with a            *)
(* db_identifier, for one; the preflight for all.                          *)
Asked == {Targets} \cup {{d} : d \in Targets}

(***************************************************************************)
(* SELECT FROM runtime_current, of the clusters asked for.  Without a row  *)
(* the answer is empty and there is no second SELECT.                      *)
(***************************************************************************)
LoadCurrent(r) ==
  /\ scrape[r].stage # "databases"
  /\ \E asked \in Asked :
       LET found == [d \in Targets |-> IF d \in asked THEN current[d] ELSE NoSnapshot]
       IN scrape' = [scrape EXCEPT ![r] =
            [stage |-> IF found = NothingSeen THEN "served" ELSE "databases",
             seen |-> found, rows |-> NothingRead]]
  /\ UNCHANGED <<tables, writers>>

(* SELECT FROM runtime_database_current of the clusters just found.        *)
LoadDatabases(r) ==
  /\ scrape[r].stage = "databases"
  /\ scrape' = [scrape EXCEPT ![r] =
       [@ EXCEPT !.stage = "served",
                 !.rows = [d \in Targets |->
                   IF scrape[r].seen[d] # NoSnapshot THEN databaseCurrent[d] ELSE NoRows]]]
  /\ UNCHANGED <<tables, writers>>

(* A SELECT fails, the first or the second (StorageReadError): the reader  *)
(* answers with no state.                                                  *)
LoadFails(r) ==
  /\ scrape' = [scrape EXCEPT ![r] =
       [stage |-> "idle", seen |-> NothingSeen, rows |-> NothingRead]]
  /\ UNCHANGED <<tables, writers>>

-----------------------------------------------------------------------------
Init ==
  /\ history = {}
  /\ historyRows = {}
  /\ current = [d \in Targets |-> NoSnapshot]
  /\ databaseCurrent = [d \in Targets |-> NoRows]
  /\ lockedBy = [d \in Targets |-> NoWriter]
  /\ stage = [w \in Writers |-> "idle"]
  /\ tx = [w \in Writers |-> NewTransaction(NoSnapshot)]
  /\ begun = {}
  /\ acknowledged = {}
  /\ scrape = [r \in Readers |->
                 [stage |-> "idle", seen |-> NothingSeen, rows |-> NothingRead]]

(* The steps that follow from the write itself, failures left out.         *)
Proceed(w) ==
  \/ InsertSnapshot(w)
  \/ UpsertCurrent(w)
  \/ CheckLatest(w)
  \/ DeleteStale(w)
  \/ UpsertRows(w)
  \/ FlushRows(w)
  \/ Commit(w)
  \/ CommitUnconfirmed(w)
  \/ Rollback(w)

Next ==
  \/ \E w \in Writers : Begin(w) \/ Proceed(w) \/ Fail(w)
  \/ \E r \in Readers : LoadCurrent(r) \/ LoadDatabases(r) \/ LoadFails(r)

Spec == Init /\ [][Next]_vars

(***************************************************************************)
(* The database answers every statement and ends the transaction of every  *)
(* client that is gone, and lets a statement through that waits for a row  *)
(* nobody holds.                                                           *)
(***************************************************************************)
FairSpec == Spec /\ \A w \in Writers : WF_vars(Proceed(w))

-----------------------------------------------------------------------------
(***************************************************************************)
(* Every table, transaction and reader holds values of its kind.           *)
(***************************************************************************)
TypeOK ==
  /\ history \subseteq Snapshots
  /\ historyRows \subseteq Snapshots \X Names
  /\ current \in [Targets -> MaybeSnapshot]
  /\ databaseCurrent \in [Targets -> RowSets]
  /\ lockedBy \in [Targets -> Writers \cup {NoWriter}]
  /\ stage \in [Writers -> Stages]
  /\ tx \in [Writers -> Transactions]
  /\ begun \subseteq Collections
  /\ acknowledged \subseteq Snapshots
  /\ scrape \in [Readers -> Scrapes]

(***************************************************************************)
(* A snapshot is in the history with the rows of all of its databases and  *)
(* of no other, whatever statement of its write, or of a write that failed *)
(* or was cancelled beside it, was the last one (the unit of work).        *)
(***************************************************************************)
HistoryWhole == historyRows = {p \in history \X Names : p[2] \in p[1].names}

(***************************************************************************)
(* runtime_current shows, for each cluster, a snapshot of the history that *)
(* no snapshot of that cluster was captured after, in whatever order the   *)
(* collectors' transactions reached the database; and it shows one as soon *)
(* as the history has one.                                                 *)
(***************************************************************************)
CurrentIsLatest ==
  \A d \in Targets :
    LET ofTarget == {s \in history : s.target = d}
    IN IF ofTarget = {} THEN current[d] = NoSnapshot
       ELSE /\ current[d] \in ofTarget
            /\ \A s \in ofTarget : s.at <= current[d].at

(***************************************************************************)
(* The rows of runtime_database_current of a cluster are those of the very *)
(* snapshot its row of runtime_current shows: no database dropped since is *)
(* left, none is missing and none has another snapshot's values, although  *)
(* five statements of concurrent transactions maintain the two tables.     *)
(***************************************************************************)
CurrentInStep == \A d \in Targets : databaseCurrent[d] = RowsOf(current[d])

(***************************************************************************)
(* A snapshot whose job was told that the write succeeded is in the        *)
(* history: the exit of the unit of work reports success only after COMMIT.*)
(***************************************************************************)
AcknowledgedIsStored == acknowledged \subseteq history

(***************************************************************************)
(* What a reader answers for a cluster is made of two statements, but the  *)
(* database rows are the whole list of one snapshot, captured no earlier   *)
(* than the snapshot its totals come from: a reader between two commits    *)
(* may pair totals with newer databases, never with older or mixed ones.   *)
(***************************************************************************)
ScrapeIsWhole ==
  \A r \in Readers : scrape[r].stage = "served" =>
    \A d \in Targets :
      IF scrape[r].seen[d] = NoSnapshot THEN scrape[r].rows[d] = NoRows
      ELSE \E s \in history :
             /\ s.target = d
             /\ s.at >= scrape[r].seen[d].at
             /\ scrape[r].rows[d] = RowsOf(s)

(***************************************************************************)
(* No step replaces what a cluster shows by an earlier snapshot, or by     *)
(* nothing: a delayed collector cannot take the metrics back in time.      *)
(***************************************************************************)
NeverBack(shown) ==
  \A d \in Targets : shown[d] # NoSnapshot =>
    /\ shown'[d] # NoSnapshot
    /\ shown'[d].at >= shown[d].at

CurrentNeverRegresses == [][NeverBack(current)]_vars

(***************************************************************************)
(* Two successive answers to one reader do not go back in time for a       *)
(* cluster both of them report.                                            *)
(***************************************************************************)
ScrapeMovesForward ==
  [][\A r \in Readers, d \in Targets :
       (scrape[r].seen[d] # NoSnapshot /\ scrape'[r].seen[d] # NoSnapshot) =>
          scrape'[r].seen[d].at >= scrape[r].seen[d].at]_vars

(***************************************************************************)
(* Every write that starts ends, although writers of a cluster wait for    *)
(* one another and any of them may fail or die holding the row.            *)
(***************************************************************************)
WriteEnds == \A w \in Writers : stage[w] # "idle" ~> stage[w] = "idle"

(***************************************************************************)
(* The tables implement the ledger: between commits nothing shows, and a   *)
(* commit is one Record, whether or not its snapshot is the latest.        *)
(***************************************************************************)
Ledger == INSTANCE RuntimeLedger WITH
  ledger <- history,
  board <- [d \in Targets |-> [state |-> current[d], rows |-> databaseCurrent[d]]]

ImplementsLedger == Ledger!LedgerSpec

=============================================================================
