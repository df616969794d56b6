------------------------ MODULE RuntimeStoreProofs ------------------------
(***************************************************************************)
(* Proofs about RuntimeStore for any clusters, databases, times, writers   *)
(* and readers: type correctness, the inductive invariant behind the       *)
(* safety properties, and the implementation of RuntimeLedger.             *)
(***************************************************************************)
EXTENDS RuntimeStore, TLAPS

-----------------------------------------------------------------------------
(* The inductive invariant.                                                *)

(* The stages at which a transaction holds its cluster's row.              *)
Holding == {"check", "delete", "upsert", "flush", "commit"}

(* An open transaction carries a snapshot that has been handed over.       *)
Carrying ==
  \A w \in Writers : stage[w] # "idle" =>
    tx[w].snap \in Snapshots /\ tx[w].snap.of \in begun

(* A transaction past its first upsert holds the row of its cluster, and   *)
(* what the upsert decided still follows from the committed row.           *)
RowHeld(w) ==
  stage[w] \in Holding =>
    /\ lockedBy[Target(w)] = w
    /\ tx[w].wrote <=> Supersedes(tx[w].snap, current[Target(w)])

(* What the transaction has done to the rows, at each of its statements.   *)
Untouched(w) == tx[w].deleted = {} /\ tx[w].upserted = {}

StaleNames(w) ==
  {n \in Names \ tx[w].snap.names : databaseCurrent[Target(w)][n] # NoSnapshot}

RowsReplaced(w) == \A n \in Names : RowSeenBy(w, n) = RowsOf(tx[w].snap)[n]

RowWork(w) ==
  /\ stage[w] \in {"insert", "current"} => Untouched(w) /\ ~tx[w].wrote
  /\ stage[w] = "check" => Untouched(w)
  /\ stage[w] = "delete" => Untouched(w) /\ tx[w].wrote
  /\ stage[w] = "upsert" =>
       tx[w].wrote /\ tx[w].upserted = {} /\ tx[w].deleted = StaleNames(w)
  /\ stage[w] \in {"flush", "commit"} =>
       IF tx[w].wrote THEN RowsReplaced(w) ELSE Untouched(w)
  /\ stage[w] = "commit" => tx[w].rows = tx[w].snap.names

WriterInv == \A w \in Writers : RowHeld(w) /\ RowWork(w)

(* What a reader holds has been committed, for the cluster it stands for.  *)
SeenCommitted ==
  \A r \in Readers, d \in Targets : scrape[r].seen[d] # NoSnapshot =>
    scrape[r].seen[d] \in history /\ scrape[r].seen[d].target = d

Inv ==
  /\ TypeOK
  /\ Carrying
  /\ WriterInv
  /\ HistoryWhole
  /\ CurrentIsLatest
  /\ CurrentInStep
  /\ AcknowledgedIsStored
  /\ SeenCommitted
  /\ ScrapeIsWhole

(* Each collection is handed over once: what the refinement needs besides. *)
Fresh ==
  /\ \A s \in history : s.of \in begun
  /\ \A w \in Writers : stage[w] # "idle" =>
       /\ tx[w].snap.of \in begun
       /\ \A s \in history : s.of # tx[w].snap.of
       /\ \A v \in Writers : v # w /\ stage[v] # "idle" =>
            tx[v].snap.of # tx[w].snap.of

-----------------------------------------------------------------------------
(* Facts about the operators the actions are built from.                   *)

LEMMA NewTransactionType ==
  ASSUME NEW s \in MaybeSnapshot
  PROVE  NewTransaction(s) \in Transactions
BY DEF NewTransaction, Transactions

(* The complete rows of a snapshot are rows.                               *)
LEMMA RowsOfType ==
  ASSUME NEW s \in MaybeSnapshot
  PROVE  RowsOf(s) \in RowSets
BY DEF RowsOf, RowSets, MaybeSnapshot

LEMMA RowSeenByType ==
  ASSUME TypeOK, NEW w \in Writers, tx[w].snap \in Snapshots, NEW n \in Names
  PROVE  RowSeenBy(w, n) \in MaybeSnapshot
BY DEF TypeOK, RowSeenBy, MaybeSnapshot, RowSets, Target, Snapshots, Transactions

(* An open transaction belongs to one of the clusters.                     *)
LEMMA TargetType ==
  ASSUME NEW w \in Writers, tx[w].snap \in Snapshots
  PROVE  Target(w) \in Targets
BY DEF Target, Snapshots

-----------------------------------------------------------------------------
(* Type correctness.                                                       *)

LEMMA InitType == Init => TypeOK /\ Carrying
<1> SUFFICES ASSUME Init PROVE TypeOK /\ Carrying
  OBVIOUS
<1>1. NoRows \in RowSets
  BY DEF NoRows, RowSets, MaybeSnapshot
<1>2. NewTransaction(NoSnapshot) \in Transactions
  BY NewTransactionType DEF MaybeSnapshot
<1>3. NothingSeen \in [Targets -> MaybeSnapshot] /\ NothingRead \in [Targets -> RowSets]
  BY <1>1 DEF NothingSeen, NothingRead, MaybeSnapshot
<1> QED
  BY <1>1, <1>2, <1>3 DEF Init, TypeOK, Carrying, MaybeSnapshot, Stages, Scrapes

LEMMA EndTransactionType ==
  ASSUME TypeOK, Carrying, NEW w \in Writers, EndTransaction(w), UNCHANGED begun
  PROVE  /\ lockedBy' \in [Targets -> Writers \cup {NoWriter}]
         /\ stage' \in [Writers -> Stages]
         /\ tx' \in [Writers -> Transactions]
         /\ Carrying'
<1>1. NewTransaction(NoSnapshot) \in Transactions
  BY NewTransactionType DEF MaybeSnapshot
<1>2. /\ lockedBy' \in [Targets -> Writers \cup {NoWriter}]
      /\ stage' \in [Writers -> Stages]
      /\ tx' \in [Writers -> Transactions]
  BY <1>1 DEF TypeOK, EndTransaction, Release, Stages
<1>3. ASSUME NEW v \in Writers, stage'[v] # "idle"
      PROVE  v # w /\ stage'[v] = stage[v] /\ tx'[v] = tx[v]
  BY <1>3 DEF EndTransaction, TypeOK
<1> QED
  BY <1>2, <1>3 DEF Carrying

LEMMA PublishType ==
  ASSUME TypeOK, NEW w \in Writers, tx[w].snap \in Snapshots, Publish(w)
  PROVE  /\ history' \subseteq Snapshots
         /\ historyRows' \subseteq Snapshots \X Names
         /\ current' \in [Targets -> MaybeSnapshot]
         /\ databaseCurrent' \in [Targets -> RowSets]
<1>1. [n \in Names |-> RowSeenBy(w, n)] \in RowSets
  BY RowSeenByType DEF RowSets
<1>2. tx[w].snap.target \in Targets /\ tx[w].rows \in SUBSET Names
  BY TargetType DEF Target, TypeOK, Transactions
<1> QED
  BY <1>1, <1>2 DEF Publish, TypeOK, MaybeSnapshot

LEMMA TypeStep == TypeOK /\ Carrying /\ [Next]_vars => TypeOK' /\ Carrying'
<1> SUFFICES ASSUME TypeOK, Carrying, [Next]_vars
             PROVE  TypeOK' /\ Carrying'
  OBVIOUS
<1> USE DEF tables, writers
<1>1. ASSUME NEW w \in Writers, Begin(w) PROVE TypeOK' /\ Carrying'
  <2>1. PICK s \in Snapshots : /\ begun' = begun \cup {s.of}
                               /\ tx' = [tx EXCEPT ![w] = NewTransaction(s)]
    BY <1>1 DEF Begin
  <2>2. NewTransaction(s) \in Transactions /\ NewTransaction(s).snap = s
    BY NewTransactionType DEF MaybeSnapshot, NewTransaction
  <2>3. s.of \in Collections
    BY DEF Snapshots
  <2>4. TypeOK'
    BY <1>1, <2>1, <2>2, <2>3 DEF Begin, TypeOK, Stages
  <2>5. Carrying'
    BY <1>1, <2>1, <2>2 DEF Begin, TypeOK, Carrying
  <2> QED BY <2>4, <2>5
<1>2. ASSUME NEW w \in Writers, InsertSnapshot(w) \/ CheckLatest(w) \/ Fail(w)
      PROVE  TypeOK' /\ Carrying'
  <2>1. TypeOK'
    BY <1>2 DEF InsertSnapshot, CheckLatest, Fail, TypeOK, Stages
  <2>2. stage[w] # "idle" /\ tx' = tx /\ begun' = begun
    BY <1>2 DEF InsertSnapshot, CheckLatest, Fail
  <2>3. ASSUME NEW v \in Writers, stage'[v] # "idle" PROVE stage[v] # "idle"
    BY <1>2, <2>2, <2>3 DEF InsertSnapshot, CheckLatest, Fail, TypeOK
  <2> QED BY <2>1, <2>2, <2>3 DEF Carrying
<1>3. ASSUME NEW w \in Writers,
             UpsertCurrent(w) \/ DeleteStale(w) \/ UpsertRows(w) \/ FlushRows(w)
      PROVE  TypeOK' /\ Carrying'
  <2>1. stage[w] # "idle" /\ begun' = begun
    BY <1>3 DEF UpsertCurrent, DeleteStale, UpsertRows, FlushRows
  <2>2. tx[w].snap \in Snapshots /\ tx[w].snap.names \in SUBSET Names
    BY <2>1 DEF Carrying, Snapshots
  <2>3. /\ tx' \in [Writers -> Transactions]
        /\ \A v \in Writers : tx'[v].snap = tx[v].snap
    <3>1. CASE UpsertCurrent(w)
      <4>1. Supersedes(tx[w].snap, current[Target(w)]) \in BOOLEAN
        BY DEF Supersedes
      <4> QED BY <3>1, <4>1 DEF UpsertCurrent, TypeOK, Transactions
    <3>2. CASE DeleteStale(w)
      BY <3>2, <2>2 DEF DeleteStale, TypeOK, Transactions
    <3>3. CASE UpsertRows(w)
      BY <3>3, <2>2 DEF UpsertRows, TypeOK, Transactions
    <3>4. CASE FlushRows(w)
      BY <3>4, <2>2 DEF FlushRows, TypeOK, Transactions
    <3> QED BY <1>3, <3>1, <3>2, <3>3, <3>4
  <2>4. TypeOK'
    BY <1>3, <2>3, <2>2, TargetType
    DEF UpsertCurrent, DeleteStale, UpsertRows, FlushRows, TypeOK, Stages
  <2>5. ASSUME NEW v \in Writers, stage'[v] # "idle" PROVE stage[v] # "idle"
    BY <1>3, <2>1, <2>5 DEF UpsertCurrent, DeleteStale, UpsertRows, FlushRows, TypeOK
  <2> QED BY <2>1, <2>3, <2>4, <2>5 DEF Carrying
<1>4. ASSUME NEW w \in Writers, Commit(w) \/ CommitUnconfirmed(w)
      PROVE  TypeOK' /\ Carrying'
  <2>1. /\ stage[w] = "commit" /\ Publish(w) /\ EndTransaction(w)
        /\ UNCHANGED <<begun, scrape>>
        /\ acknowledged' \subseteq acknowledged \cup {tx[w].snap}
    BY <1>4 DEF Commit, CommitUnconfirmed
  <2>2. tx[w].snap \in Snapshots
    BY <2>1 DEF Carrying
  <2>3. TypeOK'
    BY <2>1, <2>2, EndTransactionType, PublishType DEF TypeOK
  <2> QED BY <2>1, <2>3, EndTransactionType
<1>5. ASSUME NEW w \in Writers, Rollback(w) PROVE TypeOK' /\ Carrying'
  <2>1. EndTransaction(w) /\ UNCHANGED <<tables, begun, acknowledged, scrape>>
    BY <1>5 DEF Rollback
  <2> QED BY <2>1, EndTransactionType DEF TypeOK
<1>6. ASSUME NEW r \in Readers, LoadCurrent(r) \/ LoadDatabases(r) \/ LoadFails(r)
      PROVE  TypeOK' /\ Carrying'
  <2>1. NoSnapshot \in MaybeSnapshot /\ NoRows \in RowSets
    BY DEF MaybeSnapshot, NoRows, RowSets
  <2>2. scrape' \in [Readers -> Scrapes]
    <3>1. CASE LoadCurrent(r)
      <4>1. PICK asked \in Asked :
              scrape' = [scrape EXCEPT ![r] =
                [stage |-> IF [d \in Targets |-> IF d \in asked THEN current[d] ELSE NoSnapshot]
                                = NothingSeen THEN "served" ELSE "databases",
                 seen |-> [d \in Targets |-> IF d \in asked THEN current[d] ELSE NoSnapshot],
                 rows |-> NothingRead]]
        BY <3>1 DEF LoadCurrent
      <4>2. [d \in Targets |-> IF d \in asked THEN current[d] ELSE NoSnapshot]
              \in [Targets -> MaybeSnapshot]
        BY <2>1 DEF TypeOK
      <4>3. NothingRead \in [Targets -> RowSets]
        BY <2>1 DEF NothingRead
      <4> QED BY <4>1, <4>2, <4>3 DEF TypeOK, Scrapes
    <3>2. CASE LoadDatabases(r)
      <4>1. [d \in Targets |->
               IF scrape[r].seen[d] # NoSnapshot THEN databaseCurrent[d] ELSE NoRows]
              \in [Targets -> RowSets]
        BY <2>1 DEF TypeOK
      <4> QED BY <3>2, <4>1 DEF LoadDatabases, TypeOK, Scrapes
    <3>3. CASE LoadFails(r)
      BY <3>3, <2>1 DEF LoadFails, TypeOK, Scrapes, NothingSeen, NothingRead
    <3> QED BY <1>6, <3>1, <3>2, <3>3
  <2>3. UNCHANGED <<tables, writers>>
    BY <1>6 DEF LoadCurrent, LoadDatabases, LoadFails
  <2> QED BY <2>2, <2>3 DEF TypeOK, Carrying
<1>7. CASE UNCHANGED vars
  BY <1>7 DEF vars, TypeOK, Carrying
<1> QED BY <1>1, <1>2, <1>3, <1>4, <1>5, <1>6, <1>7 DEF Next, Proceed

(***************************************************************************)
(* Tables, transactions and readers hold values of their kind in every     *)
(* reachable state, for any sets of clusters, databases, times and writers.*)
(***************************************************************************)
THEOREM TypeCorrect == Spec => []TypeOK
<1>1. Init => TypeOK /\ Carrying
  BY InitType
<1>2. TypeOK /\ Carrying /\ [Next]_vars => TypeOK' /\ Carrying'
  BY TypeStep
<1> QED BY <1>1, <1>2, PTL DEF Spec

-----------------------------------------------------------------------------
(* Safety.                                                                 *)

LEMMA InitInv == Init => Inv
<1> SUFFICES ASSUME Init PROVE Inv
  OBVIOUS
<1>1. TypeOK /\ Carrying
  BY InitType
<1>2. WriterInv /\ SeenCommitted /\ ScrapeIsWhole
  BY DEF Init, WriterInv, RowHeld, RowWork, Holding, SeenCommitted, ScrapeIsWhole,
         NothingSeen
<1>3. HistoryWhole /\ CurrentIsLatest /\ AcknowledgedIsStored
  BY DEF Init, HistoryWhole, CurrentIsLatest, AcknowledgedIsStored
<1>4. CurrentInStep
  BY DEF Init, CurrentInStep, RowsOf, NoRows
<1> QED BY <1>1, <1>2, <1>3, <1>4 DEF Inv

(* The claims about a writer survive a step that is another's.             *)
LEMMA OtherWriter ==
  ASSUME NEW v \in Writers, RowHeld(v), RowWork(v),
         stage'[v] = stage[v], tx'[v] = tx[v],
         stage[v] \in Holding => /\ lockedBy'[Target(v)] = v
                                 /\ current'[Target(v)] = current[Target(v)]
                                 /\ databaseCurrent'[Target(v)] = databaseCurrent[Target(v)]
  PROVE  RowHeld(v)' /\ RowWork(v)'
<1>1. RowHeld(v)'
  BY DEF RowHeld, Target
<1>2. Untouched(v)' <=> Untouched(v)
  BY DEF Untouched
<1>3. stage[v] = "upsert" => StaleNames(v)' = StaleNames(v)
  BY DEF StaleNames, Target, Holding
<1>4. stage[v] \in {"flush", "commit"} => (RowsReplaced(v)' <=> RowsReplaced(v))
  BY DEF RowsReplaced, RowSeenBy, Target, Holding
<1>5. RowWork(v)'
  BY <1>2, <1>3, <1>4 DEF RowWork
<1> QED BY <1>1, <1>5

(* Neither do steps that leave the tables, the readers and the jobs'       *)
(* answers alone disturb what Inv says of them.                            *)
LEMMA TablesKept ==
  ASSUME Inv, UNCHANGED <<tables, scrape, acknowledged>>
  PROVE  /\ HistoryWhole' /\ CurrentIsLatest' /\ CurrentInStep'
         /\ AcknowledgedIsStored' /\ SeenCommitted' /\ ScrapeIsWhole'
BY DEF Inv, tables, HistoryWhole, CurrentIsLatest, CurrentInStep,
       AcknowledgedIsStored, SeenCommitted, ScrapeIsWhole

(* The rows of a cluster that a writer at its row upsert finds are those   *)
(* of a snapshot its own supersedes, so it replaces all of them.           *)
LEMMA UpsertsAll ==
  ASSUME Inv, NEW w \in Writers, stage[w] = "upsert"
  PROVE  {n \in tx[w].snap.names : Supersedes(tx[w].snap, RowSeenBy(w, n))}
           = tx[w].snap.names
<1>1. tx[w].snap \in Snapshots /\ Target(w) \in Targets /\ tx[w].snap.names \subseteq Names
  BY TargetType DEF Inv, Carrying, Snapshots
<1>2. /\ tx[w].upserted = {} /\ tx[w].deleted = StaleNames(w)
      /\ Supersedes(tx[w].snap, current[Target(w)])
  BY DEF Inv, WriterInv, RowWork, RowHeld, Holding
<1>3. ASSUME NEW n \in tx[w].snap.names
      PROVE  Supersedes(tx[w].snap, RowSeenBy(w, n))
  <2>1. RowSeenBy(w, n) = RowsOf(current[Target(w)])[n]
    BY <1>1, <1>2 DEF RowSeenBy, StaleNames, Inv, CurrentInStep
  <2>2. RowSeenBy(w, n) \in {NoSnapshot, current[Target(w)]}
    BY <1>1, <2>1 DEF RowsOf
  <2> QED BY <1>2, <2>2 DEF Supersedes
<1> QED BY <1>3

(* What a commit shows: its snapshot whole, or nothing new.                *)
LEMMA PublishShows ==
  ASSUME Inv, NEW w \in Writers, stage[w] = "commit", Publish(w)
  PROVE  LET s == tx[w].snap IN
         /\ s \in Snapshots
         /\ history' = history \cup {s}
         /\ historyRows' = historyRows \cup {<<s, n>> : n \in s.names}
         /\ IF Supersedes(s, current[s.target])
              THEN /\ current' = [current EXCEPT ![s.target] = s]
                   /\ databaseCurrent' = [databaseCurrent EXCEPT ![s.target] = RowsOf(s)]
              ELSE UNCHANGED <<current, databaseCurrent>>
<1> DEFINE s == tx[w].snap
<1>1. s \in Snapshots /\ s.target \in Targets /\ s.target = Target(w)
  BY TargetType DEF Inv, Carrying, Target
<1>2. /\ tx[w].rows = s.names
      /\ tx[w].wrote <=> Supersedes(s, current[s.target])
      /\ IF tx[w].wrote THEN RowsReplaced(w) ELSE Untouched(w)
  BY <1>1 DEF Inv, WriterInv, RowWork, RowHeld, Holding
<1>3. CASE tx[w].wrote
  <2>1. [n \in Names |-> RowSeenBy(w, n)] = RowsOf(s)
    BY <1>2, <1>3 DEF RowsReplaced, RowsOf
  <2> QED BY <1>1, <1>2, <1>3, <2>1 DEF Publish
<1>4. CASE ~tx[w].wrote
  <2>1. databaseCurrent[s.target] \in RowSets
    BY <1>1 DEF Inv, TypeOK
  <2>2. [n \in Names |-> RowSeenBy(w, n)] = databaseCurrent[s.target]
    BY <1>1, <1>2, <1>4, <2>1 DEF Untouched, RowSeenBy, RowSets
  <2>3. databaseCurrent' = databaseCurrent
    BY <1>1, <2>2 DEF Publish, Inv, TypeOK
  <2> QED BY <1>1, <1>2, <1>4, <2>3 DEF Publish
<1> QED BY <1>3, <1>4

(* A committed snapshot leaves the safety of the tables and readers intact.*)
LEMMA PublishSafe ==
  ASSUME Inv, NEW w \in Writers, stage[w] = "commit", Publish(w),
         UNCHANGED scrape, acknowledged' \subseteq acknowledged \cup {tx[w].snap}
  PROVE  /\ HistoryWhole' /\ CurrentIsLatest' /\ CurrentInStep'
         /\ AcknowledgedIsStored' /\ SeenCommitted' /\ ScrapeIsWhole'
<1> DEFINE s == tx[w].snap
<1>1. /\ s \in Snapshots
      /\ history' = history \cup {s}
      /\ historyRows' = historyRows \cup {<<s, n>> : n \in s.names}
      /\ IF Supersedes(s, current[s.target])
           THEN /\ current' = [current EXCEPT ![s.target] = s]
                /\ databaseCurrent' = [databaseCurrent EXCEPT ![s.target] = RowsOf(s)]
           ELSE UNCHANGED <<current, databaseCurrent>>
  BY PublishShows
<1>2. s.target \in Targets /\ s.at \in Int /\ s.names \subseteq Names /\ s # NoSnapshot
  BY <1>1, TimesAssumption, NoSnapshotAssumption DEF Snapshots
<1> HIDE DEF s
<1>3. HistoryWhole'
  BY <1>1, <1>2 DEF Inv, HistoryWhole
<1>4. CurrentInStep'
  BY <1>1, <1>2 DEF Inv, TypeOK, CurrentInStep
<1>5. ASSUME NEW d \in Targets
      PROVE  LET ofTarget == {x \in history' : x.target = d}
             IN IF ofTarget = {} THEN current'[d] = NoSnapshot
                ELSE /\ current'[d] \in ofTarget
                     /\ \A x \in ofTarget : x.at <= current'[d].at
  <2> DEFINE before == {x \in history : x.target = d}
             after  == {x \in history' : x.target = d}
  <2>1. IF before = {} THEN current[d] = NoSnapshot
        ELSE current[d] \in before /\ \A x \in before : x.at <= current[d].at
    BY DEF Inv, CurrentIsLatest
  <2>2. \A x \in history : x \in Snapshots /\ x.at \in Int /\ x # NoSnapshot
    BY TimesAssumption, NoSnapshotAssumption DEF Inv, TypeOK, Snapshots
  <2>3. CASE d # s.target
    <3>1. after = before
      BY <1>1, <2>3
    <3>2. current'[d] = current[d]
      BY <1>1, <2>3 DEF Inv, TypeOK
    <3> QED BY <2>1, <3>1, <3>2
  <2>4. CASE d = s.target /\ Supersedes(s, current[d])
    <3>1. after = before \cup {s}
      BY <1>1, <2>4
    <3>2. current'[d] = s
      BY <1>1, <2>4 DEF Inv, TypeOK
    <3>3. \A x \in before : x.at <= s.at
      BY <1>2, <2>1, <2>2, <2>4 DEF Supersedes
    <3> QED BY <1>2, <3>1, <3>2, <3>3
  <2>5. CASE d = s.target /\ ~Supersedes(s, current[d])
    <3>1. after = before \cup {s}
      BY <1>1, <2>5
    <3>2. current'[d] = current[d] /\ current[d] # NoSnapshot
      BY <1>1, <2>5 DEF Supersedes
    <3>3. current[d] \in before
      BY <2>1, <3>2
    <3>4. s.at <= current[d].at
      BY <1>2, <2>2, <2>5, <3>3 DEF Supersedes
    <3> QED BY <2>1, <3>1, <3>2, <3>3, <3>4
  <2> QED BY <2>3, <2>4, <2>5
<1>6. CurrentIsLatest'
  BY <1>5 DEF CurrentIsLatest
<1>7. AcknowledgedIsStored'
  BY <1>1 DEF Inv, AcknowledgedIsStored, s
<1>8. SeenCommitted' /\ ScrapeIsWhole'
  BY <1>1 DEF Inv, SeenCommitted, ScrapeIsWhole
<1> QED BY <1>3, <1>4, <1>6, <1>7, <1>8

LEMMA InvStep == Inv /\ [Next]_vars => Inv'
<1> SUFFICES ASSUME Inv, [Next]_vars PROVE Inv'
  OBVIOUS
<1> USE DEF tables, writers
<1>1. TypeOK' /\ Carrying'
  BY TypeStep DEF Inv
<1>2. \A v \in Writers : RowHeld(v) /\ RowWork(v)
  BY DEF Inv, WriterInv
<1>3. ASSUME NEW w \in Writers,
             Begin(w) \/ InsertSnapshot(w) \/ CheckLatest(w) \/ DeleteStale(w)
               \/ UpsertRows(w) \/ FlushRows(w) \/ Fail(w)
      PROVE  Inv'
  <2>1. UNCHANGED <<tables, lockedBy, acknowledged, scrape>>
    BY <1>3 DEF Begin, InsertSnapshot, CheckLatest, DeleteStale, UpsertRows, FlushRows, Fail
  <2>2. ASSUME NEW v \in Writers, v # w PROVE RowHeld(v)' /\ RowWork(v)'
    <3>1. stage'[v] = stage[v] /\ tx'[v] = tx[v]
      BY <1>3, <2>2 DEF Begin, InsertSnapshot, CheckLatest, DeleteStale, UpsertRows,
                        FlushRows, Fail, Inv, TypeOK
    <3>2. stage[v] \in Holding => lockedBy'[Target(v)] = v
      BY <1>2, <2>1 DEF RowHeld
    <3> QED BY <1>2, <2>1, <3>1, <3>2, OtherWriter
  <2>3. RowHeld(w)' /\ RowWork(w)'
    <3>1. CASE Begin(w)
      BY <3>1 DEF Begin, Inv, TypeOK, RowHeld, RowWork, Holding, Untouched, NewTransaction
    <3>2. CASE InsertSnapshot(w)
      BY <3>2, <1>2 DEF InsertSnapshot, Inv, TypeOK, RowHeld, RowWork, Holding, Untouched
    <3>3. CASE CheckLatest(w)
      <4>1. stage[w] = "check" /\ tx'[w] = tx[w] /\ Untouched(w)' /\ tx[w].snap \in Snapshots
        BY <3>3, <1>2 DEF CheckLatest, RowWork, Untouched, Inv, Carrying
      <4>2. tx[w].wrote <=> Supersedes(tx[w].snap, current[Target(w)])
        BY <4>1, <1>2 DEF RowHeld, Holding
      <4>3. tx[w].snap.at >= tx[w].snap.at
        <5>1. tx[w].snap.at \in Int
          BY <4>1, TimesAssumption DEF Snapshots
        <5> QED BY <5>1
      <4>4. stage'[w] = IF tx[w].wrote THEN "delete" ELSE "flush"
        BY <3>3, <4>2, <4>3 DEF CheckLatest, CurrentSeenBy, Supersedes, Inv, TypeOK
      <4>5. RowHeld(w)'
        BY <1>2, <2>1, <4>1 DEF RowHeld, Holding, Target
      <4> QED BY <4>1, <4>4, <4>5 DEF RowWork
    <3>4. CASE DeleteStale(w)
      <4>1. /\ stage[w] = "delete" /\ tx[w].wrote /\ Untouched(w)
            /\ tx'[w] = [tx[w] EXCEPT !.deleted =
                 {n \in Names \ tx[w].snap.names : RowSeenBy(w, n) # NoSnapshot}]
            /\ stage'[w] = IF tx[w].snap.names = {} THEN "flush" ELSE "upsert"
        BY <3>4, <1>2 DEF DeleteStale, RowWork, Inv, TypeOK
      <4>2. /\ tx'[w].snap = tx[w].snap /\ tx'[w].wrote /\ tx'[w].upserted = {}
            /\ tx'[w].deleted = StaleNames(w)
        BY <4>1 DEF Inv, TypeOK, Transactions, Untouched, RowSeenBy, StaleNames
      <4>3. RowHeld(w)'
        BY <1>2, <2>1, <4>1, <4>2 DEF RowHeld, Holding, Target
      <4>4. StaleNames(w)' = StaleNames(w)
        BY <2>1, <4>2 DEF StaleNames, Target
      <4>5. tx[w].snap.names = {} => RowsReplaced(w)'
        BY <2>1, <4>2 DEF RowsReplaced, RowsOf, RowSeenBy, StaleNames, Target
      <4> QED BY <4>1, <4>2, <4>3, <4>4, <4>5 DEF RowWork
    <3>5. CASE UpsertRows(w)
      <4>1. /\ stage[w] = "upsert" /\ tx[w].wrote /\ tx[w].deleted = StaleNames(w)
            /\ tx'[w] = [tx[w] EXCEPT !.upserted = tx[w].snap.names]
            /\ stage'[w] = "flush"
        BY <3>5, <1>2, UpsertsAll DEF UpsertRows, RowWork, Inv, TypeOK
      <4>2. /\ tx'[w].snap = tx[w].snap /\ tx'[w].wrote
            /\ tx'[w].upserted = tx[w].snap.names /\ tx'[w].deleted = StaleNames(w)
        BY <4>1 DEF Inv, TypeOK, Transactions
      <4>3. RowHeld(w)'
        BY <1>2, <2>1, <4>1, <4>2 DEF RowHeld, Holding, Target
      <4>4. tx[w].snap # NoSnapshot
        BY <4>1, NoSnapshotAssumption DEF Inv, Carrying
      <4>5. RowsReplaced(w)'
        BY <2>1, <4>2, <4>4 DEF RowsReplaced, RowsOf, RowSeenBy, StaleNames, Target
      <4> QED BY <4>1, <4>2, <4>3, <4>5 DEF RowWork
    <3>6. CASE FlushRows(w)
      <4>1. /\ stage[w] = "flush" /\ stage'[w] = "commit"
            /\ tx'[w] = [tx[w] EXCEPT !.rows = tx[w].snap.names]
        BY <3>6 DEF FlushRows, Inv, TypeOK
      <4>2. /\ tx'[w].snap = tx[w].snap /\ tx'[w].wrote = tx[w].wrote
            /\ tx'[w].upserted = tx[w].upserted /\ tx'[w].deleted = tx[w].deleted
            /\ tx'[w].rows = tx[w].snap.names
        BY <4>1 DEF Inv, TypeOK, Transactions
      <4>3. RowHeld(w)'
        BY <1>2, <2>1, <4>1, <4>2 DEF RowHeld, Holding, Target
      <4>4. (RowsReplaced(w)' <=> RowsReplaced(w)) /\ (Untouched(w)' <=> Untouched(w))
        BY <2>1, <4>2 DEF RowsReplaced, RowSeenBy, Untouched, Target
      <4> QED BY <1>2, <4>1, <4>2, <4>3, <4>4 DEF RowWork
    <3>7. CASE Fail(w)
      BY <3>7 DEF Fail, Inv, TypeOK, RowHeld, RowWork, Holding
    <3> QED BY <1>3, <3>1, <3>2, <3>3, <3>4, <3>5, <3>6, <3>7
  <2>4. WriterInv'
    BY <2>2, <2>3 DEF WriterInv
  <2> QED BY <1>1, <2>1, <2>4, TablesKept DEF Inv
<1>4. ASSUME NEW w \in Writers, UpsertCurrent(w) PROVE Inv'
  <2>1. /\ UNCHANGED <<tables, begun, acknowledged, scrape>>
        /\ stage[w] = "current" /\ stage' = [stage EXCEPT ![w] = "check"]
        /\ lockedBy[Target(w)] = NoWriter /\ lockedBy' = [lockedBy EXCEPT ![Target(w)] = w]
        /\ tx' = [tx EXCEPT ![w].wrote = Supersedes(tx[w].snap, current[Target(w)])]
    BY <1>4 DEF UpsertCurrent
  <2>2. Target(w) \in Targets
    BY <2>1, TargetType DEF Inv, Carrying
  <2>3. ASSUME NEW v \in Writers, v # w PROVE RowHeld(v)' /\ RowWork(v)'
    <3>1. stage'[v] = stage[v] /\ tx'[v] = tx[v]
      BY <2>1, <2>3 DEF Inv, TypeOK
    <3>2. stage[v] \in Holding => lockedBy[Target(v)] = v /\ Target(v) # Target(w)
      BY <1>2, <2>1, NoWriterAssumption DEF RowHeld
    <3>3. stage[v] \in Holding => lockedBy'[Target(v)] = v
      BY <2>1, <3>2 DEF Inv, TypeOK
    <3> QED BY <1>2, <2>1, <3>1, <3>3, OtherWriter
  <2>4. RowHeld(w)' /\ RowWork(w)'
    <3>1. /\ tx'[w].snap = tx[w].snap /\ tx'[w].upserted = tx[w].upserted
          /\ tx'[w].deleted = tx[w].deleted
          /\ tx'[w].wrote = Supersedes(tx[w].snap, current[Target(w)])
          /\ stage'[w] = "check" /\ lockedBy'[Target(w)] = w
      BY <2>1, <2>2 DEF Inv, TypeOK, Transactions
    <3>2. Untouched(w)'
      BY <1>2, <2>1, <3>1 DEF RowWork, Untouched
    <3> QED BY <2>1, <3>1, <3>2 DEF RowHeld, RowWork, Target
  <2>5. WriterInv'
    BY <2>3, <2>4 DEF WriterInv
  <2> QED BY <1>1, <2>1, <2>5, TablesKept DEF Inv
<1>5. ASSUME NEW w \in Writers, Commit(w) \/ CommitUnconfirmed(w) PROVE Inv'
  <2>1. /\ stage[w] = "commit" /\ Publish(w) /\ EndTransaction(w)
        /\ UNCHANGED <<begun, scrape>>
        /\ acknowledged' \subseteq acknowledged \cup {tx[w].snap}
    BY <1>5 DEF Commit, CommitUnconfirmed
  <2>2. lockedBy[Target(w)] = w /\ Target(w) = tx[w].snap.target
    BY <1>2, <2>1 DEF RowHeld, Holding, Target
  <2>3. ASSUME NEW v \in Writers, v # w PROVE RowHeld(v)' /\ RowWork(v)'
    <3>1. stage'[v] = stage[v] /\ tx'[v] = tx[v]
      BY <2>1, <2>3 DEF EndTransaction, Inv, TypeOK
    <3>2. ASSUME stage[v] \in Holding
          PROVE  /\ lockedBy'[Target(v)] = v
                 /\ current'[Target(v)] = current[Target(v)]
                 /\ databaseCurrent'[Target(v)] = databaseCurrent[Target(v)]
      <4>1. lockedBy[Target(v)] = v /\ Target(v) # Target(w)
        BY <1>2, <2>2, <2>3, <3>2 DEF RowHeld
      <4>2. Target(v) \in Targets
        BY <3>2, TargetType DEF Inv, Carrying, Holding
      <4>3. lockedBy'[Target(v)] = v
        BY <2>1, <2>3, <4>1, <4>2 DEF EndTransaction, Release
      <4>4. /\ current'[Target(v)] = current[Target(v)]
            /\ databaseCurrent'[Target(v)] = databaseCurrent[Target(v)]
        BY <2>1, <2>2, <4>1, <4>2 DEF Publish, Inv, TypeOK
      <4> QED BY <4>3, <4>4
    <3> QED BY <1>2, <3>1, <3>2, OtherWriter
  <2>4. RowHeld(w)' /\ RowWork(w)'
    BY <2>1 DEF EndTransaction, Inv, TypeOK, RowHeld, RowWork, Holding
  <2>5. WriterInv'
    BY <2>3, <2>4 DEF WriterInv
  <2> QED BY <1>1, <2>1, <2>5, PublishSafe DEF Inv
<1>6. ASSUME NEW w \in Writers, Rollback(w) PROVE Inv'
  <2>1. EndTransaction(w) /\ UNCHANGED <<tables, begun, acknowledged, scrape>>
    BY <1>6 DEF Rollback
  <2>2. ASSUME NEW v \in Writers, v # w PROVE RowHeld(v)' /\ RowWork(v)'
    <3>1. stage'[v] = stage[v] /\ tx'[v] = tx[v]
      BY <2>1, <2>2 DEF EndTransaction, Inv, TypeOK
    <3>2. ASSUME stage[v] \in Holding PROVE lockedBy'[Target(v)] = v
      <4>1. lockedBy[Target(v)] = v /\ Target(v) \in Targets
        BY <1>2, <3>2, TargetType DEF RowHeld, Inv, Carrying, Holding
      <4> QED BY <2>1, <2>2, <4>1 DEF EndTransaction, Release
    <3> QED BY <1>2, <2>1, <3>1, <3>2, OtherWriter
  <2>3. RowHeld(w)' /\ RowWork(w)'
    BY <2>1 DEF EndTransaction, Inv, TypeOK, RowHeld, RowWork, Holding
  <2>4. WriterInv'
    BY <2>2, <2>3 DEF WriterInv
  <2> QED BY <1>1, <2>1, <2>4, TablesKept DEF Inv
<1>7. ASSUME NEW r \in Readers, LoadCurrent(r) \/ LoadDatabases(r) \/ LoadFails(r)
      PROVE  Inv'
  <2>1. UNCHANGED <<tables, writers>>
    BY <1>7 DEF LoadCurrent, LoadDatabases, LoadFails
  <2>2. /\ WriterInv' /\ HistoryWhole' /\ CurrentIsLatest' /\ CurrentInStep'
        /\ AcknowledgedIsStored'
    <3>1. WriterInv'
      BY <1>2, <2>1, OtherWriter DEF WriterInv, RowHeld
    <3> QED BY <2>1, <3>1 DEF Inv, HistoryWhole, CurrentIsLatest, CurrentInStep,
                             AcknowledgedIsStored
  <2>3. ASSUME NEW q \in Readers, q # r PROVE scrape'[q] = scrape[q]
    BY <1>7, <2>3 DEF LoadCurrent, LoadDatabases, LoadFails, Inv, TypeOK
  <2>4. ASSUME NEW d \in Targets, scrape'[r].seen[d] # NoSnapshot
        PROVE  scrape'[r].seen[d] \in history /\ scrape'[r].seen[d].target = d
    <3>1. CASE LoadCurrent(r)
      <4>1. scrape'[r].seen[d] \in {current[d], NoSnapshot}
        BY <3>1 DEF LoadCurrent, Inv, TypeOK
      <4> QED BY <2>4, <4>1 DEF Inv, CurrentIsLatest
    <3>2. CASE LoadDatabases(r)
      BY <2>4, <3>2 DEF LoadDatabases, Inv, TypeOK, Scrapes, SeenCommitted
    <3>3. CASE LoadFails(r)
      BY <2>4, <3>3 DEF LoadFails, Inv, TypeOK, NothingSeen
    <3> QED BY <1>7, <3>1, <3>2, <3>3
  <2>5. SeenCommitted'
    BY <2>1, <2>3, <2>4 DEF Inv, SeenCommitted
  <2>6. ASSUME NEW d \in Targets, scrape'[r].stage = "served"
        PROVE  IF scrape'[r].seen[d] = NoSnapshot THEN scrape'[r].rows[d] = NoRows
               ELSE \E s \in history : /\ s.target = d
                                       /\ s.at >= scrape'[r].seen[d].at
                                       /\ scrape'[r].rows[d] = RowsOf(s)
    <3>1. CASE LoadCurrent(r)
      BY <2>6, <3>1 DEF LoadCurrent, Inv, TypeOK, NothingSeen, NothingRead
    <3>2. CASE LoadDatabases(r)
      <4>1. /\ scrape'[r].seen = scrape[r].seen
            /\ scrape'[r].rows[d] =
                 IF scrape[r].seen[d] # NoSnapshot THEN databaseCurrent[d] ELSE NoRows
        BY <3>2 DEF LoadDatabases, Inv, TypeOK, Scrapes
      <4>2. CASE scrape[r].seen[d] # NoSnapshot
        <5>1. scrape[r].seen[d] \in history /\ scrape[r].seen[d].target = d
          BY <4>2 DEF Inv, SeenCommitted
        <5>2. /\ current[d] \in history /\ current[d].target = d
              /\ scrape[r].seen[d].at <= current[d].at
          BY <5>1 DEF Inv, CurrentIsLatest
        <5>3. current[d].at \in Int /\ scrape[r].seen[d].at \in Int
          BY <5>1, <5>2, TimesAssumption DEF Inv, TypeOK, Snapshots
        <5> QED BY <4>1, <4>2, <5>2, <5>3 DEF Inv, CurrentInStep
      <4> QED BY <4>1, <4>2
    <3>3. CASE LoadFails(r)
      BY <2>6, <3>3 DEF LoadFails, Inv, TypeOK
    <3> QED BY <1>7, <3>1, <3>2, <3>3
  <2>7. ScrapeIsWhole'
    <3> SUFFICES ASSUME NEW q \in Readers, scrape'[q].stage = "served", NEW d \in Targets
                 PROVE  IF scrape'[q].seen[d] = NoSnapshot THEN scrape'[q].rows[d] = NoRows
                        ELSE \E s \in history : /\ s.target = d
                                                /\ s.at >= scrape'[q].seen[d].at
                                                /\ scrape'[q].rows[d] = RowsOf(s)
      BY <2>1 DEF ScrapeIsWhole
    <3>1. CASE q = r
      BY <2>6, <3>1
    <3>2. CASE q # r
      BY <2>3, <3>2 DEF Inv, ScrapeIsWhole
    <3> QED BY <3>1, <3>2
  <2> QED BY <1>1, <2>2, <2>5, <2>7 DEF Inv
<1>8. CASE UNCHANGED vars
  <2>1. WriterInv'
    BY <1>2, <1>8, OtherWriter DEF vars, WriterInv, RowHeld
  <2> QED BY <1>1, <1>8, <2>1, TablesKept DEF Inv, vars
<1> QED BY <1>3, <1>4, <1>5, <1>6, <1>7, <1>8 DEF Next, Proceed

THEOREM Invariance == Spec => []Inv
BY InitInv, InvStep, PTL DEF Spec

(***************************************************************************)
(* The history never holds part of a snapshot.                             *)
(***************************************************************************)
THEOREM HistoryIsWhole == Spec => []HistoryWhole
<1>1. Inv => HistoryWhole
  BY DEF Inv
<1> QED BY <1>1, Invariance, PTL

(***************************************************************************)
(* runtime_current always shows a latest snapshot of the history.          *)
(***************************************************************************)
THEOREM CurrentIsTheLatest == Spec => []CurrentIsLatest
<1>1. Inv => CurrentIsLatest
  BY DEF Inv
<1> QED BY <1>1, Invariance, PTL

(***************************************************************************)
(* The database rows of a cluster are those of the snapshot it shows.      *)
(***************************************************************************)
THEOREM CurrentStaysInStep == Spec => []CurrentInStep
<1>1. Inv => CurrentInStep
  BY DEF Inv
<1> QED BY <1>1, Invariance, PTL

(***************************************************************************)
(* A write reported as successful is in the history.                       *)
(***************************************************************************)
THEOREM AcknowledgedStored == Spec => []AcknowledgedIsStored
<1>1. Inv => AcknowledgedIsStored
  BY DEF Inv
<1> QED BY <1>1, Invariance, PTL

(***************************************************************************)
(* A reader's two statements return the totals of one snapshot and all the *)
(* databases of that one or of a later one.                                *)
(***************************************************************************)
THEOREM ScrapesAreWhole == Spec => []ScrapeIsWhole
<1>1. Inv => ScrapeIsWhole
  BY DEF Inv
<1> QED BY <1>1, Invariance, PTL

-----------------------------------------------------------------------------
(* Action properties.                                                      *)

(* A step leaves what is shown alone, or is the commit of a snapshot that  *)
(* supersedes it.                                                          *)
LEMMA CurrentStep ==
  ASSUME Inv, [Next]_vars
  PROVE  \/ UNCHANGED <<history, current, databaseCurrent>>
         \/ \E w \in Writers : stage[w] = "commit" /\ Publish(w)
<1> USE DEF tables
<1>1. ASSUME NEW w \in Writers, Begin(w) \/ Proceed(w) \/ Fail(w)
      PROVE  \/ UNCHANGED <<history, current, databaseCurrent>>
             \/ stage[w] = "commit" /\ Publish(w)
  BY <1>1 DEF Begin, Proceed, InsertSnapshot, UpsertCurrent, CheckLatest, DeleteStale,
              UpsertRows, FlushRows, Commit, CommitUnconfirmed, Rollback, Fail
<1>2. ASSUME NEW r \in Readers, LoadCurrent(r) \/ LoadDatabases(r) \/ LoadFails(r)
      PROVE  UNCHANGED <<history, current, databaseCurrent>>
  BY <1>2 DEF LoadCurrent, LoadDatabases, LoadFails
<1>3. CASE UNCHANGED vars
  BY <1>3 DEF vars
<1> QED BY <1>1, <1>2, <1>3 DEF Next

LEMMA NeverBackStep == Inv /\ [Next]_vars => NeverBack(current)
<1> SUFFICES ASSUME Inv, [Next]_vars, NEW d \in Targets, current[d] # NoSnapshot
             PROVE  current'[d] # NoSnapshot /\ current'[d].at >= current[d].at
  BY DEF NeverBack
<1>1. current[d].at \in Int
  BY TimesAssumption DEF Inv, TypeOK, MaybeSnapshot, Snapshots
<1>2. CASE UNCHANGED <<history, current, databaseCurrent>>
  BY <1>1, <1>2
<1>3. ASSUME NEW w \in Writers, stage[w] = "commit", Publish(w)
      PROVE  current'[d] # NoSnapshot /\ current'[d].at >= current[d].at
  <2> DEFINE s == tx[w].snap
  <2>1. /\ s \in Snapshots
        /\ IF Supersedes(s, current[s.target])
             THEN current' = [current EXCEPT ![s.target] = s]
             ELSE current' = current
    BY <1>3, PublishShows
  <2>2. s # NoSnapshot
    BY <2>1, NoSnapshotAssumption
  <2>3. CASE d = s.target /\ Supersedes(s, current[d])
    BY <2>1, <2>2, <2>3 DEF Supersedes, Inv, TypeOK
  <2>4. CASE ~(d = s.target /\ Supersedes(s, current[d]))
    <3>1. current'[d] = current[d]
      BY <2>1, <2>4 DEF Inv, TypeOK
    <3> QED BY <1>1, <3>1
  <2> QED BY <2>3, <2>4
<1> QED BY <1>2, <1>3, CurrentStep

(***************************************************************************)
(* No step takes the state shown for a cluster back in time.               *)
(***************************************************************************)
THEOREM CurrentMonotone == Spec => CurrentNeverRegresses
<1>1. Inv /\ [Next]_vars => [NeverBack(current)]_vars
  BY NeverBackStep
<1> QED BY <1>1, Invariance, PTL DEF Spec, CurrentNeverRegresses

(***************************************************************************)
(* Nor does a reader's next answer go back.                                *)
(***************************************************************************)
THEOREM ScrapeMonotone == Spec => ScrapeMovesForward
<1>1. Inv /\ [Next]_vars =>
        [\A r \in Readers, d \in Targets :
           (scrape[r].seen[d] # NoSnapshot /\ scrape'[r].seen[d] # NoSnapshot) =>
              scrape'[r].seen[d].at >= scrape[r].seen[d].at]_vars
  <2> SUFFICES ASSUME Inv, [Next]_vars, NEW r \in Readers, NEW d \in Targets,
                      scrape[r].seen[d] # NoSnapshot, scrape'[r].seen[d] # NoSnapshot
               PROVE  scrape'[r].seen[d].at >= scrape[r].seen[d].at
    OBVIOUS
  <2>1. scrape[r].seen[d] \in history /\ scrape[r].seen[d].target = d
    BY DEF Inv, SeenCommitted
  <2>2. current[d].at >= scrape[r].seen[d].at /\ current[d] \in history
    <3>1. current[d] \in history /\ scrape[r].seen[d].at <= current[d].at
      BY <2>1 DEF Inv, CurrentIsLatest
    <3>2. current[d].at \in Int /\ scrape[r].seen[d].at \in Int
      BY <2>1, <3>1, TimesAssumption DEF Inv, TypeOK, Snapshots
    <3> QED BY <3>1, <3>2
  <2>3. scrape[r].seen[d].at \in Int
    BY <2>1, TimesAssumption DEF Inv, TypeOK, Snapshots
  <2>4. scrape'[r].seen[d] \in {scrape[r].seen[d], current[d], NoSnapshot}
    <3>1. ASSUME NEW q \in Readers, LoadCurrent(q) \/ LoadDatabases(q) \/ LoadFails(q)
          PROVE  scrape'[r].seen[d] \in {scrape[r].seen[d], current[d], NoSnapshot}
      <4>1. CASE LoadCurrent(q)
        BY <4>1 DEF LoadCurrent, Inv, TypeOK
      <4>2. CASE LoadDatabases(q)
        BY <4>2 DEF LoadDatabases, Inv, TypeOK, Scrapes
      <4>3. CASE LoadFails(q)
        BY <4>3 DEF LoadFails, NothingSeen, Inv, TypeOK
      <4> QED BY <3>1, <4>1, <4>2, <4>3
    <3>2. ASSUME NEW w \in Writers, Begin(w) \/ Proceed(w) \/ Fail(w)
          PROVE  scrape' = scrape
      BY <3>2 DEF Begin, Proceed, InsertSnapshot, UpsertCurrent, CheckLatest, DeleteStale,
                  UpsertRows, FlushRows, Commit, CommitUnconfirmed, Rollback, Fail
    <3>3. CASE UNCHANGED vars
      BY <3>3 DEF vars
    <3> QED BY <3>1, <3>2, <3>3 DEF Next
  <2> QED BY <2>2, <2>3, <2>4
<1> QED BY <1>1, Invariance, PTL DEF Spec, ScrapeMovesForward

-----------------------------------------------------------------------------
(* Implementation of the ledger.                                           *)

Board == [d \in Targets |-> [state |-> current[d], rows |-> databaseCurrent[d]]]

LEMMA InitFresh == Init => Fresh
BY DEF Init, Fresh

LEMMA FreshStep == Inv /\ Fresh /\ [Next]_vars => Fresh'
<1> SUFFICES ASSUME Inv, Fresh, [Next]_vars PROVE Fresh'
  OBVIOUS
<1> USE DEF tables, writers
<1>1. ASSUME NEW w \in Writers, Begin(w) PROVE Fresh'
  <2>1. PICK s \in Snapshots : /\ s.of \notin begun
                               /\ begun' = begun \cup {s.of}
                               /\ tx' = [tx EXCEPT ![w] = NewTransaction(s)]
    BY <1>1 DEF Begin
  <2>2. /\ tx'[w].snap = s
        /\ \A v \in Writers : v # w => tx'[v] = tx[v] /\ stage'[v] = stage[v]
        /\ history' = history
    BY <1>1, <2>1 DEF Begin, NewTransaction, Inv, TypeOK
  <2> QED BY <2>1, <2>2 DEF Fresh
<1>2. ASSUME NEW w \in Writers,
             InsertSnapshot(w) \/ UpsertCurrent(w) \/ CheckLatest(w) \/ DeleteStale(w)
               \/ UpsertRows(w) \/ FlushRows(w) \/ Fail(w)
      PROVE  Fresh'
  <2>1. /\ history' = history /\ begun' = begun
        /\ stage[w] # "idle"
        /\ \A v \in Writers : stage'[v] # "idle" => stage[v] # "idle"
    BY <1>2 DEF InsertSnapshot, UpsertCurrent, CheckLatest, DeleteStale, UpsertRows,
                FlushRows, Fail, Inv, TypeOK
  <2>2. \A v \in Writers : tx'[v].snap = tx[v].snap
    BY <1>2 DEF InsertSnapshot, UpsertCurrent, CheckLatest, DeleteStale, UpsertRows,
                FlushRows, Fail, Inv, TypeOK, Transactions
  <2> QED BY <2>1, <2>2 DEF Fresh
<1>3. ASSUME NEW w \in Writers, Commit(w) \/ CommitUnconfirmed(w) \/ Rollback(w)
      PROVE  Fresh'
  <2>1. /\ begun' = begun /\ EndTransaction(w) /\ stage[w] # "idle"
        /\ history' \subseteq history \cup {tx[w].snap}
    BY <1>3 DEF Commit, CommitUnconfirmed, Rollback, Publish
  <2>2. \A v \in Writers : stage'[v] # "idle" =>
          v # w /\ stage[v] # "idle" /\ tx'[v] = tx[v]
    BY <2>1 DEF EndTransaction, Inv, TypeOK
  <2> QED BY <2>1, <2>2 DEF Fresh
<1>4. ASSUME NEW r \in Readers, LoadCurrent(r) \/ LoadDatabases(r) \/ LoadFails(r)
      PROVE  Fresh'
  BY <1>4 DEF LoadCurrent, LoadDatabases, LoadFails, Fresh
<1>5. CASE UNCHANGED vars
  BY <1>5 DEF vars, Fresh
<1> QED BY <1>1, <1>2, <1>3, <1>4, <1>5 DEF Next, Proceed

LEMMA LedgerInitial == Init => Ledger!LedgerInit
<1> SUFFICES ASSUME Init PROVE Ledger!LedgerInit
  OBVIOUS
<1>1. RowsOf(NoSnapshot) = NoRows
  BY DEF RowsOf, NoRows
<1> QED BY <1>1 DEF Init, Ledger!LedgerInit, Ledger!Shown, Ledger!RowsOf, RowsOf

LEMMA LedgerStep == Inv /\ Fresh /\ [Next]_vars => [Ledger!LedgerNext]_(Ledger!ledgerVars)
<1> SUFFICES ASSUME Inv, Fresh, [Next]_vars
             PROVE  [Ledger!LedgerNext]_(Ledger!ledgerVars)
  OBVIOUS
<1>1. CASE UNCHANGED <<history, current, databaseCurrent>>
  BY <1>1 DEF Ledger!ledgerVars
<1>2. ASSUME NEW w \in Writers, stage[w] = "commit", Publish(w)
      PROVE  Ledger!LedgerNext
  <2> DEFINE s == tx[w].snap
  <2>1. /\ s \in Snapshots
        /\ history' = history \cup {s}
        /\ IF Supersedes(s, current[s.target])
             THEN /\ current' = [current EXCEPT ![s.target] = s]
                  /\ databaseCurrent' = [databaseCurrent EXCEPT ![s.target] = RowsOf(s)]
             ELSE UNCHANGED <<current, databaseCurrent>>
    BY <1>2, PublishShows
  <2>2. s \notin history
    BY <1>2 DEF Fresh
  <2>3. s.target \in Targets
    BY <2>1 DEF Snapshots
  <2>4. Board' = IF Supersedes(s, Board[s.target].state)
                   THEN [Board EXCEPT ![s.target] = [state |-> s, rows |-> RowsOf(s)]]
                   ELSE Board
    <3>1. CASE Supersedes(s, current[s.target])
      BY <2>1, <2>3, <3>1 DEF Board, Inv, TypeOK
    <3>2. CASE ~Supersedes(s, current[s.target])
      BY <2>1, <2>3, <3>2 DEF Board
    <3> QED BY <3>1, <3>2, <2>3 DEF Board
  <2>5. Ledger!Record(s)
    BY <2>1, <2>2, <2>4
    DEF Ledger!Record, Ledger!Shown, Ledger!Supersedes, Supersedes, Ledger!RowsOf, RowsOf,
        Board
  <2>6. s \in Ledger!Snapshots
    BY <2>1 DEF Ledger!Snapshots, Snapshots
  <2> HIDE DEF s
  <2> QED BY <2>5, <2>6 DEF Ledger!LedgerNext, Ledger!Record
<1> QED BY <1>1, <1>2, CurrentStep

(***************************************************************************)
(* The storage implements the ledger: seen from its committed tables,      *)
(* every write is one atomic Record or none.                               *)
(***************************************************************************)
THEOREM StoreImplementsLedger == Spec => ImplementsLedger
<1>1. Spec => [](Inv /\ Fresh)
  <2>1. Init => Inv /\ Fresh
    BY InitInv, InitFresh
  <2>2. Inv /\ Fresh /\ [Next]_vars => Inv' /\ Fresh'
    BY InvStep, FreshStep
  <2> QED BY <2>1, <2>2, PTL DEF Spec
<1> QED BY <1>1, LedgerInitial, LedgerStep, PTL DEF Spec, ImplementsLedger, Ledger!LedgerSpec

=============================================================================
