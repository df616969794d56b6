--------------------------- MODULE SnapshotAlerts ---------------------------
(***************************************************************************)
(* How old the snapshot that is shown really is, and who notices: the      *)
(* stamp of the collector (collector/service.py), the rule by which a      *)
(* snapshot replaces the latest (storage/repositories.py), the age the     *)
(* exporter computes with the API's clock (metrics/), and the rules of     *)
(* docker/prometheus/alerts.yml over what the scrapes return.              *)
(*                                                                         *)
(* The collector and the API run on hosts of their own.  Time passes in    *)
(* ticks of one scrape and one evaluation of the rules; a clock may be     *)
(* stepped, and is at most MaxStep off.  One cluster is modelled: the      *)
(* rule is evaluated for each db_identifier by itself.                     *)
(***************************************************************************)
EXTENDS Integers, Sequences

CONSTANTS
  Threshold,  \* 300 s: the age above which a snapshot is stale
  For,        \* 5 m: how long the age must be above it before the rule fires
  BlockedFor, \* 2 m: the same for blocked sessions
  Window,     \* 5 m: the range of the error rate
  MaxStep,    \* bound: how far a clock may be off
  Horizon,    \* bound: ages are counted up to here
  NoRow

ASSUME TicksAssumption ==
  /\ {Threshold, For, BlockedFor, MaxStep} \subseteq Nat
  /\ Window \in Nat \ {0}
  /\ Horizon \in Nat /\ Horizon > Threshold + For + 2 * MaxStep
  /\ NoRow \notin [data : Nat, stamp : Int, blocked : BOOLEAN]

VARIABLES
  collector,       \* "up", or "down": it stores nothing any more
  storage,         \* "up" or "down", for the collector and the API
  collectorClock,  \* how far the collector's clock is ahead of real time
  apiClock,        \* how far the API's clock is ahead
  current,         \* the row of runtime_current: how long ago its data were
                   \* read, how far ahead its captured_at was then, and
                   \* whether blocked_sessions is above zero
  held,            \* evaluations RuntimeSnapshotStale has held for, in a row
  blockedHeld,     \* the same for BlockedSessionsDetected
  scrapes          \* whether each of the last scrapes was answered with 200

clocks == <<collectorClock, apiClock>>
rules == <<held, blockedHeld, scrapes>>
vars == <<collector, storage, clocks, current, rules>>

Steps == -MaxStep..MaxStep
Smaller(a, b) == IF a < b THEN a ELSE b
Larger(a, b) == IF a < b THEN b ELSE a

-----------------------------------------------------------------------------
(* Fault: ON CONFLICT DO NOTHING.                                          *)
KeepFirst(row) == IF current = NoRow THEN row ELSE current

(* The WHERE of the upsert: a snapshot replaces one captured no later.     *)
Upsert(row) ==
  IF current = NoRow \/ row.stamp + current.data >= current.stamp THEN row ELSE current

(* A runtime cycle: stamped, read, stored.                                 *)
Collect ==
  /\ collector = "up" /\ storage = "up"
  /\ \E blocked \in BOOLEAN :
       current' = Upsert([data |-> 0, stamp |-> collectorClock, blocked |-> blocked])
  /\ UNCHANGED <<collector, storage, clocks, rules>>

(***************************************************************************)
(* The collector stops storing for good: it crashes, the cluster is gone,  *)
(* or a write is never answered and keeps its job.                         *)
(***************************************************************************)
CollectorStops ==
  /\ collector' = "down"
  /\ UNCHANGED <<storage, clocks, current, rules>>

StorageToggles ==
  /\ storage' = IF storage = "up" THEN "down" ELSE "up"
  /\ UNCHANGED <<collector, clocks, current, rules>>

(* A host's clock is set.                                                  *)
StepClock ==
  /\ \/ collectorClock' \in Steps /\ UNCHANGED apiClock
     \/ apiClock' \in Steps /\ UNCHANGED collectorClock
  /\ UNCHANGED <<collector, storage, current, rules>>

-----------------------------------------------------------------------------
(* Fault: observed_at is taken when the snapshot is stored.                *)
AgeWhenStored(row) == Larger(apiClock - row.stamp, 0)

(* Fault: a snapshot stamped ahead of the API's clock has a negative age.  *)
AgeUnclamped(row) == row.data + apiClock - row.stamp

(* pg_monitor_runtime_snapshot_age_seconds: observed_at - captured_at,     *)
(* not below zero.                                                         *)
Age(row) == Larger(row.data + apiClock - row.stamp, 0)

(* Fault: the state is reported from the threshold on.                     *)
StaleFrom(row, answered) == answered /\ row # NoRow /\ Age(row) >= Threshold

(* RuntimeSnapshotStale: a cluster without a row has no series, and a      *)
(* scrape that fails leaves none.                                          *)
Stale(row, answered) == answered /\ row # NoRow /\ Age(row) > Threshold

(* BlockedSessionsDetected: nothing is asked of the age.                   *)
Blocked(row, answered) == answered /\ row # NoRow /\ row.blocked

(* get_metrics loads the states before it renders anything: without the    *)
(* storage a scrape is answered with an error and shows no counter either. *)
ScrapeAnswered == storage = "up"

Older(row) == IF row = NoRow THEN row ELSE [row EXCEPT !.data = Smaller(@ + 1, Horizon)]

(* `for`: evaluations in a row; one that fails starts it again.            *)
Hold(holds, so, for) == IF holds THEN Smaller(so + 1, for + 1) ELSE 0

(* Time passes, Prometheus scrapes and evaluates.                          *)
Tick ==
  /\ current' = Older(current)
  /\ scrapes' = Append(Tail(scrapes), ScrapeAnswered)
  /\ held' = Hold(Stale(current', ScrapeAnswered), held, For)
  /\ blockedHeld' = Hold(Blocked(current', ScrapeAnswered), blockedHeld, BlockedFor)
  /\ UNCHANGED <<collector, storage, clocks>>

StaleFiring == held = For + 1
BlockedFiring == blockedHeld = BlockedFor + 1

(***************************************************************************)
(* ApiHighErrorRate, generously: any 5xx seen in the window is above the   *)
(* ratio.  A failed scrape is itself the 5xx, and is seen only in a range  *)
(* that has an answered scrape before it and one after it.                 *)
(***************************************************************************)
ErrorsSeen(range) ==
  \E i, j, k \in 1..Window : i < j /\ j < k /\ range[i] /\ ~range[j] /\ range[k]

ErrorsFiring ==
  \A n \in 0..For : ErrorsSeen(SubSeq(scrapes, n + 1, n + Window))

-----------------------------------------------------------------------------
Init ==
  /\ collector = "up" /\ storage = "up"
  /\ collectorClock \in Steps /\ apiClock \in Steps
  /\ current = NoRow
  /\ held = 0 /\ blockedHeld = 0
  /\ scrapes = [n \in 1..Window + For |-> TRUE]

Next == Collect \/ CollectorStops \/ StorageToggles \/ StepClock \/ Tick

Spec == Init /\ [][Next]_vars

(* Time passes, and a collector that runs collects, whenever its storage   *)
(* is back long enough.                                                    *)
FairSpec == Spec /\ WF_vars(Tick) /\ WF_vars(Collect)

-----------------------------------------------------------------------------
(***************************************************************************)
(* The row, the clocks and the rule's state stay in their ranges, and no   *)
(* scrape shows a negative age, whatever the clocks do.                    *)
(***************************************************************************)
TypeOK ==
  /\ collector \in {"up", "down"} /\ storage \in {"up", "down"}
  /\ collectorClock \in Steps /\ apiClock \in Steps
  /\ current \in [data : 0..Horizon, stamp : Steps, blocked : BOOLEAN] \cup {NoRow}
  /\ current # NoRow => Age(current) \in 0..Horizon + 2 * MaxStep
  /\ held \in 0..For + 1 /\ blockedHeld \in 0..BlockedFor + 1
  /\ scrapes \in [1..Window + For -> BOOLEAN]

(***************************************************************************)
(* RuntimeSnapshotStale never starts to hold for data younger than its     *)
(* threshold less what the two clocks may disagree by.                     *)
(***************************************************************************)
NeverEarly ==
  [][held' > held => current'.data + 2 * MaxStep > Threshold]_vars

(***************************************************************************)
(* When the scrapes were answered, data older than the threshold and the   *)
(* `for` together is late by no more than what the clocks may disagree by: *)
(* neither a refused snapshot nor an age clamped to zero hides it longer.  *)
(***************************************************************************)
LateByAtMost ==
  LET answered == \A n \in 0..For : scrapes[Window + For - n]
  IN (answered /\ current # NoRow /\ held # For + 1) =>
       current.data <= Threshold + For + 2 * MaxStep

(***************************************************************************)
(* A collector that goes on is shown again and again with data just read:  *)
(* a stamp ahead of time refuses newer snapshots only for a while.         *)
(***************************************************************************)
CatchesUp ==
  <>[](collector = "up" /\ storage = "up") =>
    []<>(current # NoRow /\ current.data = 0)

(***************************************************************************)
(* A collector that has stored a snapshot and stops is noticed, once the   *)
(* storage answers the scrapes.                                            *)
(***************************************************************************)
StaleFires ==
  (<>[](collector = "down" /\ storage = "up") /\ <>(current # NoRow)) => <>[]StaleFiring

(***************************************************************************)
(* "5xx error ratio is above 5% for 5 minutes." (alerts.yml): while every  *)
(* scrape is answered with an error, for longer than the range and the     *)
(* `for` of the rules, some alert fires.                                   *)
(***************************************************************************)
OutageRaisesAlert ==
  (\A n \in DOMAIN scrapes : ~scrapes[n]) => StaleFiring \/ ErrorsFiring

(***************************************************************************)
(* "At least one blocked session is present for more than 2m."             *)
(* (alerts.yml), generously: when the rule fires, the session was seen in  *)
(* data that are not yet stale by the rule of the same file.               *)
(***************************************************************************)
BlockedIsPresent == BlockedFiring => current.data <= Threshold

=============================================================================
