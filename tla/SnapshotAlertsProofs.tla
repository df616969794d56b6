------------------------ MODULE SnapshotAlertsProofs ------------------------
(***************************************************************************)
(* Proofs about SnapshotAlerts for any threshold, any `for`, any range and *)
(* clocks that are off by any amount: how early and how late the alert on  *)
(* stale snapshots can be.                                                 *)
(***************************************************************************)
EXTENDS SnapshotAlerts, SequenceTheorems, TLAPS

Rows == [data : 0..Horizon, stamp : Steps, blocked : BOOLEAN]

(* The number of scrapes that are remembered.                              *)
Remembered == Window + For

(***************************************************************************)
(* The inductive invariant: data that have been too old for longer than n  *)
(* evaluations, all of them of answered scrapes, were found stale by each. *)
(* Too old means beyond what the clocks may hide.                          *)
(***************************************************************************)
HeldSince ==
  \A n \in 0..For :
    (/\ current # NoRow
     /\ current.data > Threshold + 2 * MaxStep + n
     /\ \A m \in 0..n : scrapes[Remembered - m])
    => held >= n + 1

Inv == TypeOK /\ HeldSince

-----------------------------------------------------------------------------
(* Facts about the operators.                                              *)

LEMMA Ticks ==
  /\ Threshold \in Nat /\ For \in Nat /\ BlockedFor \in Nat /\ MaxStep \in Nat
  /\ Window \in Nat \ {0} /\ Horizon \in Nat /\ Horizon > Threshold + For + 2 * MaxStep
  /\ Remembered \in Nat \ {0} /\ Remembered > For
  /\ NoRow \notin Rows
<1>1. /\ Threshold \in Nat /\ For \in Nat /\ BlockedFor \in Nat /\ MaxStep \in Nat
      /\ Window \in Nat \ {0} /\ Horizon \in Nat /\ Horizon > Threshold + For + 2 * MaxStep
  BY TicksAssumption
<1>2. Remembered \in Nat \ {0} /\ Remembered > For
  BY <1>1 DEF Remembered
<1>3. Rows \subseteq [data : Nat, stamp : Int, blocked : BOOLEAN]
  BY <1>1 DEF Rows, Steps
<1> QED BY <1>1, <1>2, <1>3, TicksAssumption

LEMMA RowFields ==
  ASSUME NEW row \in Rows
  PROVE  /\ row.data \in 0..Horizon /\ row.data \in Nat
         /\ row.stamp \in Int /\ -MaxStep <= row.stamp /\ row.stamp <= MaxStep
BY Ticks DEF Rows, Steps

(* The age an API shows at a reading of its clock is off by no more than   *)
(* the clocks are.                                                         *)
LEMMA AgeBounds ==
  ASSUME NEW row \in Rows, NEW api \in Steps
  PROVE  LET age == Larger(row.data + api - row.stamp, 0)
         IN /\ age \in 0..Horizon + 2 * MaxStep
            /\ row.data - 2 * MaxStep <= age
            /\ age <= row.data + 2 * MaxStep
<1>1. api \in Int /\ -MaxStep <= api /\ api <= MaxStep
  BY Ticks DEF Steps
<1> QED BY <1>1, Ticks, RowFields DEF Larger

(* The range of scrapes moves on by one.                                   *)
LEMMA Shifted ==
  ASSUME NEW s \in [1..Remembered -> BOOLEAN], NEW b \in BOOLEAN
  PROVE  /\ Append(Tail(s), b) \in [1..Remembered -> BOOLEAN]
         /\ Append(Tail(s), b)[Remembered] = b
         /\ \A i \in 1..Remembered - 1 : Append(Tail(s), b)[i] = s[i + 1]
<1>1. s \in Seq(BOOLEAN) /\ Len(s) = Remembered
  BY Ticks
<1>2. s # <<>>
  BY <1>1, Ticks, EmptySeq
<1>3. /\ Tail(s) \in Seq(BOOLEAN)
      /\ Len(Tail(s)) = Remembered - 1
      /\ \A i \in 1..Len(Tail(s)) : Tail(s)[i] = s[i + 1]
  BY <1>1, <1>2, HeadTailProperties
<1>4. /\ Append(Tail(s), b) \in Seq(BOOLEAN)
      /\ Len(Append(Tail(s), b)) = Remembered
      /\ Append(Tail(s), b)[Remembered] = b
      /\ \A i \in 1..Remembered - 1 : Append(Tail(s), b)[i] = Tail(s)[i]
  BY <1>3, AppendProperties, Ticks
<1> QED BY <1>3, <1>4, LenProperties

(* Counting evaluations in a row.                                          *)
LEMMA HoldCounts ==
  ASSUME NEW n \in Nat, NEW so \in 0..n + 1, NEW holds \in BOOLEAN
  PROVE  /\ Hold(holds, so, n) \in 0..n + 1
         /\ Hold(holds, so, n) > so => holds
         /\ \A k \in 0..n : holds /\ so >= k => Hold(holds, so, n) >= k + 1
BY DEF Hold, Smaller

-----------------------------------------------------------------------------
(* Type correctness.                                                       *)

LEMMA TypeInit == Init => TypeOK
<1> SUFFICES ASSUME Init PROVE TypeOK
  OBVIOUS
<1>1. held \in 0..For + 1 /\ blockedHeld \in 0..BlockedFor + 1
  BY Ticks DEF Init
<1> QED BY <1>1, Zenon DEF Init, TypeOK

LEMMA TypeStep == TypeOK /\ [Next]_vars => TypeOK'
<1> SUFFICES ASSUME TypeOK, [Next]_vars PROVE TypeOK'
  OBVIOUS
<1> USE DEF clocks, rules
<1>1. current' \in Rows \cup {NoRow}
  <2>1. CASE Collect
    <3>1. PICK blocked \in BOOLEAN :
            current' = Upsert([data |-> 0, stamp |-> collectorClock, blocked |-> blocked])
      BY <2>1 DEF Collect
    <3>2. [data |-> 0, stamp |-> collectorClock, blocked |-> blocked] \in Rows
      BY Ticks DEF TypeOK, Rows
    <3> QED BY <3>1, <3>2 DEF Upsert, TypeOK, Rows
  <2>2. CASE Tick
    <3>1. current' = Older(current) /\ current \in Rows \cup {NoRow}
      BY <2>2 DEF Tick, TypeOK, Rows
    <3>2. ASSUME current \in Rows PROVE Older(current) \in Rows \cup {NoRow}
      <4>1. Smaller(current.data + 1, Horizon) \in 0..Horizon
        BY <3>2, RowFields, Ticks DEF Smaller
      <4> QED BY <3>2, <4>1 DEF Older, Rows
    <3> QED BY <3>1, <3>2 DEF Older
  <2>3. CASE CollectorStops \/ StorageToggles \/ StepClock \/ UNCHANGED vars
    BY <2>3 DEF CollectorStops, StorageToggles, StepClock, vars, TypeOK, Rows
  <2> QED BY <2>1, <2>2, <2>3 DEF Next
<1>2. collectorClock' \in Steps /\ apiClock' \in Steps
  BY DEF Next, Collect, CollectorStops, StorageToggles, StepClock, Tick, vars, TypeOK
<1>3. collector' \in {"up", "down"} /\ storage' \in {"up", "down"}
  BY DEF Next, Collect, CollectorStops, StorageToggles, StepClock, Tick, vars, TypeOK
<1>4. /\ held' \in 0..For + 1 /\ blockedHeld' \in 0..BlockedFor + 1
      /\ scrapes' \in [1..Window + For -> BOOLEAN]
  <2>1. CASE Tick
    <3>1. Stale(current', ScrapeAnswered) \in BOOLEAN
      BY DEF Stale, ScrapeAnswered
    <3>2. Blocked(current', ScrapeAnswered) \in BOOLEAN
      <4>1. current' # NoRow => current'.blocked \in BOOLEAN
        BY <1>1 DEF Rows
      <4> QED BY <4>1 DEF Blocked, ScrapeAnswered
    <3>3. ScrapeAnswered \in BOOLEAN
      BY DEF ScrapeAnswered
    <3>4. held' \in 0..For + 1 /\ blockedHeld' \in 0..BlockedFor + 1
      BY <2>1, <3>1, <3>2, HoldCounts, Ticks DEF Tick, TypeOK
    <3>5. scrapes' \in [1..Window + For -> BOOLEAN]
      BY <2>1, <3>3, Shifted DEF Tick, TypeOK, Remembered
    <3> QED BY <3>4, <3>5
  <2>2. CASE Collect \/ CollectorStops \/ StorageToggles \/ StepClock \/ UNCHANGED vars
    BY <2>2, Zenon DEF Collect, CollectorStops, StorageToggles, StepClock, vars, TypeOK
  <2> QED BY <2>1, <2>2 DEF Next
<1>5. current' # NoRow => Age(current)' \in 0..Horizon + 2 * MaxStep
  BY <1>1, <1>2, AgeBounds DEF Age
<1> QED BY <1>1, <1>2, <1>3, <1>4, <1>5, Zenon DEF TypeOK, Rows

(***************************************************************************)
(* The row, the clocks and the rules' counts stay in their ranges, and no  *)
(* negative age is shown, for any settings of the rules and the clocks.    *)
(***************************************************************************)
THEOREM TypeCorrect == Spec => []TypeOK
<1> QED BY TypeInit, TypeStep, PTL DEF Spec

-----------------------------------------------------------------------------
(* How early and how late.                                                 *)

(* What is found stale is too old but for what the clocks may disagree by. *)
LEMMA StaleIsOld ==
  ASSUME NEW row \in Rows \cup {NoRow}, apiClock \in Steps, Stale(row, ScrapeAnswered)
  PROVE  row \in Rows /\ row.data + 2 * MaxStep > Threshold
<1>1. row \in Rows /\ Age(row) > Threshold
  BY DEF Stale
<1>2. Age(row) <= row.data + 2 * MaxStep /\ Age(row) \in Nat
  BY <1>1, AgeBounds, Ticks DEF Age
<1> QED BY <1>1, <1>2, Ticks, RowFields

(* And what is older than that is found stale, if the scrape is answered.  *)
LEMMA OldIsStale ==
  ASSUME NEW row \in Rows, apiClock \in Steps, ScrapeAnswered,
         row.data > Threshold + 2 * MaxStep
  PROVE  Stale(row, ScrapeAnswered)
<1>1. row.data - 2 * MaxStep <= Age(row) /\ Age(row) \in Nat
  BY AgeBounds, Ticks DEF Age
<1>2. Age(row) > Threshold
  BY <1>1, Ticks, RowFields
<1> QED BY <1>2, Ticks DEF Stale

(***************************************************************************)
(* The alert on stale snapshots does not begin to hold for data younger    *)
(* than its threshold less what the two clocks may disagree by, whatever   *)
(* is stored, set back or set ahead meanwhile.                             *)
(***************************************************************************)
THEOREM NotEarly == Spec => NeverEarly
<1>1. TypeOK /\ TypeOK' /\ [Next]_vars =>
        [held' > held => current'.data + 2 * MaxStep > Threshold]_vars
  <2> SUFFICES ASSUME TypeOK, TypeOK', [Next]_vars, held' > held
               PROVE  current'.data + 2 * MaxStep > Threshold
    OBVIOUS
  <2>1. held \in Nat /\ held' \in Nat /\ held \in 0..For + 1
    BY Ticks DEF TypeOK
  <2>2. Tick
    BY <2>1 DEF Next, Collect, CollectorStops, StorageToggles, StepClock, rules, vars
  <2>3. Stale(current', ScrapeAnswered)
    <3>1. Stale(current', ScrapeAnswered) \in BOOLEAN
      BY DEF Stale, ScrapeAnswered
    <3> QED BY <2>1, <2>2, <3>1, HoldCounts, Ticks DEF Tick
  <2>4. current' \in Rows \cup {NoRow} /\ apiClock \in Steps
    BY DEF TypeOK, Rows
  <2> QED BY <2>3, <2>4, StaleIsOld
<1> QED BY <1>1, TypeCorrect, PTL DEF Spec, NeverEarly

LEMMA InvStep == Inv /\ [Next]_vars => Inv'
<1> SUFFICES ASSUME Inv, [Next]_vars PROVE HeldSince'
  BY TypeStep DEF Inv
<1> USE DEF clocks, rules
<1>1. TypeOK /\ TypeOK'
  BY TypeStep DEF Inv
<1>2. CASE Collect
  <2>1. PICK blocked \in BOOLEAN :
          current' = Upsert([data |-> 0, stamp |-> collectorClock, blocked |-> blocked])
    BY <1>2 DEF Collect
  <2>2. current' = current \/ current'.data = 0
    BY <2>1 DEF Upsert
  <2>3. UNCHANGED <<held, scrapes>>
    BY <1>2 DEF Collect
  <2> QED BY <2>2, <2>3, Ticks DEF Inv, HeldSince
<1>3. CASE Tick
  <2> SUFFICES ASSUME NEW n \in 0..For, current' # NoRow,
                      current'.data > Threshold + 2 * MaxStep + n,
                      \A m \in 0..n : scrapes'[Remembered - m]
               PROVE  held' >= n + 1
    BY DEF HeldSince
  <2>1. n \in Nat /\ n <= For
    BY Ticks
  <2>2. /\ current \in Rows /\ current' \in Rows
        /\ current.data \in Nat /\ current'.data \in Nat
        /\ current'.data <= current.data + 1
    <3>1. current' = Older(current)
      BY <1>3 DEF Tick
    <3>2. current # NoRow
      BY <3>1 DEF Older
    <3>3. current \in Rows /\ current' \in Rows
      BY <1>1, <3>2 DEF TypeOK, Rows
    <3>4. current'.data = Smaller(current.data + 1, Horizon)
      BY <3>1, <3>2, <3>3 DEF Older, Rows
    <3> QED BY <3>3, <3>4, RowFields, Ticks DEF Smaller
  <2>3. /\ scrapes'[Remembered] = ScrapeAnswered
        /\ \A i \in 1..Remembered - 1 : scrapes'[i] = scrapes[i + 1]
    <3>1. ScrapeAnswered \in BOOLEAN /\ scrapes \in [1..Remembered -> BOOLEAN]
      BY <1>1 DEF ScrapeAnswered, TypeOK, Remembered
    <3> QED BY <1>3, <3>1, Shifted DEF Tick
  <2>4. ScrapeAnswered
    <3>1. Remembered - 0 = Remembered /\ 0 \in 0..n
      BY <2>1, Ticks
    <3> QED BY <2>3, <3>1
  <2>5. Stale(current', ScrapeAnswered)
    <3>1. apiClock \in Steps
      BY <1>1 DEF TypeOK
    <3>2. current'.data > Threshold + 2 * MaxStep
      BY <2>1, <2>2, Ticks
    <3> QED BY <2>2, <2>4, <3>1, <3>2, OldIsStale
  <2>6. held >= n
    <3>1. CASE n = 0
      BY <1>1, <3>1, Ticks DEF TypeOK
    <3>2. CASE n # 0
      <4>1. n - 1 \in 0..For /\ (n - 1) + 1 = n
        BY <2>1, <3>2, Ticks
      <4>2. current.data > Threshold + 2 * MaxStep + (n - 1)
        BY <2>1, <2>2, Ticks
      <4>3. ASSUME NEW m \in 0..n - 1 PROVE scrapes[Remembered - m]
        <5>1. /\ m + 1 \in 0..n
              /\ Remembered - (m + 1) \in 1..Remembered - 1
              /\ (Remembered - (m + 1)) + 1 = Remembered - m
          BY <2>1, Ticks
        <5> QED BY <2>3, <5>1
      <4>4. current # NoRow
        BY <2>2, Ticks
      <4> QED BY <4>1, <4>2, <4>3, <4>4 DEF Inv, HeldSince
    <3> QED BY <3>1, <3>2
  <2> QED BY <1>1, <1>3, <2>1, <2>5, <2>6, HoldCounts, Ticks DEF Tick, TypeOK
<1>4. CASE CollectorStops \/ StorageToggles \/ StepClock \/ UNCHANGED vars
  BY <1>4 DEF CollectorStops, StorageToggles, StepClock, vars, Inv, HeldSince
<1> QED BY <1>2, <1>3, <1>4 DEF Next

(***************************************************************************)
(* While scrapes are answered, data older than the threshold and the `for` *)
(* together by more than the clocks may disagree by make the alert fire:   *)
(* no clock that is set and no snapshot that is refused hides them longer. *)
(***************************************************************************)
THEOREM NotLate == Spec => []LateByAtMost
<1>1. Init => Inv
  BY TypeInit DEF Init, Inv, HeldSince
<1>2. Inv => LateByAtMost
  <2> SUFFICES ASSUME Inv, \A n \in 0..For : scrapes[Remembered - n],
                      current # NoRow, held # For + 1
               PROVE  current.data <= Threshold + For + 2 * MaxStep
    <3>1. \A n \in 0..For : Remembered - n = Window + For - n
      BY Ticks DEF Remembered
    <3> QED BY <3>1, Zenon DEF LateByAtMost
  <2>1. current \in Rows /\ current.data \in Nat /\ held \in 0..For + 1
    BY RowFields DEF Inv, TypeOK, Rows
  <2>2. For \in 0..For /\ ~(held >= For + 1)
    BY <2>1, Ticks
  <2>3. ~(current.data > Threshold + 2 * MaxStep + For)
    BY <2>2, Zenon DEF Inv, HeldSince
  <2> QED BY <2>1, <2>3, Ticks
<1> QED BY <1>1, <1>2, InvStep, PTL DEF Spec

=============================================================================
