------------------------ MODULE QueryAnalyticsProofs ------------------------
(***************************************************************************)
(* Proofs about QueryAnalytics for any statements, costs, windows, times   *)
(* and numbers of executions and drops: type correctness and the top of a  *)
(* result for any collectors, and, for a cluster one collector watches,    *)
(* what reported deltas, and two weeks of them, say about what was done.   *)
(***************************************************************************)
EXTENDS QueryAnalytics, QueryDeltasProofs

-----------------------------------------------------------------------------
(* What a reading says, and how readings follow each other.                *)

Readings ==
  [at : Times, counters : [Queries -> Counters], executed : [Queries -> Counters],
   drops : [Queries -> Nat]]

(* A reading of the server as it is, and of one that has done nothing yet. *)
Now == [at |-> clock, counters |-> counters, executed |-> executed, drops |-> drops]

Origin ==
  [at |-> 0, counters |-> [q \in Queries |-> NoCounters],
   executed |-> [q \in Queries |-> NoCounters], drops |-> [q \in Queries |-> 0]]

(* What a statement has done that its counters have forgotten.             *)
Lost(r, q, f) == r.executed[q][f] - r.counters[q][f]

(* Nothing done is undone, what is forgotten stays so, and only a drop     *)
(* makes the counters forget.                                              *)
Precedes(a, b) ==
  \A q \in Queries :
    /\ a.drops[q] <= b.drops[q]
    /\ \A f \in Fields :
         /\ a.executed[q][f] <= b.executed[q][f]
         /\ Lost(a, q, f) <= Lost(b, q, f)
         /\ a.drops[q] = b.drops[q] => Lost(a, q, f) = Lost(b, q, f)

(* The snapshot point made of a reading that was stored.                   *)
Listed(r) == {q \in Queries : r.counters[q] # NoCounters}
PointOf(r) == [at |-> r.at, rows |-> [q \in Listed(r) |-> r.counters[q]]]

-----------------------------------------------------------------------------
(* The inductive invariants.                                               *)

(* Cycles and the request, by what their stages imply.                     *)
CycleTyped(c) ==
  /\ cycle[c] = [stage |-> cycle[c].stage, at |-> cycle[c].at, reading |-> cycle[c].reading]
  /\ cycle[c].stage # "idle" => cycle[c].at \in Times
  /\ cycle[c].stage = "read" =>
       cycle[c].reading \in Readings /\ cycle[c].reading.at = cycle[c].at

Wanted == Boundaries(request.kind, request.from, request.to)

RequestTyped ==
  /\ request = [stage |-> request.stage, kind |-> request.kind, from |-> request.from,
                to |-> request.to, resolved |-> request.resolved,
                points |-> request.points, known |-> request.known]
  /\ request.stage # "idle" =>
       /\ request.kind \in {"weekly-top", "week-over-week"}
       /\ request.from \in Int /\ request.to \in Int /\ request.from < request.to
       /\ request.resolved = [ts \in Wanted |-> request.resolved[ts]]
       /\ request.points = [ts \in Wanted |-> request.points[ts]]
       /\ \A ts \in Wanted : /\ request.resolved[ts] \in Times \cup {NoTime}
                             /\ request.points[ts] \in Points \cup {NoPoint}

Typed ==
  /\ TypeOK
  /\ cycle = [c \in Collectors |-> cycle[c]]
  /\ \A c \in Collectors : CycleTyped(c)
  /\ readings \subseteq Readings
  /\ RequestTyped

(* One collector watches the cluster: readings are taken and stored one    *)
(* after the other.                                                        *)
OneCollector == \A c, d \in Collectors : c = d

Taken(r) == Precedes(Origin, r) /\ Precedes(r, Now)

ReadInOrder ==
  /\ Precedes(Origin, Now)
  /\ \A r \in readings : Taken(r)
  /\ \A r, s \in readings : r.at <= s.at => Precedes(r, s)

CyclesInOrder ==
  \A c \in Collectors :
    /\ \A r \in readings : r.at <= cycle[c].at
    /\ cycle[c].stage # "idle" => \A r \in readings : r.at < cycle[c].at
    /\ cycle[c].stage = "read" =>
         /\ Taken(cycle[c].reading)
         /\ \A r \in readings : Precedes(r, cycle[c].reading)

StoredIsRead ==
  /\ \A row \in stored : \E r \in readings : row \in SnapshotRows(r)
  /\ \A r \in readings : SnapshotRows(r) \subseteq stored /\ SnapshotRows(r) # {}

Pointed(ts) ==
  IF Upto(ts) = {} THEN request.points[ts] = NoPoint
  ELSE \E r \in readings : r.at = Max(Upto(ts)) /\ request.points[ts] = PointOf(r)

RequestInStep ==
  request.stage # "idle" =>
    /\ request.known \subseteq {r.at : r \in readings}
    /\ \A ts \in Wanted : request.resolved[ts] = LatestAtOrBefore(request.known, ts)
    /\ request.stage = "answered" => \A ts \in Wanted : Pointed(ts)

(* What any number of collectors keep, as long as no two snapshots stored  *)
(* were stamped with the same time.                                        *)
OneReadingEach == \A r, s \in readings : r.at = s.at => r = s

Sound ==
  /\ Typed
  /\ OneReadingEach
  /\ StoredIsRead
  /\ RequestInStep

Inv ==
  /\ OneCollector
  /\ Sound
  /\ ReadInOrder
  /\ CyclesInOrder

(* Several collectors of a server whose counters are never dropped: any    *)
(* two readings, stored or about to be, are in order, in the one way or    *)
(* in the other, whatever their stamps say.                                *)
Held == readings \cup {cycle[c].reading : c \in {c \in Collectors : cycle[c].stage = "read"}}

InSomeOrder ==
  /\ Precedes(Origin, Now)
  /\ \A r \in Held : Taken(r)
  /\ \A r, s \in Held : Precedes(r, s) \/ Precedes(s, r)

InvUndropped ==
  /\ MaxDrops = 0
  /\ Sound
  /\ InSomeOrder

-----------------------------------------------------------------------------
(* Facts about the operators.                                              *)

LEMMA Bounds ==
  /\ MaxTime \in Nat /\ MaxDrops \in Nat /\ 0 \in Times
  /\ Times \subseteq Nat /\ Times \subseteq Int
  /\ NoTime \notin Int /\ NoTime \notin Times
  /\ \A q \in Queries : MaxExecutions[q] \in Nat /\ Cost[q] \in Nat \ {0}
BY BoundsAssumption DEF Times

(* The latest of some times is one of them.                                *)
LEMMA Latest ==
  ASSUME NEW S \in SUBSET Times, S # {}
  PROVE  Max(S) \in S /\ \A t \in S : t <= Max(S)
<1> DEFINE ages == {n \in Nat : MaxTime - n \in S}
<1>1. ages \subseteq Nat
  OBVIOUS
<1>2. PICK t \in S : TRUE
  OBVIOUS
<1>3. MaxTime - t \in Nat /\ MaxTime - (MaxTime - t) = t
  BY <1>2, Bounds DEF Times
<1>4. ages # {}
  BY <1>2, <1>3
<1>5. PICK n \in ages : \A m \in ages : ~(<<m, n>> \in OpToRel(<, Nat))
  <2> HIDE DEF ages
  <2> QED BY <1>1, <1>4, NatLessThanWellFounded, WFMin
<1>6. ASSUME NEW u \in S PROVE MaxTime - n >= u
  <2>1. u \in Nat /\ MaxTime - u \in Nat /\ MaxTime - (MaxTime - u) = u
    BY Bounds DEF Times
  <2>2. MaxTime - u \in ages
    BY <2>1
  <2>3. ~(MaxTime - u < n)
    BY <1>5, <2>1, <2>2 DEF OpToRel
  <2> QED BY <2>1, <2>3, Bounds
<1>7. MaxTime - n \in S
  OBVIOUS
<1>8. \E u \in S : \A v \in S : u >= v
  BY <1>6, <1>7
<1>9. Max(S) \in S /\ \A v \in S : Max(S) >= v
  BY <1>8 DEF Max
<1> QED BY <1>9, Bounds

LEMMA ReadingFields ==
  ASSUME NEW r \in Readings, NEW q \in Queries, NEW f \in Fields
  PROVE  /\ r.drops[q] \in Nat /\ r.at \in Times
         /\ r.counters[q] \in Counters /\ r.executed[q] \in Counters
         /\ r.counters[q][f] \in Nat /\ r.executed[q][f] \in Nat
BY DEF Readings, Counters

LEMMA OriginRead == Origin \in Readings
BY Bounds DEF Origin, Readings, NoCounters, Counters, Fields

LEMMA PrecedesSame ==
  ASSUME NEW a \in Readings, NEW b \in Readings, a.counters = b.counters,
         a.executed = b.executed, a.drops = b.drops
  PROVE  Precedes(a, b)
<1>1. ASSUME NEW q \in Queries PROVE a.drops[q] <= b.drops[q]
  BY ReadingFields DEF Readings
<1>2. ASSUME NEW q \in Queries, NEW f \in Fields
      PROVE  /\ a.executed[q][f] <= b.executed[q][f]
             /\ Lost(a, q, f) = Lost(b, q, f)
             /\ Lost(a, q, f) <= Lost(b, q, f)
  BY ReadingFields DEF Lost
<1> QED BY <1>1, <1>2 DEF Precedes

LEMMA PrecedesOn ==
  ASSUME NEW a \in Readings, NEW b \in Readings, NEW c \in Readings,
         Precedes(a, b), Precedes(b, c)
  PROVE  Precedes(a, c)
<1> SUFFICES ASSUME NEW q \in Queries, NEW f \in Fields
             PROVE  /\ a.drops[q] <= c.drops[q]
                    /\ a.executed[q][f] <= c.executed[q][f]
                    /\ Lost(a, q, f) <= Lost(c, q, f)
                    /\ a.drops[q] = c.drops[q] => Lost(a, q, f) = Lost(c, q, f)
  BY DEF Precedes, Fields
<1>1. /\ a.drops[q] \in Nat /\ b.drops[q] \in Nat /\ c.drops[q] \in Nat
      /\ a.executed[q][f] \in Nat /\ b.executed[q][f] \in Nat /\ c.executed[q][f] \in Nat
      /\ Lost(a, q, f) \in Int /\ Lost(b, q, f) \in Int /\ Lost(c, q, f) \in Int
  BY ReadingFields DEF Lost
<1>2. /\ a.drops[q] <= b.drops[q] /\ b.drops[q] <= c.drops[q]
      /\ a.executed[q][f] <= b.executed[q][f] /\ b.executed[q][f] <= c.executed[q][f]
      /\ Lost(a, q, f) <= Lost(b, q, f) /\ Lost(b, q, f) <= Lost(c, q, f)
      /\ a.drops[q] = b.drops[q] => Lost(a, q, f) = Lost(b, q, f)
      /\ b.drops[q] = c.drops[q] => Lost(b, q, f) = Lost(c, q, f)
  BY DEF Precedes
<1> QED BY <1>1, <1>2

LEMMA Growing ==
  ASSUME NEW q \in Queries, NEW c \in Counters
  PROVE  /\ Grown(q, c) \in Counters
         /\ \A f \in Fields : Grown(q, c)[f] >= c[f]
BY Bounds DEF Grown, Counters, Fields

LEMMA NothingCounted == NoCounters \in Counters /\ \A f \in Fields : NoCounters[f] = 0
BY DEF NoCounters, Counters

LEMMA RowsTyped ==
  ASSUME NEW r \in Readings, NEW row \in SnapshotRows(r)
  PROVE  /\ row.at = r.at /\ row.at \in Times /\ row.query \in Queries
         /\ row.counters \in Counters \ {NoCounters}
<1>1. PICK q \in {q \in Queries : r.counters[q] # NoCounters} :
        row = [at |-> r.at, query |-> q, counters |-> r.counters[q]]
  BY DEF SnapshotRows
<1>2. q \in Queries /\ r.counters[q] \in Counters \ {NoCounters} /\ r.at \in Times
  BY <1>1 DEF Readings
<1> QED BY <1>1, <1>2

LEMMA LatestTyped ==
  ASSUME NEW S \in SUBSET Times, NEW ts
  PROVE  LatestAtOrBefore(S, ts) \in Times \cup {NoTime}
<1> DEFINE upTo == {at \in S : at <= ts}
<1>1. upTo # {} => Max(upTo) \in Times
  BY Latest
<1> HIDE DEF upTo
<1>2. (IF upTo = {} THEN NoTime ELSE Max(upTo)) \in Times \cup {NoTime}
  BY <1>1
<1> QED BY <1>2 DEF upTo, LatestAtOrBefore

LEMMA PointsMade ==
  ASSUME NEW at \in Int, NEW known \in SUBSET Queries, NEW rows \in [known -> Counters]
  PROVE  [at |-> at, rows |-> rows] \in Points
<1>1. rows \in UNION {[S -> Counters] : S \in SUBSET Queries}
  OBVIOUS
<1> QED BY <1>1 DEF Points

LEMMA LoadedTyped ==
  ASSUME NEW at \in Int,
         \A row \in stored : row.query \in Queries /\ row.counters \in Counters
  PROVE  PointAt(at) \in Points
<1> DEFINE rows == {row \in stored : row.at = at}
           known == {row.query : row \in rows}
           found == [q \in known |-> (CHOOSE row \in rows : row.query = q).counters]
<1>1. known \in SUBSET Queries
  OBVIOUS
<1>2. ASSUME NEW q \in known
      PROVE  (CHOOSE row \in rows : row.query = q).counters \in Counters
  <2>1. \E row \in rows : row.query = q
    BY <1>2
  <2>2. (CHOOSE row \in rows : row.query = q) \in rows
    BY <2>1
  <2> QED BY <2>2
<1>3. found \in [known -> Counters]
  BY <1>2
<1>4. PointAt(at) = [at |-> at, rows |-> found]
  BY DEF PointAt
<1> HIDE DEF known, found
<1> QED BY <1>1, <1>3, <1>4, PointsMade

-----------------------------------------------------------------------------
(* Type correctness.                                                       *)

LEMMA TypeInit == Init => Typed
<1> SUFFICES ASSUME Init PROVE Typed
  OBVIOUS
<1>1. TypeOK
  BY Bounds, NothingCounted, OriginRead DEF Init, TypeOK, NoRequest, Times
<1>2. ASSUME NEW c \in Collectors PROVE CycleTyped(c)
  BY DEF Init, CycleTyped
<1>3. cycle = [c \in Collectors |-> cycle[c]] /\ readings \subseteq Readings
  BY DEF Init
<1>4. RequestTyped
  BY DEF Init, RequestTyped, NoRequest
<1> QED BY <1>1, <1>2, <1>3, <1>4 DEF Typed

(* The monitored server and the clock.                                     *)
ServerTyped ==
  /\ clock \in Times
  /\ executed \in [Queries -> Counters] /\ counters \in [Queries -> Counters]
  /\ lastRun \in [Queries -> Times \cup {NoTime}]
  /\ drops \in [Queries -> 0..MaxDrops]

LEMMA ServerStep == ServerTyped /\ [Next]_vars => ServerTyped'
<1> SUFFICES ASSUME ServerTyped, [Next]_vars PROVE ServerTyped'
  OBVIOUS
<1>1. CASE Tick
  <2>1. clock' \in Times
    BY <1>1, Bounds DEF Tick, Times, ServerTyped
  <2> QED BY <1>1, <2>1 DEF Tick, server, ServerTyped
<1>2. CASE Reset
  <2>1. \A q \in Queries : drops[q] + 1 \in 0..MaxDrops
    BY <1>2, Bounds DEF Reset, ServerTyped
  <2> QED BY <1>2, <2>1, NothingCounted DEF Reset, ServerTyped
<1>3. ASSUME NEW q \in Queries, Execute(q) PROVE ServerTyped'
  BY <1>3, Growing DEF Execute, ServerTyped
<1>4. ASSUME NEW q \in Queries, Evict(q) PROVE ServerTyped'
  <2>1. drops[q] + 1 \in 0..MaxDrops
    BY <1>4, Bounds DEF Evict, ServerTyped
  <2> QED BY <1>4, <2>1, NothingCounted DEF Evict, ServerTyped
<1>5. CASE UNCHANGED <<clock, server>>
  BY <1>5 DEF server, ServerTyped
<1> QED BY <1>1, <1>2, <1>3, <1>4, <1>5
     DEF Next, StartCycle, ReadStatements, StoreSnapshot, AbandonCycle, Ask, LoadPoints,
         LoadFails, vars

(* The collectors and what they store.                                     *)
CyclesTyped ==
  /\ cycle = [c \in Collectors |-> cycle[c]]
  /\ \A c \in Collectors :
       /\ cycle[c].stage \in {"idle", "started", "read"}
       /\ cycle[c].at \in Times \cup {-1}
       /\ CycleTyped(c)

RowTyped(row) ==
  row.at \in Times /\ row.query \in Queries /\ row.counters \in Counters \ {NoCounters}

StorageTyped == (\A row \in stored : RowTyped(row)) /\ readings \subseteq Readings

LEMMA NowRead == ServerTyped => Now \in Readings
BY Bounds DEF ServerTyped, Now, Readings

LEMMA CyclesStep == ServerTyped /\ CyclesTyped /\ [Next]_vars => CyclesTyped'
<1> SUFFICES ASSUME ServerTyped, CyclesTyped, [Next]_vars PROVE CyclesTyped'
  OBVIOUS
<1>1. ASSUME NEW c \in Collectors, StartCycle(c) PROVE CyclesTyped'
  <2>1. /\ cycle' = [d \in Collectors |-> cycle'[d]]
        /\ \A d \in Collectors \ {c} : cycle'[d] = cycle[d]
        /\ cycle'[c] = [cycle[c] EXCEPT !.stage = "started", !.at = clock]
    BY <1>1 DEF StartCycle, CyclesTyped
  <2>2. cycle'[c] = [stage |-> "started", at |-> clock, reading |-> cycle[c].reading]
    BY <2>1 DEF CyclesTyped, CycleTyped
  <2>3. clock \in Times
    BY DEF ServerTyped
  <2>4. /\ cycle'[c].stage = "started" /\ cycle'[c].at \in Times \cup {-1}
        /\ CycleTyped(c)'
    BY <2>2, <2>3 DEF CycleTyped
  <2> QED BY <2>1, <2>4 DEF CyclesTyped, CycleTyped
<1>2. ASSUME NEW c \in Collectors, ReadStatements(c) PROVE CyclesTyped'
  <2>1. /\ cycle' = [d \in Collectors |-> cycle'[d]]
        /\ \A d \in Collectors \ {c} : cycle'[d] = cycle[d]
        /\ cycle'[c] = [stage |-> "read", at |-> cycle[c].at, reading |-> Reading(c)]
    BY <1>2 DEF ReadStatements, CyclesTyped
  <2>2. cycle[c].at \in Times
    BY <1>2 DEF ReadStatements, CyclesTyped, CycleTyped
  <2>3. Reading(c) \in Readings /\ Reading(c).at = cycle[c].at
    BY <2>2, Bounds DEF Reading, Readings, ServerTyped
  <2> QED BY <2>1, <2>2, <2>3 DEF CyclesTyped, CycleTyped
<1>3. ASSUME NEW c \in Collectors, EndCycle(c) PROVE CyclesTyped'
  <2>1. /\ cycle' = [d \in Collectors |-> cycle'[d]]
        /\ \A d \in Collectors \ {c} : cycle'[d] = cycle[d]
        /\ cycle'[c] = [stage |-> "idle", at |-> cycle[c].at, reading |-> NoPoint]
    BY <1>3 DEF EndCycle, CyclesTyped
  <2> QED BY <2>1 DEF CyclesTyped, CycleTyped
<1>4. CASE UNCHANGED cycle
  BY <1>4 DEF CyclesTyped, CycleTyped
<1> QED BY <1>1, <1>2, <1>3, <1>4
     DEF Next, Tick, Reset, Execute, Evict, StoreSnapshot, AbandonCycle, Ask, LoadPoints,
         LoadFails, vars

LEMMA StorageStep == CyclesTyped /\ StorageTyped /\ [Next]_vars => StorageTyped'
<1> SUFFICES ASSUME CyclesTyped, StorageTyped, [Next]_vars PROVE StorageTyped'
  OBVIOUS
<1>1. ASSUME NEW c \in Collectors, StoreSnapshot(c) PROVE StorageTyped'
  <2> DEFINE r == cycle[c].reading
  <2>1. r \in Readings
    BY <1>1 DEF StoreSnapshot, CyclesTyped, CycleTyped
  <2>2. stored' = stored \cup SnapshotRows(r)
    BY <1>1 DEF StoreSnapshot
  <2>3. readings' = readings \/ readings' = readings \cup {r}
    BY <1>1 DEF StoreSnapshot
  <2> HIDE DEF r
  <2>4. \A row \in SnapshotRows(r) : RowTyped(row)
    BY <2>1, RowsTyped DEF RowTyped
  <2> QED BY <2>1, <2>2, <2>3, <2>4 DEF StorageTyped
<1>2. CASE UNCHANGED <<stored, readings>>
  BY <1>2 DEF StorageTyped
<1> QED BY <1>1, <1>2
     DEF Next, Tick, Reset, Execute, Evict, StartCycle, ReadStatements, AbandonCycle, Ask,
         LoadPoints, LoadFails, vars

(* The request and what it has loaded.                                     *)
RequestHeld ==
  /\ request.stage \in {"idle", "resolved", "answered"}
  /\ DOMAIN request.points = DOMAIN request.resolved
  /\ RequestTyped

LEMMA AskTyped ==
  ASSUME StorageTyped, NEW kind \in {"weekly-top", "week-over-week"}, NEW w \in AskedWindows,
         Ask(kind, w[1], w[2])
  PROVE  RequestHeld'
<1> DEFINE from == w[1]
           to == w[2]
           wanted == Boundaries(kind, from, to)
           captured == {row.at : row \in {row \in stored : row.at <= to}}
           resolved == [ts \in wanted |-> LatestAtOrBefore(captured, ts)]
           empty == [ts \in wanted |-> NoPoint]
           stage == IF \A ts \in wanted : resolved[ts] = NoTime THEN "answered" ELSE "resolved"
<1>1. from \in Int /\ to \in Int /\ from < to
  BY BoundsAssumption
<1>2. captured \subseteq Times
  BY DEF StorageTyped, RowTyped
<1>3. \A ts \in wanted : resolved[ts] \in Times \cup {NoTime}
  BY <1>2, LatestTyped
<1>4. request' = [stage |-> stage, kind |-> kind, from |-> from, to |-> to,
                  resolved |-> resolved, points |-> empty, known |-> {r.at : r \in readings}]
  BY DEF Ask
<1>5. resolved = [ts \in wanted |-> resolved[ts]] /\ DOMAIN resolved = wanted
  OBVIOUS
<1>6. empty = [ts \in wanted |-> empty[ts]] /\ DOMAIN empty = wanted
      /\ \A ts \in wanted : empty[ts] = NoPoint
  OBVIOUS
<1>7. stage \in {"answered", "resolved"}
  OBVIOUS
<1> HIDE DEF from, to, captured, resolved, empty, stage
<1>8. wanted = Wanted'
  BY <1>4 DEF Wanted
<1> HIDE DEF wanted
<1>9. RequestTyped'
  BY <1>1, <1>3, <1>4, <1>5, <1>6, <1>8 DEF RequestTyped
<1> QED BY <1>4, <1>5, <1>6, <1>7, <1>9 DEF RequestHeld

LEMMA LoadTyped ==
  ASSUME StorageTyped, RequestHeld, LoadPoints
  PROVE  RequestHeld'
<1> DEFINE loaded == [ts \in DOMAIN request.points |->
             IF request.resolved[ts] = NoTime THEN NoPoint ELSE PointAt(request.resolved[ts])]
<1>1. request.stage = "resolved"
  BY DEF LoadPoints
<1>2. DOMAIN request.points = Wanted /\ DOMAIN request.resolved = Wanted
  BY <1>1 DEF RequestHeld, RequestTyped
<1>3. request' = [request EXCEPT !.stage = "answered", !.points = loaded]
  BY DEF LoadPoints
<1>4. request' = [stage |-> "answered", kind |-> request.kind, from |-> request.from,
                  to |-> request.to, resolved |-> request.resolved, points |-> loaded,
                  known |-> request.known]
  BY <1>3 DEF RequestHeld, RequestTyped
<1>5. Wanted' = Wanted
  BY <1>4 DEF Wanted
<1>6. \A ts \in Wanted : loaded[ts] \in Points \cup {NoPoint}
  <2> SUFFICES ASSUME NEW ts \in Wanted, request.resolved[ts] # NoTime
               PROVE  PointAt(request.resolved[ts]) \in Points
    BY <1>2
  <2>1. request.resolved[ts] \in Int
    BY <1>1, Bounds DEF RequestHeld, RequestTyped
  <2>2. \A row \in stored : row.query \in Queries /\ row.counters \in Counters
    BY DEF StorageTyped, RowTyped
  <2> QED BY <2>1, <2>2, LoadedTyped
<1>7. loaded = [ts \in Wanted |-> loaded[ts]] /\ DOMAIN loaded = Wanted
  BY <1>2
<1> HIDE DEF loaded
<1>8. RequestTyped'
  BY <1>1, <1>4, <1>5, <1>6, <1>7 DEF RequestTyped, RequestHeld
<1> QED BY <1>2, <1>4, <1>7, <1>8 DEF RequestHeld

LEMMA RequestStep == StorageTyped /\ RequestHeld /\ [Next]_vars => RequestHeld'
<1> SUFFICES ASSUME StorageTyped, RequestHeld, [Next]_vars PROVE RequestHeld'
  OBVIOUS
<1>1. CASE LoadFails
  BY <1>1 DEF LoadFails, NoRequest, RequestHeld, RequestTyped
<1>2. CASE UNCHANGED request
  BY <1>2 DEF RequestHeld, RequestTyped, Wanted
<1> QED BY <1>1, <1>2, AskTyped, LoadTyped
     DEF Next, Tick, Reset, Execute, Evict, StartCycle, ReadStatements, StoreSnapshot,
         AbandonCycle, vars

LEMMA TypedParts == Typed <=> ServerTyped /\ CyclesTyped /\ StorageTyped /\ RequestHeld
BY Zenon DEF Typed, TypeOK, ServerTyped, CyclesTyped, StorageTyped, RowTyped, RequestHeld

LEMMA TypeStep == Typed /\ [Next]_vars => Typed'
<1>1. Typed' <=> (ServerTyped /\ CyclesTyped /\ StorageTyped /\ RequestHeld)'
  BY Zenon DEF Typed, TypeOK, ServerTyped, CyclesTyped, StorageTyped, RowTyped, RequestHeld
<1> QED BY <1>1, TypedParts, ServerStep, CyclesStep, StorageStep, RequestStep

(***************************************************************************)
(* Rows, cycles and requests hold values of their kind, for any number of  *)
(* collectors that store at the same time.                                 *)
(***************************************************************************)
THEOREM TypeCorrect == Spec => []TypeOK
<1>1. Typed => TypeOK
  BY DEF Typed
<1> QED BY <1>1, TypeInit, TypeStep, PTL DEF Spec

-----------------------------------------------------------------------------
(* What the deltas of two windows say about the window of both.            *)

LEMMA CountersTyped ==
  ASSUME NEW point \in Points \cup {NoPoint}, NEW q \in Queries, NEW f \in Fields
  PROVE  /\ CountersAt(point, q) \in Counters
         /\ CountersAt(point, q)[f] \in Nat
<1>1. ASSUME HasRow(point, q) PROVE CountersAt(point, q) \in Counters
  <2>1. point \in Points /\ q \in DOMAIN point.rows
    BY <1>1 DEF HasRow
  <2>2. PICK known \in SUBSET Queries : point.rows \in [known -> Counters]
    BY <2>1 DEF Points
  <2> QED BY <1>1, <2>1, <2>2 DEF CountersAt
<1>2. CountersAt(point, q) \in Counters
  BY <1>1, NothingCounted DEF CountersAt
<1> QED BY <1>2 DEF Counters

(* The statements a window reports, and with what.                         *)
LEMMA Reported ==
  ASSUME NEW start, NEW end
  PROVE  /\ \A q : q \in DOMAIN BuildQueryDeltas(start, end) <=>
                     /\ q \in Queries /\ HasRow(end, q)
                     /\ ~WentBack(RowDelta(start, end, q))
                     /\ ~Unchanged(RowDelta(start, end, q))
         /\ \A q \in DOMAIN BuildQueryDeltas(start, end) :
              /\ BuildQueryDeltas(start, end)[q] = RowDelta(start, end, q)
              /\ \A f \in Fields :
                   BuildQueryDeltas(start, end)[q][f] =
                     CountersAt(end, q)[f] - CountersAt(start, q)[f]
BY DEF BuildQueryDeltas, RowDelta

LEMMA SmallerOfTwo == \A a, b \in Nat : Min({a, b}) = IF a < b THEN a ELSE b
<1> SUFFICES ASSUME NEW a \in Nat, NEW b \in Nat PROVE Min({a, b}) = IF a < b THEN a ELSE b
  OBVIOUS
<1> DEFINE least == IF a < b THEN a ELSE b
<1>1. least \in {a, b} /\ \A n \in {a, b} : least <= n
  OBVIOUS
<1>2. \A m \in {a, b} : (\A n \in {a, b} : m <= n) => m = least
  OBVIOUS
<1> HIDE DEF least
<1>3. (CHOOSE m \in {a, b} : \A n \in {a, b} : m <= n) = least
  BY <1>1, <1>2
<1> QED BY <1>3 DEF Min, least

LEMMA ResultTyped ==
  ASSUME Typed, Answered, NEW w \in Windows
  PROVE  /\ DOMAIN Result(w[1], w[2]) \in SUBSET Queries
         /\ Result(w[1], w[2]) \in [DOMAIN Result(w[1], w[2]) -> Deltas]
<1>1. w[1] \in Wanted /\ w[2] \in Wanted
  BY DEF Typed, RequestTyped, Answered, Windows, Wanted, Boundaries
<1>2. /\ request.points[w[1]] \in Points \cup {NoPoint}
      /\ request.points[w[2]] \in Points \cup {NoPoint}
  BY <1>1 DEF Typed, RequestTyped, Answered
<1>3. PICK start, end \in Points \cup {NoPoint} : Result(w[1], w[2]) = BuildQueryDeltas(start, end)
  BY <1>2 DEF Result
<1>4. \A q \in Queries : RowDelta(start, end, q) \in Deltas
  BY CountersTyped DEF RowDelta, Deltas
<1>5. DOMAIN BuildQueryDeltas(start, end) \in SUBSET Queries
  BY DEF BuildQueryDeltas
<1>6. BuildQueryDeltas(start, end) \in [DOMAIN BuildQueryDeltas(start, end) -> Deltas]
  BY <1>4 DEF BuildQueryDeltas
<1> QED BY <1>3, <1>5, <1>6

(***************************************************************************)
(* The limited list of an answer is the top of all its deltas by the       *)
(* measure asked for, for any number of statements, and ties.              *)
(***************************************************************************)
THEOREM TopRanked == Spec => []TopIsTop
<1>1. ASSUME Typed PROVE TopIsTop
  <2> SUFFICES ASSUME Answered, NEW w \in Windows, NEW sortBy \in Fields, NEW limit \in 1..2
               PROVE  LET result == Result(w[1], w[2])
                          top == TopQueries(result, sortBy, limit)
                          listed == {top[i] : i \in DOMAIN top}
                      IN /\ listed \subseteq DOMAIN result
                         /\ Cardinality(listed) = Len(top)
                         /\ Len(top) = Min({limit, Cardinality(DOMAIN result)})
                         /\ \A i \in DOMAIN top, q \in DOMAIN result :
                              (\A j \in 1..i : top[j] # q) =>
                                result[q][sortBy] <= result[top[i]][sortBy]
    BY DEF TopIsTop
  <2>1. PICK result, S, top :
          /\ result = Result(w[1], w[2]) /\ S = DOMAIN result
          /\ top = TopQueries(result, sortBy, limit)
    OBVIOUS
  <2>2. S \in SUBSET Int /\ S \subseteq Queries /\ IsFiniteSet(S) /\ result \in [S -> Deltas]
    BY <1>1, <2>1, ResultTyped, QueriesAssumption, FS_Subset
  <2>3. Cardinality(S) \in Nat /\ Length(result, limit) = Min({limit, Cardinality(S)})
    <3>1. Cardinality(S) \in Nat /\ limit \in Nat
      BY <2>2, FS_CardinalityType
    <3>2. Min({limit, Cardinality(S)})
            = IF limit < Cardinality(S) THEN limit ELSE Cardinality(S)
      BY <3>1, SmallerOfTwo
    <3> QED BY <2>1, <3>1, <3>2 DEF Length
  <2>4. /\ top \in [1..Length(result, limit) -> S]
        /\ \A i, j \in DOMAIN top : top[i] = top[j] => i = j
        /\ \A i \in DOMAIN top, q \in S :
             (\A j \in 1..i : top[j] # q) => AheadOf(result, sortBy, top[i], q)
    BY <2>1, <2>2, TopIsAhead
  <2>5. Length(result, limit) \in Nat
    BY <2>1, <2>3 DEF Length
  <2>6. Len(top) = Length(result, limit)
    BY <2>4, <2>5
  <2> DEFINE listed == {top[i] : i \in DOMAIN top}
  <2>7. listed \subseteq S
    BY <2>4
  <2>8. Cardinality(listed) = Length(result, limit)
    <3>1. top \in Bijection(1..Length(result, limit), listed)
      <4>1. top \in [1..Length(result, limit) -> listed]
        BY <2>4
      <4>2. top \in Injection(1..Length(result, limit), listed)
        BY <2>4, <4>1 DEF Injection, IsInjective
      <4>3. top \in Surjection(1..Length(result, limit), listed)
        BY <2>4, <4>1 DEF Surjection
      <4> QED BY <4>2, <4>3 DEF Bijection
    <3> HIDE DEF listed
    <3>2. ExistsBijection(1..Length(result, limit), listed)
      BY <3>1 DEF ExistsBijection
    <3> QED BY <2>5, <3>2, FS_CountingElements
  <2>9. ASSUME NEW i \in DOMAIN top, NEW q \in S, \A j \in 1..i : top[j] # q
        PROVE  result[q][sortBy] <= result[top[i]][sortBy]
    <3>1. AheadOf(result, sortBy, top[i], q)
      BY <2>4, <2>9
    <3>2. result[q][sortBy] \in Int /\ result[top[i]][sortBy] \in Int
      <4>1. top[i] \in S
        BY <2>4, <2>9
      <4>2. result[q] \in Deltas /\ result[top[i]] \in Deltas
        BY <2>2, <2>9, <4>1
      <4> QED BY <4>2 DEF Deltas
    <3>3. \/ result[top[i]][sortBy] > result[q][sortBy]
          \/ result[top[i]][sortBy] = result[q][sortBy]
      BY <3>1, AheadIsNoSmaller
    <3> QED BY <3>2, <3>3
  <2>10. /\ listed \subseteq DOMAIN result
         /\ Cardinality(listed) = Len(top)
         /\ Len(top) = Min({limit, Cardinality(DOMAIN result)})
         /\ \A i \in DOMAIN top, q \in DOMAIN result :
              (\A j \in 1..i : top[j] # q) => result[q][sortBy] <= result[top[i]][sortBy]
    BY <2>1, <2>3, <2>6, <2>7, <2>8, <2>9
  <2> QED BY <2>1, <2>10
<1> QED BY <1>1, TypeInit, TypeStep, PTL DEF Spec

-----------------------------------------------------------------------------
(* The readings of one collector are in order.                             *)

LEMMA GrowsAlike ==
  ASSUME NEW q \in Queries, NEW a \in Counters, NEW b \in Counters, NEW f \in Fields
  PROVE  Grown(q, a)[f] - Grown(q, b)[f] = a[f] - b[f]
BY Bounds DEF Grown, Counters, Fields

LEMMA ReadBy ==
  ASSUME NEW a \in Readings, NEW b \in Readings,
         \A q \in Queries : a.drops[q] <= b.drops[q],
         \A q \in Queries, f \in Fields :
           /\ a.executed[q][f] <= b.executed[q][f]
           /\ Lost(a, q, f) <= Lost(b, q, f)
           /\ a.drops[q] = b.drops[q] => Lost(a, q, f) = Lost(b, q, f)
  PROVE  Precedes(a, b)
BY DEF Precedes

(* Whatever happens to the server, what was read before stays before.      *)
LEMMA NowGrows == Typed /\ [Next]_vars => Precedes(Now, Now')
<1> SUFFICES ASSUME Typed, [Next]_vars PROVE Precedes(Now, Now')
  OBVIOUS
<1>1. ServerTyped /\ ServerTyped' /\ Now \in Readings /\ Now' \in Readings
  <2>1. ServerTyped /\ ServerTyped'
    BY TypedParts, ServerStep
  <2> QED BY <2>1, Bounds DEF ServerTyped, Now, Readings
<1>2. /\ Now.counters = counters /\ Now.executed = executed /\ Now.drops = drops
      /\ Now'.counters = counters' /\ Now'.executed = executed' /\ Now'.drops = drops'
  BY DEF Now
<1>3. \A q \in Queries, f \in Fields :
        /\ counters[q] \in Counters /\ executed[q] \in Counters /\ drops[q] \in Nat
        /\ counters[q][f] \in Nat /\ executed[q][f] \in Nat
        /\ counters'[q][f] \in Nat /\ executed'[q][f] \in Nat
  BY <1>1, Bounds DEF ServerTyped, Counters
<1>4. ASSUME NEW p \in Queries, Execute(p) PROVE Precedes(Now, Now')
  <2>1. /\ drops' = drops
        /\ \A q \in Queries :
             IF q = p THEN /\ counters'[q] = Grown(q, counters[q])
                           /\ executed'[q] = Grown(q, executed[q])
             ELSE counters'[q] = counters[q] /\ executed'[q] = executed[q]
    BY <1>1, <1>4 DEF Execute, ServerTyped
  <2>2. \A q \in Queries : Now.drops[q] <= Now'.drops[q]
    BY <1>2, <1>3, <2>1, Bounds, ReadingFields DEF Fields
  <2>3. ASSUME NEW q \in Queries, NEW f \in Fields
        PROVE  /\ Now.executed[q][f] <= Now'.executed[q][f]
               /\ Lost(Now, q, f) = Lost(Now', q, f)
    <3>1. CASE q = p
      <4>1. /\ Grown(q, executed[q])[f] >= executed[q][f]
            /\ Grown(q, executed[q])[f] - Grown(q, counters[q])[f] =
                 executed[q][f] - counters[q][f]
        BY <1>3, Growing, GrowsAlike
      <4> QED BY <1>2, <1>3, <2>1, <3>1, <4>1 DEF Lost
    <3>2. CASE q # p
      BY <1>2, <1>3, <2>1, <3>2 DEF Lost
    <3> QED BY <3>1, <3>2
  <2>4. \A q \in Queries, f \in Fields : Lost(Now, q, f) \in Int
    BY <1>2, <1>3 DEF Lost
  <2> QED BY <1>1, <2>2, <2>3, <2>4, ReadBy
<1>5. ASSUME executed' = executed,
             \A q \in Queries : \/ counters'[q] = counters[q] /\ drops'[q] = drops[q]
                                \/ counters'[q] = NoCounters /\ drops'[q] = drops[q] + 1
      PROVE  Precedes(Now, Now')
  <2>1. \A q \in Queries : Now.drops[q] <= Now'.drops[q]
    <3> SUFFICES ASSUME NEW q \in Queries PROVE drops[q] <= drops'[q]
      BY <1>2
    <3>1. drops[q] \in Nat
      BY <1>1, Bounds DEF ServerTyped
    <3> QED BY <1>5, <3>1
  <2>2. ASSUME NEW q \in Queries, NEW f \in Fields
        PROVE  /\ Now.executed[q][f] <= Now'.executed[q][f]
               /\ Lost(Now, q, f) <= Lost(Now', q, f)
               /\ Now.drops[q] = Now'.drops[q] => Lost(Now, q, f) = Lost(Now', q, f)
    <3>1. CASE counters'[q] = counters[q] /\ drops'[q] = drops[q]
      BY <1>2, <1>3, <1>5, <3>1 DEF Lost
    <3>2. CASE counters'[q] = NoCounters /\ drops'[q] = drops[q] + 1
      <4>1. counters'[q][f] = 0
        BY <3>2, NothingCounted
      <4> QED BY <1>2, <1>3, <1>5, <3>2, <4>1 DEF Lost
    <3> QED BY <1>5, <3>1, <3>2
  <2> QED BY <1>1, <2>1, <2>2, ReadBy
<1>6. CASE Reset
  BY <1>5, <1>6 DEF Reset
<1>7. ASSUME NEW p \in Queries, Evict(p) PROVE Precedes(Now, Now')
  <2>1. \A q \in Queries : \/ counters'[q] = counters[q] /\ drops'[q] = drops[q]
                           \/ counters'[q] = NoCounters /\ drops'[q] = drops[q] + 1
    BY <1>1, <1>7 DEF Evict, ServerTyped
  <2> QED BY <1>5, <1>7, <2>1 DEF Evict
<1>8. CASE UNCHANGED server
  BY <1>5, <1>8 DEF server
<1> QED BY <1>4, <1>6, <1>7, <1>8
     DEF Next, Tick, StartCycle, ReadStatements, StoreSnapshot, AbandonCycle, Ask, LoadPoints,
         LoadFails, vars

LEMMA SoundInit == Init => Sound /\ readings = {} /\ Precedes(Origin, Now)
                           /\ \A c \in Collectors : cycle[c].stage = "idle"
<1> SUFFICES ASSUME Init
             PROVE  Sound /\ readings = {} /\ Precedes(Origin, Now)
                    /\ \A c \in Collectors : cycle[c].stage = "idle"
  OBVIOUS
<1>1. Typed /\ Now \in Readings
  BY TypeInit, TypedParts, NowRead
<1>2. Precedes(Origin, Now)
  BY <1>1, OriginRead, PrecedesSame DEF Init, Origin, Now
<1>3. readings = {} /\ stored = {} /\ request.stage = "idle"
  BY DEF Init, NoRequest
<1>4. \A c \in Collectors : cycle[c].stage = "idle"
  BY DEF Init
<1> QED BY <1>1, <1>2, <1>3, <1>4 DEF Sound, OneReadingEach, StoredIsRead, RequestInStep

LEMMA InvInit == OneCollector /\ Init => Inv
BY SoundInit DEF Inv, ReadInOrder, CyclesInOrder

(* What is stored is the reading of the cycle, stamped when it began.      *)
LEMMA StoredNew ==
  ASSUME Typed, NEW c \in Collectors, StoreSnapshot(c)
  PROVE  /\ cycle[c].stage = "read"
         /\ cycle[c].reading \in Readings /\ cycle[c].reading.at = cycle[c].at
         /\ ~Conflicts(SnapshotRows(cycle[c].reading))
         /\ stored' = stored \cup SnapshotRows(cycle[c].reading)
         /\ IF SnapshotRows(cycle[c].reading) = {} THEN readings' = readings
            ELSE readings' = readings \cup {cycle[c].reading}
<1>1. cycle[c].stage = "read"
  BY DEF StoreSnapshot
<1>2. cycle[c].reading \in Readings /\ cycle[c].reading.at = cycle[c].at
  BY <1>1 DEF Typed, CycleTyped
<1> QED BY <1>1, <1>2 DEF StoreSnapshot

(* With one collector it was taken after all others.                       *)
LEMMA StoredNext ==
  ASSUME Inv, NEW c \in Collectors, StoreSnapshot(c)
  PROVE  /\ Taken(cycle[c].reading)
         /\ \A r \in readings : /\ Precedes(r, cycle[c].reading)
                                /\ r.at < cycle[c].reading.at
<1>1. cycle[c].stage = "read" /\ cycle[c].reading.at = cycle[c].at
  BY StoredNew DEF Inv, Sound
<1> QED BY <1>1 DEF Inv, CyclesInOrder

LEMMA TakenStays ==
  ASSUME Typed, [Next]_vars, NEW r \in Readings, Taken(r)
  PROVE  Taken(r)'
<1>1. Now \in Readings /\ Now' \in Readings
  BY TypedParts, ServerStep, NowRead, Bounds DEF ServerTyped, Now, Readings
<1> QED BY <1>1, NowGrows, PrecedesOn DEF Taken

LEMMA ReadStep == Inv /\ [Next]_vars => ReadInOrder' /\ OneReadingEach'
<1> SUFFICES ASSUME Inv, [Next]_vars PROVE ReadInOrder' /\ OneReadingEach'
  OBVIOUS
<1>1. Typed /\ Now \in Readings /\ Now' \in Readings /\ readings \subseteq Readings
  <2>1. ServerTyped /\ ServerTyped'
    BY TypedParts, ServerStep DEF Inv, Sound
  <2> QED BY <2>1, Bounds DEF Inv, Sound, Typed, ServerTyped, Now, Readings
<1>2. Precedes(Origin, Now')
  BY <1>1, NowGrows, OriginRead, PrecedesOn DEF Inv, ReadInOrder
<1>3. \A r \in readings : Taken(r)'
  BY <1>1, TakenStays DEF Inv, ReadInOrder
<1>4. CASE UNCHANGED readings
  BY <1>2, <1>3, <1>4 DEF Inv, Sound, ReadInOrder, OneReadingEach
<1>5. ASSUME NEW c \in Collectors, StoreSnapshot(c) PROVE ReadInOrder' /\ OneReadingEach'
  <2>1. PICK new \in Readings :
          /\ Taken(new)
          /\ \A r \in readings : Precedes(r, new) /\ r.at < new.at
          /\ readings' = readings \/ readings' = readings \cup {new}
    BY <1>1, <1>5, StoredNext, StoredNew
  <2>2. Taken(new)' /\ Precedes(new, new)
    BY <1>1, <2>1, TakenStays, PrecedesSame
  <2>3. \A r \in Readings : r.at \in Nat
    BY Bounds DEF Readings
  <2>4. \A r \in readings' : Taken(r)'
    BY <1>3, <2>1, <2>2
  <2>5. ASSUME NEW r \in readings', NEW s \in readings'
        PROVE  /\ r.at <= s.at => Precedes(r, s)
               /\ r.at = s.at => r = s
    <3>1. r \in Readings /\ s \in Readings
      BY <1>1, <2>1
    <3>2. CASE r \in readings /\ s \in readings
      BY <3>2 DEF Inv, Sound, ReadInOrder, OneReadingEach
    <3>3. CASE r = new /\ s = new
      BY <2>2, <3>3
    <3>4. CASE r \in readings /\ s = new
      BY <2>1, <2>3, <3>1, <3>4
    <3>5. CASE r = new /\ s \in readings
      BY <2>1, <2>3, <3>1, <3>5
    <3> QED BY <2>1, <3>2, <3>3, <3>4, <3>5
  <2> QED BY <1>2, <2>4, <2>5 DEF ReadInOrder, OneReadingEach
<1> QED BY <1>4, <1>5
     DEF Next, Tick, Reset, Execute, Evict, StartCycle, ReadStatements, AbandonCycle, Ask,
         LoadPoints, LoadFails, vars

(* The part of CyclesInOrder about one collector.                          *)
InOrder(c) ==
  /\ \A r \in readings : r.at <= cycle[c].at
  /\ cycle[c].stage # "idle" => \A r \in readings : r.at < cycle[c].at
  /\ cycle[c].stage = "read" =>
       /\ Taken(cycle[c].reading)
       /\ \A r \in readings : Precedes(r, cycle[c].reading)

LEMMA CycleOrderStep == Inv /\ [Next]_vars => CyclesInOrder'
<1> SUFFICES ASSUME Inv, [Next]_vars, NEW c \in Collectors PROVE InOrder(c)'
  BY DEF CyclesInOrder, InOrder
<1>1. Typed /\ Typed' /\ InOrder(c) /\ CycleTyped(c) /\ readings \subseteq Readings
  BY TypeStep DEF Inv, Sound, Typed, CyclesInOrder, InOrder
<1>2. Now \in Readings /\ Now' \in Readings /\ clock \in Nat
  <2>1. ServerTyped /\ ServerTyped'
    BY <1>1, TypedParts, ServerStep
  <2> QED BY <2>1, Bounds DEF ServerTyped, Now, Readings
<1>3. /\ cycle = [d \in Collectors |-> cycle[d]] /\ \A d \in Collectors : d = c
      /\ cycle[c].at \in Int /\ \A r \in readings : r.at \in Int
  BY <1>1, Bounds DEF Inv, OneCollector, Typed, TypeOK, Readings
<1>4. CASE StartCycle(c)
  <2>1. cycle'[c] = [cycle[c] EXCEPT !.stage = "started", !.at = clock]
    BY <1>3, <1>4 DEF StartCycle
  <2>2. cycle'[c] = [stage |-> "started", at |-> clock, reading |-> cycle[c].reading]
    BY <1>1, <2>1 DEF CycleTyped
  <2>3. \A r \in readings : r.at < clock
    BY <1>1, <1>2, <1>3, <1>4 DEF StartCycle, InOrder
  <2>4. readings' = readings
    BY <1>4 DEF StartCycle
  <2> QED BY <1>2, <1>3, <2>2, <2>3, <2>4 DEF InOrder
<1>5. CASE ReadStatements(c)
  <2>1. cycle'[c] = [stage |-> "read", at |-> cycle[c].at, reading |-> Reading(c)]
    BY <1>3, <1>5 DEF ReadStatements
  <2>2. readings' = readings /\ Now' = Now /\ cycle[c].stage = "started"
    BY <1>5 DEF ReadStatements, server, Now
  <2>3. PICK new \in Readings : new = Reading(c)
    BY <1>1, <1>2, <2>2 DEF CycleTyped, Reading, Readings, Now
  <2>4. /\ new.counters = Now.counters /\ new.executed = Now.executed /\ new.drops = Now.drops
    BY <2>3 DEF Reading, Now
  <2>5. Precedes(Now, new) /\ Precedes(new, Now)
    BY <1>2, <2>3, <2>4, PrecedesSame
  <2>6. Precedes(Origin, Now) /\ \A r \in readings : Precedes(r, Now)
    BY DEF Inv, ReadInOrder, Taken
  <2>7. Taken(new)
    BY <1>2, <2>3, <2>5, <2>6, OriginRead, PrecedesOn DEF Taken
  <2>8. \A r \in readings : Precedes(r, new)
    BY <1>1, <1>2, <2>3, <2>5, <2>6, PrecedesOn
  <2>9. Taken(new)'
    BY <1>1, <2>3, <2>7, TakenStays
  <2> QED BY <1>1, <2>1, <2>2, <2>3, <2>8, <2>9 DEF InOrder
<1>6. CASE StoreSnapshot(c)
  <2>1. PICK new \in Readings :
          /\ \A r \in readings : r.at < new.at
          /\ new.at = cycle[c].at
          /\ readings' = readings \/ readings' = readings \cup {new}
    BY <1>1, <1>6, StoredNext, StoredNew
  <2>2. cycle'[c] = [stage |-> "idle", at |-> cycle[c].at, reading |-> NoPoint]
    BY <1>3, <1>6 DEF StoreSnapshot, EndCycle
  <2> QED BY <1>1, <1>3, <2>1, <2>2 DEF InOrder
<1>7. CASE AbandonCycle(c)
  <2>1. cycle'[c] = [stage |-> "idle", at |-> cycle[c].at, reading |-> NoPoint]
    BY <1>3, <1>7 DEF AbandonCycle, EndCycle
  <2>2. readings' = readings
    BY <1>7 DEF AbandonCycle
  <2> QED BY <1>1, <1>3, <2>1, <2>2 DEF InOrder
<1>8. CASE UNCHANGED <<cycle, readings>>
  <2>1. PICK same : same = cycle[c].reading
    OBVIOUS
  <2>2. cycle[c].stage = "read" => Taken(same)'
    BY <1>1, <2>1, TakenStays DEF CycleTyped, InOrder
  <2> QED BY <1>1, <1>8, <2>1, <2>2 DEF InOrder
<1> QED BY <1>3, <1>4, <1>5, <1>6, <1>7, <1>8
     DEF Next, Tick, Reset, Execute, Evict, Ask, LoadPoints, LoadFails, vars

LEMMA StoredStep == Sound /\ [Next]_vars => StoredIsRead'
<1> SUFFICES ASSUME Sound, [Next]_vars PROVE StoredIsRead'
  OBVIOUS
<1>1. StoredIsRead
  BY DEF Sound
<1>2. CASE UNCHANGED <<stored, readings>>
  BY <1>1, <1>2 DEF StoredIsRead
<1>3. ASSUME NEW c \in Collectors, StoreSnapshot(c) PROVE StoredIsRead'
  <2>1. PICK new \in Readings :
          /\ stored' = stored \cup SnapshotRows(new)
          /\ IF SnapshotRows(new) = {} THEN readings' = readings
             ELSE readings' = readings \cup {new}
    BY <1>3, StoredNew DEF Sound
  <2>2. ASSUME NEW row \in stored' PROVE \E r \in readings' : row \in SnapshotRows(r)
    BY <1>1, <2>1 DEF StoredIsRead
  <2>3. ASSUME NEW r \in readings' PROVE SnapshotRows(r) \subseteq stored' /\ SnapshotRows(r) # {}
    BY <1>1, <2>1 DEF StoredIsRead
  <2> QED BY <2>2, <2>3 DEF StoredIsRead
<1> QED BY <1>2, <1>3
     DEF Next, Tick, Reset, Execute, Evict, StartCycle, ReadStatements, AbandonCycle, Ask,
         LoadPoints, LoadFails, vars

-----------------------------------------------------------------------------
(* What a request resolves and loads.                                      *)

LEMMA LatestIs ==
  ASSUME NEW S \in SUBSET Times, NEW ts
  PROVE  LET upTo == {at \in S : at <= ts}
         IN IF upTo = {} THEN LatestAtOrBefore(S, ts) = NoTime
            ELSE /\ LatestAtOrBefore(S, ts) = Max(upTo)
                 /\ LatestAtOrBefore(S, ts) \in upTo
                 /\ LatestAtOrBefore(S, ts) # NoTime
<1> DEFINE upTo == {at \in S : at <= ts}
<1>1. upTo # {} => Max(upTo) \in upTo
  BY Latest
<1>2. \A at \in upTo : at # NoTime
  BY Bounds
<1>3. LatestAtOrBefore(S, ts) = IF upTo = {} THEN NoTime ELSE Max(upTo)
  BY DEF LatestAtOrBefore
<1> HIDE DEF upTo
<1>4. IF upTo = {} THEN LatestAtOrBefore(S, ts) = NoTime
      ELSE /\ LatestAtOrBefore(S, ts) = Max(upTo)
           /\ LatestAtOrBefore(S, ts) \in upTo
           /\ LatestAtOrBefore(S, ts) # NoTime
  BY <1>1, <1>2, <1>3
<1> QED BY <1>4 DEF upTo

(* The rows of a captured_at are those of the one reading taken then.      *)
LEMMA Loaded ==
  ASSUME Sound, NEW r \in readings
  PROVE  PointAt(r.at) = PointOf(r)
<1> DEFINE rows == {row \in stored : row.at = r.at}
<1>1. readings \subseteq Readings
  BY DEF Sound, Typed
<1>2. rows = SnapshotRows(r)
  <2>1. ASSUME NEW row \in rows PROVE row \in SnapshotRows(r)
    <3>1. PICK s \in readings : row \in SnapshotRows(s)
      BY DEF Sound, StoredIsRead
    <3>2. s.at = r.at
      BY <1>1, <3>1, RowsTyped
    <3>3. s = r
      BY <3>2 DEF Sound, OneReadingEach
    <3> QED BY <3>1, <3>3
  <2>2. ASSUME NEW row \in SnapshotRows(r) PROVE row \in rows
    BY <1>1, RowsTyped DEF Sound, StoredIsRead
  <2> QED BY <2>1, <2>2
<1>3. /\ \A row \in rows : row.query \in Listed(r) /\ row.counters = r.counters[row.query]
      /\ \A q \in Listed(r) : \E row \in rows : row.query = q
  <2>1. \A row \in SnapshotRows(r) :
          row.query \in Listed(r) /\ row.counters = r.counters[row.query]
    BY DEF SnapshotRows, Listed
  <2>2. ASSUME NEW q \in Listed(r) PROVE \E row \in SnapshotRows(r) : row.query = q
    <3> DEFINE row == [at |-> r.at, query |-> q, counters |-> r.counters[q]]
    <3>1. row \in SnapshotRows(r) /\ row.query = q
      BY DEF SnapshotRows, Listed
    <3> QED BY <3>1
  <2> HIDE DEF rows
  <2> QED BY <1>2, <2>1, <2>2
<1>4. {row.query : row \in rows} = Listed(r)
  BY <1>3
<1>5. \A q \in Listed(r) : (CHOOSE row \in rows : row.query = q).counters = r.counters[q]
  <2> SUFFICES ASSUME NEW q \in Listed(r)
               PROVE  (CHOOSE row \in rows : row.query = q).counters = r.counters[q]
    OBVIOUS
  <2>1. PICK found \in rows : found = (CHOOSE row \in rows : row.query = q) /\ found.query = q
    BY <1>3
  <2> QED BY <1>3, <2>1
<1>6. PointAt(r.at) =
        [at |-> r.at,
         rows |-> [q \in {row.query : row \in rows} |->
                     (CHOOSE row \in rows : row.query = q).counters]]
  BY DEF PointAt
<1> HIDE DEF rows
<1>7. [q \in {row.query : row \in rows} |-> (CHOOSE row \in rows : row.query = q).counters] =
      [q \in Listed(r) |-> r.counters[q]]
  BY <1>4, <1>5
<1> QED BY <1>6, <1>7 DEF PointOf

LEMMA AskInStep ==
  ASSUME Sound, NEW kind \in {"weekly-top", "week-over-week"}, NEW w \in AskedWindows,
         Ask(kind, w[1], w[2])
  PROVE  RequestInStep'
<1> DEFINE from == w[1]
           to == w[2]
           wanted == Boundaries(kind, from, to)
           captured == {row.at : row \in {row \in stored : row.at <= to}}
           known == {r.at : r \in readings}
           resolved == [ts \in wanted |-> LatestAtOrBefore(captured, ts)]
           empty == [ts \in wanted |-> NoPoint]
           stage == IF \A ts \in wanted : resolved[ts] = NoTime THEN "answered" ELSE "resolved"
<1>1. from \in Int /\ to \in Int /\ from < to
  BY BoundsAssumption
<1>2. readings \subseteq Readings /\ known \subseteq Times /\ readings' = readings
  BY DEF Sound, Typed, Readings, Ask
<1>3. \A at : at \in captured <=> at \in known /\ at <= to
  <2>1. ASSUME NEW row \in stored PROVE row.at \in known
    BY <1>2, RowsTyped DEF Sound, StoredIsRead
  <2>2. ASSUME NEW r \in readings PROVE \E row \in stored : row.at = r.at
    <3>1. PICK row : row \in SnapshotRows(r)
      BY DEF Sound, StoredIsRead
    <3>2. row \in stored
      BY <3>1 DEF Sound, StoredIsRead
    <3> QED BY <1>2, <3>1, <3>2, RowsTyped
  <2> QED BY <2>1, <2>2
<1>4. \A ts \in wanted : ts \in Int /\ ts <= to
  BY <1>1 DEF Boundaries
<1>5. request' = [stage |-> stage, kind |-> kind, from |-> from, to |-> to,
                  resolved |-> resolved, points |-> empty, known |-> known]
  BY DEF Ask
<1>6. \A ts \in wanted : resolved[ts] = LatestAtOrBefore(captured, ts) /\ empty[ts] = NoPoint
  OBVIOUS
<1>7. stage = "answered" => \A ts \in wanted : resolved[ts] = NoTime
  OBVIOUS
<1> HIDE DEF from, to, captured, known, resolved, empty, stage
<1>8. Wanted' = wanted
  BY <1>5 DEF Wanted
<1> HIDE DEF wanted
<1>9. ASSUME NEW ts \in wanted
      PROVE  resolved[ts] = LatestAtOrBefore(known, ts)
  <2>1. {at \in captured : at <= ts} = {at \in known : at <= ts}
    <3>1. \A at \in known : at \in Int
      BY <1>2, Bounds
    <3> QED BY <1>1, <1>3, <1>4, <3>1
  <2> QED BY <1>6, <2>1 DEF LatestAtOrBefore
<1>10. ASSUME stage = "answered", NEW ts \in wanted PROVE Pointed(ts)'
  <2>1. {at \in known : at <= ts} = {}
    BY <1>2, <1>7, <1>9, <1>10, LatestIs
  <2>2. Upto(ts)' = {}
    BY <1>5, <2>1 DEF Upto
  <2>3. request'.points[ts] = NoPoint
    BY <1>5, <1>6
  <2> QED BY <2>2, <2>3 DEF Pointed
<1>11. request'.known \subseteq {r.at : r \in readings'}
  BY <1>2, <1>5 DEF known
<1> QED BY <1>5, <1>8, <1>9, <1>10, <1>11 DEF RequestInStep

LEMMA LoadInStep ==
  ASSUME Sound, LoadPoints
  PROVE  RequestInStep'
<1> DEFINE loaded == [ts \in DOMAIN request.points |->
             IF request.resolved[ts] = NoTime THEN NoPoint ELSE PointAt(request.resolved[ts])]
<1>1. request.stage = "resolved" /\ readings' = readings
  BY DEF LoadPoints
<1>2. RequestTyped /\ RequestInStep /\ readings \subseteq Readings
  BY DEF Sound, Typed
<1>3. DOMAIN request.points = Wanted
  BY <1>1, <1>2 DEF RequestTyped
<1>4. request' = [request EXCEPT !.stage = "answered", !.points = loaded]
  BY DEF LoadPoints
<1>5. request' = [stage |-> "answered", kind |-> request.kind, from |-> request.from,
                  to |-> request.to, resolved |-> request.resolved, points |-> loaded,
                  known |-> request.known]
  BY <1>2, <1>4 DEF RequestTyped
<1>6. Wanted' = Wanted
  BY <1>5 DEF Wanted
<1>7. \A ts \in Wanted :
        loaded[ts] = IF request.resolved[ts] = NoTime THEN NoPoint
                     ELSE PointAt(request.resolved[ts])
  BY <1>3
<1> HIDE DEF loaded
<1>8. request.known \subseteq Times
  BY <1>1, <1>2 DEF RequestInStep, Readings
<1>9. ASSUME NEW ts \in Wanted PROVE Pointed(ts)'
  <2>1. Upto(ts)' = Upto(ts) /\ Upto(ts) = {at \in request.known : at <= ts}
    BY <1>5 DEF Upto
  <2>2. request.resolved[ts] = LatestAtOrBefore(request.known, ts)
    BY <1>1, <1>2 DEF RequestInStep
  <2>3. CASE Upto(ts) = {}
    BY <1>5, <1>7, <1>8, <2>1, <2>2, <2>3, LatestIs DEF Pointed
  <2>4. CASE Upto(ts) # {}
    <3>1. /\ request.resolved[ts] = Max(Upto(ts)) /\ request.resolved[ts] \in request.known
          /\ request.resolved[ts] # NoTime
      BY <1>8, <2>1, <2>2, <2>4, LatestIs
    <3>2. PICK r \in readings : r.at = Max(Upto(ts))
      BY <1>1, <1>2, <3>1 DEF RequestInStep
    <3>3. loaded[ts] = PointOf(r)
      BY <1>7, <3>1, <3>2, Loaded
    <3> QED BY <1>1, <1>5, <2>1, <2>4, <3>2, <3>3 DEF Pointed
  <2> QED BY <2>3, <2>4
<1> QED BY <1>1, <1>2, <1>5, <1>6, <1>9 DEF RequestInStep

LEMMA RequestOrderStep == Sound /\ [Next]_vars => RequestInStep'
<1> SUFFICES ASSUME Sound, [Next]_vars PROVE RequestInStep'
  OBVIOUS
<1>1. CASE LoadFails
  BY <1>1 DEF LoadFails, NoRequest, RequestInStep
<1>2. CASE UNCHANGED request
  <2>1. readings \subseteq readings'
    BY <1>2 DEF Next, Tick, Reset, Execute, Evict, StartCycle, ReadStatements, StoreSnapshot,
       AbandonCycle, Ask, LoadPoints, LoadFails, vars
  <2>2. \A ts : Upto(ts)' = Upto(ts)
    BY <1>2 DEF Upto
  <2>3. \A ts : Pointed(ts) => Pointed(ts)'
    BY <1>2, <2>1, <2>2 DEF Pointed
  <2> QED BY <1>2, <2>1, <2>3 DEF Sound, RequestInStep, Wanted
<1> QED BY <1>1, <1>2, AskInStep, LoadInStep
     DEF Next, Tick, Reset, Execute, Evict, StartCycle, ReadStatements, StoreSnapshot,
         AbandonCycle, vars

LEMMA SoundStep == Sound /\ [Next]_vars /\ OneReadingEach' => Sound'
BY TypeStep, StoredStep, RequestOrderStep DEF Sound

LEMMA InvStep == Inv /\ [Next]_vars => Inv'
BY SoundStep, ReadStep, CycleOrderStep DEF Inv, OneCollector

-----------------------------------------------------------------------------
(* Several collectors, nothing dropped.                                    *)

LEMMA UndroppedInit == MaxDrops = 0 /\ Init => InvUndropped
BY SoundInit DEF InvUndropped, InSomeOrder, Held

(* What is read is all that was done.                                      *)
LEMMA AllCounted ==
  ASSUME MaxDrops = 0, Typed, NEW r \in Readings, Taken(r), NEW q \in Queries, NEW f \in Fields
  PROVE  r.counters[q][f] = r.executed[q][f] /\ r.counters[q][f] \in Nat
<1>1. Now.drops[q] = 0 /\ Now \in Readings
  BY TypedParts, NowRead DEF ServerTyped, Now
<1>2. Origin.drops[q] = 0 /\ Lost(Origin, q, f) = 0
  BY NothingCounted DEF Origin, Lost
<1>3. /\ r.drops[q] \in Nat /\ r.counters[q][f] \in Nat /\ r.executed[q][f] \in Nat
  BY ReadingFields
<1>4. r.drops[q] = 0
  BY <1>1, <1>2, <1>3 DEF Taken, Precedes
<1>5. Lost(r, q, f) = 0
  BY <1>2, <1>4 DEF Taken, Precedes
<1> QED BY <1>3, <1>5 DEF Lost

LEMMA SomeOrderStep == InvUndropped /\ [Next]_vars => InSomeOrder'
<1> SUFFICES ASSUME InvUndropped, [Next]_vars PROVE InSomeOrder'
  OBVIOUS
<1>1. Typed /\ Now \in Readings /\ Now' \in Readings /\ Held \subseteq Readings
  <2>1. Typed
    BY DEF InvUndropped, Sound
  <2>2. ServerTyped /\ ServerTyped'
    BY <2>1, TypedParts, ServerStep
  <2> QED BY <2>1, <2>2, Bounds DEF Typed, CycleTyped, Held, ServerTyped, Now, Readings
<1>2. Precedes(Origin, Now')
  BY <1>1, NowGrows, OriginRead, PrecedesOn DEF InvUndropped, InSomeOrder
<1>3. \A r \in Held : Taken(r)'
  BY <1>1, TakenStays DEF InvUndropped, InSomeOrder
<1>4. ASSUME Held' \subseteq Held PROVE InSomeOrder'
  BY <1>2, <1>3, <1>4 DEF InvUndropped, InSomeOrder
<1>5. ASSUME NEW c \in Collectors, ReadStatements(c) PROVE InSomeOrder'
  <2>1. /\ \A d \in Collectors \ {c} : cycle'[d] = cycle[d]
        /\ cycle'[c] = [stage |-> "read", at |-> cycle[c].at, reading |-> Reading(c)]
        /\ readings' = readings /\ Now' = Now /\ cycle[c].stage = "started"
    BY <1>1, <1>5 DEF ReadStatements, server, Now, Typed
  <2>2. PICK new \in Readings : new = Reading(c)
    BY <1>1, <2>1 DEF Typed, CycleTyped, Reading, Readings, Now
  <2>3. Held' \subseteq Held \cup {new}
    BY <2>1, <2>2 DEF Held
  <2>4. Precedes(Now, new) /\ Precedes(new, Now) /\ Precedes(new, new)
    BY <1>1, <2>2, PrecedesSame DEF Reading, Now
  <2>5. Taken(new)'
    BY <1>1, <1>2, <2>1, <2>2, <2>4, OriginRead, PrecedesOn DEF Taken
  <2>6. \A r \in Held : Precedes(r, new)
    BY <1>1, <2>2, <2>4, PrecedesOn DEF InvUndropped, InSomeOrder, Taken
  <2> QED BY <1>2, <1>3, <2>3, <2>4, <2>5, <2>6 DEF InvUndropped, InSomeOrder
<1>6. ASSUME NEW c \in Collectors, StartCycle(c) PROVE Held' \subseteq Held
  <2>1. /\ \A d \in Collectors \ {c} : cycle'[d] = cycle[d]
        /\ cycle'[c].stage = "started" /\ readings' = readings
    BY <1>1, <1>6 DEF StartCycle, Typed, CycleTyped
  <2> QED BY <2>1 DEF Held
<1>7. ASSUME NEW c \in Collectors, StoreSnapshot(c) \/ AbandonCycle(c) PROVE Held' \subseteq Held
  <2>1. /\ \A d \in Collectors \ {c} : cycle'[d] = cycle[d]
        /\ cycle'[c].stage = "idle"
    BY <1>1, <1>7 DEF StoreSnapshot, AbandonCycle, EndCycle, Typed
  <2>2. readings' \subseteq Held
    BY <1>1, <1>7, StoredNew DEF AbandonCycle, Held
  <2> QED BY <2>1, <2>2 DEF Held
<1>8. CASE UNCHANGED <<cycle, readings>>
  <2>1. Held' = Held
    BY <1>8 DEF Held
  <2> QED BY <1>4, <2>1
<1> QED BY <1>4, <1>5, <1>6, <1>7, <1>8
     DEF Next, Tick, Reset, Execute, Evict, Ask, LoadPoints, LoadFails, vars

(* Of two readings in order, the later lists what the earlier does.        *)
LEMMA ListedStays ==
  ASSUME MaxDrops = 0, Typed, NEW a \in Readings, NEW b \in Readings,
         Taken(a), Taken(b), Precedes(a, b)
  PROVE  Listed(a) \subseteq Listed(b)
<1> SUFFICES ASSUME NEW q \in Queries, a.counters[q] # NoCounters, b.counters[q] = NoCounters
             PROVE  FALSE
  BY DEF Listed
<1>1. PICK f \in Fields : a.counters[q][f] # 0
  <2>1. a.counters[q] \in Counters
    BY ReadingFields DEF Readings
  <2>2. ASSUME \A f \in Fields : a.counters[q][f] = 0 PROVE a.counters[q] = NoCounters
    <3>1. a.counters[q] = [f \in Fields |-> a.counters[q][f]]
      BY <2>1 DEF Counters
    <3>2. [f \in Fields |-> a.counters[q][f]] = [f \in Fields |-> 0]
      BY <2>2
    <3> QED BY <3>1, <3>2 DEF NoCounters
  <2> QED BY <2>2
<1>2. a.executed[q][f] \in Nat /\ a.executed[q][f] # 0
  BY <1>1, AllCounted
<1>3. b.executed[q][f] = 0
  BY AllCounted, NothingCounted
<1> QED BY <1>2, <1>3 DEF Precedes

(* Two snapshots of one time would list a statement in common: the unique  *)
(* constraint refuses the second.                                          *)
LEMMA UniqueStep == InvUndropped /\ [Next]_vars => OneReadingEach'
<1> SUFFICES ASSUME InvUndropped, [Next]_vars PROVE OneReadingEach'
  OBVIOUS
<1>1. Typed /\ readings \subseteq Readings /\ MaxDrops = 0
  BY DEF InvUndropped, Sound, Typed
<1>2. CASE UNCHANGED readings
  BY <1>2 DEF InvUndropped, Sound, OneReadingEach
<1>3. ASSUME NEW c \in Collectors, StoreSnapshot(c) PROVE OneReadingEach'
  <2>1. PICK new \in Readings : new = cycle[c].reading /\ new \in Held
    BY <1>1, <1>3, StoredNew DEF Held
  <2>2. /\ ~Conflicts(SnapshotRows(new))
        /\ IF SnapshotRows(new) = {} THEN readings' = readings
           ELSE readings' = readings \cup {new}
    BY <1>1, <1>3, <2>1, StoredNew
  <2>3. ASSUME NEW r \in readings, SnapshotRows(new) # {} PROVE r.at # new.at
    <3>1. SnapshotRows(r) # {} /\ SnapshotRows(r) \subseteq stored /\ r \in Readings /\ r \in Held
      BY <1>1 DEF InvUndropped, Sound, StoredIsRead, Held
    <3>2. Listed(r) # {} /\ Listed(new) # {}
      BY <2>3, <3>1 DEF SnapshotRows, Listed
    <3>3. Listed(r) \subseteq Listed(new) \/ Listed(new) \subseteq Listed(r)
      BY <1>1, <2>1, <3>1, ListedStays DEF InvUndropped, InSomeOrder
    <3>4. PICK q \in Queries : q \in Listed(r) /\ q \in Listed(new)
      BY <3>2, <3>3 DEF Listed
    <3>5. /\ [at |-> r.at, query |-> q, counters |-> r.counters[q]] \in SnapshotRows(r)
          /\ [at |-> new.at, query |-> q, counters |-> new.counters[q]] \in SnapshotRows(new)
      BY <3>4 DEF SnapshotRows, Listed
    <3>6. PICK old \in stored, row \in SnapshotRows(new) :
            old.at = r.at /\ old.query = q /\ row.at = new.at /\ row.query = q
      BY <3>1, <3>5
    <3> QED BY <2>2, <3>6 DEF Conflicts
  <2> QED BY <2>2, <2>3 DEF InvUndropped, Sound, OneReadingEach
<1> QED BY <1>2, <1>3
     DEF Next, Tick, Reset, Execute, Evict, StartCycle, ReadStatements, AbandonCycle, Ask,
         LoadPoints, LoadFails, vars

LEMMA UndroppedStep == InvUndropped /\ [Next]_vars => InvUndropped'
BY UniqueStep, SomeOrderStep, SoundStep DEF InvUndropped

-----------------------------------------------------------------------------
(* What the deltas say about what was really done.                         *)

(* The reading behind a boundary of an answered request: the one its point *)
(* was made of, or the origin where there is none.                         *)
Behind(ts, r) ==
  /\ r \in Readings
  /\ TrueReading(ts).executed = r.executed /\ TrueReading(ts).drops = r.drops
  /\ \A q \in Queries : /\ CountersAt(request.points[ts], q) = r.counters[q]
                        /\ HasRow(request.points[ts], q) <=> r.counters[q] # NoCounters

LEMMA BehindOrigin ==
  ASSUME NEW ts, Upto(ts) = {}, request.points[ts] = NoPoint
  PROVE  Behind(ts, Origin)
BY OriginRead DEF Behind, TrueReading, Origin, CountersAt, HasRow

LEMMA BehindStored ==
  ASSUME Sound, NEW ts, Upto(ts) # {}, NEW r \in readings,
         r.at = Max(Upto(ts)), request.points[ts] = PointOf(r)
  PROVE  Behind(ts, r)
<1>1. r \in Readings
  BY DEF Sound, Typed
<1>2. TrueReading(ts) = r
  <2>1. \A s \in readings : s.at = Max(Upto(ts)) => s = r
    BY DEF Sound, OneReadingEach
  <2>2. (CHOOSE s \in readings : s.at = Max(Upto(ts))) = r
    BY <2>1
  <2> QED BY <2>2 DEF TrueReading
<1>3. PointOf(r) # NoPoint
  <2>1. /\ r.at \in Int /\ Listed(r) \in SUBSET Queries
        /\ [q \in Listed(r) |-> r.counters[q]] \in [Listed(r) -> Counters]
    BY <1>1, Bounds DEF Readings, Listed
  <2> QED BY <2>1, PointsMade, PointAssumption DEF PointOf
<1>4. \A q \in Queries : /\ HasRow(PointOf(r), q) <=> q \in Listed(r)
                         /\ q \in Listed(r) => PointOf(r).rows[q] = r.counters[q]
                         /\ q \in Listed(r) <=> r.counters[q] # NoCounters
  BY <1>3 DEF HasRow, PointOf, Listed
<1> QED BY <1>1, <1>2, <1>4 DEF Behind, CountersAt

(* The ends of a window of an answered request, in order.                  *)
LEMMA WindowRead ==
  ASSUME Inv, Answered, NEW w \in Windows
  PROVE  \E a, b \in Readings :
           /\ Behind(w[1], a) /\ Behind(w[2], b) /\ Precedes(a, b)
           /\ Upto(w[2]) = {} => b = Origin
<1>1. /\ w[1] \in Wanted /\ w[2] \in Wanted
      /\ w[1] \in Int /\ w[2] \in Int /\ w[1] <= w[2]
  <2>1. /\ request.kind \in {"weekly-top", "week-over-week"}
        /\ request.from \in Int /\ request.to \in Int /\ request.from < request.to
    BY DEF Inv, Sound, Typed, RequestTyped, Answered
  <2> QED BY <2>1 DEF Windows, Wanted, Boundaries
<1>2. Pointed(w[1]) /\ Pointed(w[2]) /\ request.known \subseteq Times
  <2>1. RequestInStep /\ readings \subseteq Readings
    BY DEF Inv, Sound, Typed
  <2> QED BY <1>1, <2>1 DEF RequestInStep, Answered, Readings
<1>3. Upto(w[1]) \subseteq Upto(w[2]) /\ Upto(w[2]) \subseteq Times
  <2>1. request.known \subseteq Int
    BY <1>2, Bounds
  <2> QED BY <1>1, <1>2, <2>1 DEF Upto
<1>4. \A r \in readings : r \in Readings /\ Precedes(Origin, r)
  BY DEF Inv, Sound, Typed, ReadInOrder, Taken
<1>5. CASE Upto(w[2]) = {}
  <2>1. Behind(w[1], Origin) /\ Behind(w[2], Origin)
    BY <1>2, <1>3, <1>5, BehindOrigin DEF Pointed
  <2> QED BY <2>1, OriginRead, PrecedesSame
<1>6. CASE Upto(w[2]) # {}
  <2>1. PICK b \in readings : b.at = Max(Upto(w[2])) /\ request.points[w[2]] = PointOf(b)
    BY <1>2, <1>6 DEF Pointed
  <2>2. Behind(w[2], b)
    BY <1>6, <2>1, BehindStored DEF Inv
  <2>3. CASE Upto(w[1]) = {}
    <3>1. Behind(w[1], Origin)
      BY <1>2, <2>3, BehindOrigin DEF Pointed
    <3> QED BY <1>4, <1>6, <2>2, <3>1, OriginRead
  <2>4. CASE Upto(w[1]) # {}
    <3>1. PICK a \in readings : a.at = Max(Upto(w[1])) /\ request.points[w[1]] = PointOf(a)
      BY <1>2, <2>4 DEF Pointed
    <3>2. Behind(w[1], a)
      BY <2>4, <3>1, BehindStored DEF Inv
    <3>3. a.at <= b.at
      BY <1>3, <1>6, <2>1, <2>4, <3>1, Latest
    <3>4. Precedes(a, b)
      BY <3>3 DEF Inv, ReadInOrder
    <3> QED BY <1>4, <1>6, <2>2, <3>2, <3>4
  <2> QED BY <2>3, <2>4
<1> QED BY <1>5, <1>6

LEMMA DeltaBound ==
  ASSUME NEW a \in Readings, NEW b \in Readings, Precedes(a, b),
         NEW q \in Queries, NEW f \in Fields
  PROVE  /\ b.counters[q][f] - a.counters[q][f] <= b.executed[q][f] - a.executed[q][f]
         /\ 0 <= b.executed[q][f] - a.executed[q][f]
         /\ a.drops[q] = b.drops[q] =>
              b.counters[q][f] - a.counters[q][f] = b.executed[q][f] - a.executed[q][f]
<1>1. /\ a.counters[q][f] \in Nat /\ a.executed[q][f] \in Nat
      /\ b.counters[q][f] \in Nat /\ b.executed[q][f] \in Nat
  BY ReadingFields
<1>2. /\ a.executed[q][f] <= b.executed[q][f]
      /\ Lost(a, q, f) <= Lost(b, q, f)
      /\ a.drops[q] = b.drops[q] => Lost(a, q, f) = Lost(b, q, f)
  BY DEF Precedes
<1> QED BY <1>1, <1>2 DEF Lost

(* The result of a window in terms of the readings behind its boundaries.  *)
DeltaOf(a, b, q) == [f \in Fields |-> b.counters[q][f] - a.counters[q][f]]

LEMMA ResultRead ==
  \A from, to : \A a, b \in Readings : \A q \in Queries :
    Behind(from, a) /\ Behind(to, b) =>
      /\ \A f \in Fields :
           ReallyDone(from, to, q)[f] = b.executed[q][f] - a.executed[q][f]
      /\ q \in DOMAIN Result(from, to) <=>
           /\ b.counters[q] # NoCounters
           /\ ~WentBack(DeltaOf(a, b, q)) /\ ~Unchanged(DeltaOf(a, b, q))
      /\ q \in DOMAIN Result(from, to) => Result(from, to)[q] = DeltaOf(a, b, q)
<1> SUFFICES ASSUME NEW from, NEW to, NEW a \in Readings, NEW b \in Readings, NEW q \in Queries,
                    Behind(from, a), Behind(to, b)
             PROVE  /\ \A f \in Fields :
                         ReallyDone(from, to, q)[f] = b.executed[q][f] - a.executed[q][f]
                    /\ q \in DOMAIN Result(from, to) <=>
                         /\ b.counters[q] # NoCounters
                         /\ ~WentBack(DeltaOf(a, b, q)) /\ ~Unchanged(DeltaOf(a, b, q))
                    /\ q \in DOMAIN Result(from, to) =>
                         Result(from, to)[q] = DeltaOf(a, b, q)
  OBVIOUS
<1> DEFINE start == request.points[from]
           end == request.points[to]
           delta == DeltaOf(a, b, q)
<1>1. RowDelta(start, end, q) = delta
  BY DEF RowDelta, Behind, DeltaOf
<1>2. \A f \in Fields : ReallyDone(from, to, q)[f] = b.executed[q][f] - a.executed[q][f]
  BY DEF ReallyDone, Behind
<1>3. HasRow(end, q) <=> b.counters[q] # NoCounters
  BY DEF Behind
<1>4. Result(from, to) = BuildQueryDeltas(start, end)
  BY DEF Result
<1> HIDE DEF start, end, delta
<1>5. /\ q \in DOMAIN BuildQueryDeltas(start, end) <=>
           b.counters[q] # NoCounters /\ ~WentBack(delta) /\ ~Unchanged(delta)
      /\ q \in DOMAIN BuildQueryDeltas(start, end) => BuildQueryDeltas(start, end)[q] = delta
  BY <1>1, <1>3, Reported
<1> QED BY <1>1, <1>2, <1>4, <1>5 DEF start, end, delta

(***************************************************************************)
(* Where one collector watches the cluster, a reported delta is never more *)
(* than what the statement did between the two readings, whatever was      *)
(* evicted, reset, abandoned or stored while the request was loading.      *)
(***************************************************************************)
THEOREM NoOvercount == OneCollector => (Spec => []NeverOvercounts)
<1>1. ASSUME Inv PROVE NeverOvercounts
  <2> SUFFICES ASSUME Answered, NEW w \in Windows, NEW q \in DOMAIN Result(w[1], w[2]),
                      NEW f \in Fields
               PROVE  Result(w[1], w[2])[q][f] <= ReallyDone(w[1], w[2], q)[f]
    BY DEF NeverOvercounts
  <2>1. PICK a \in Readings, b \in Readings :
          Behind(w[1], a) /\ Behind(w[2], b) /\ Precedes(a, b)
    BY <1>1, WindowRead
  <2>2. q \in Queries
    BY Reported DEF Result
  <2>3. /\ Result(w[1], w[2])[q][f] = b.counters[q][f] - a.counters[q][f]
        /\ ReallyDone(w[1], w[2], q)[f] = b.executed[q][f] - a.executed[q][f]
    <3>1. Result(w[1], w[2])[q] = DeltaOf(a, b, q)
      BY <2>1, <2>2, ResultRead
    <3>2. ReallyDone(w[1], w[2], q)[f] = b.executed[q][f] - a.executed[q][f]
      BY <2>1, <2>2, ResultRead
    <3> QED BY <3>1, <3>2 DEF DeltaOf
  <2> QED BY <2>1, <2>2, <2>3, DeltaBound
<1> QED BY <1>1, InvInit, InvStep, PTL DEF Spec

(***************************************************************************)
(* Where several collectors watch a server that drops no counters, a       *)
(* reported delta is no more than what was done, although their readings   *)
(* may be stamped in another order than they were taken.                   *)
(***************************************************************************)
THEOREM NoOvercountUndropped == MaxDrops = 0 => (Spec => []NeverOvercounts)
<1>1. ASSUME InvUndropped PROVE NeverOvercounts
  <2> SUFFICES ASSUME Answered, NEW w \in Windows, NEW q \in DOMAIN Result(w[1], w[2]),
                      NEW f \in Fields
               PROVE  Result(w[1], w[2])[q][f] <= ReallyDone(w[1], w[2], q)[f]
    BY DEF NeverOvercounts
  <2>1. Sound /\ Typed /\ MaxDrops = 0
    BY <1>1 DEF InvUndropped, Sound
  <2>2. ASSUME NEW ts \in Wanted PROVE \E r \in Readings : Behind(ts, r) /\ Taken(r)
    <3>1. Pointed(ts)
      BY <2>1 DEF Sound, RequestInStep, Answered
    <3>2. CASE Upto(ts) = {}
      <4>1. Taken(Origin)
        BY <1>1, OriginRead, PrecedesSame DEF Taken, InvUndropped, InSomeOrder
      <4> QED BY <3>1, <3>2, <4>1, BehindOrigin, OriginRead DEF Pointed
    <3>3. CASE Upto(ts) # {}
      <4>1. PICK r \in readings : r.at = Max(Upto(ts)) /\ request.points[ts] = PointOf(r)
        BY <3>1, <3>3 DEF Pointed
      <4>2. r \in Readings /\ Taken(r)
        BY <1>1, <2>1 DEF Typed, InvUndropped, InSomeOrder, Held
      <4> QED BY <2>1, <3>3, <4>1, <4>2, BehindStored
    <3> QED BY <3>2, <3>3
  <2>3. w[1] \in Wanted /\ w[2] \in Wanted
    BY <2>1 DEF Typed, RequestTyped, Answered, Windows, Wanted, Boundaries
  <2>4. PICK a \in Readings, b \in Readings :
          Behind(w[1], a) /\ Taken(a) /\ Behind(w[2], b) /\ Taken(b)
    BY <2>2, <2>3
  <2>5. q \in Queries
    BY Reported DEF Result
  <2>6. Result(w[1], w[2])[q][f] = b.counters[q][f] - a.counters[q][f]
    <3>1. Result(w[1], w[2])[q] = DeltaOf(a, b, q)
      BY <2>4, <2>5, ResultRead
    <3> QED BY <3>1 DEF DeltaOf
  <2>7. ReallyDone(w[1], w[2], q)[f] = b.executed[q][f] - a.executed[q][f]
    BY <2>4, <2>5, ResultRead
  <2>8. /\ a.counters[q][f] = a.executed[q][f] /\ a.counters[q][f] \in Nat
        /\ b.counters[q][f] = b.executed[q][f] /\ b.counters[q][f] \in Nat
    BY <2>1, <2>4, <2>5, AllCounted
  <2> QED BY <2>6, <2>7, <2>8
<1> QED BY <1>1, UndroppedInit, UndroppedStep, PTL DEF Spec

(***************************************************************************)
(* And a statement whose entry was not dropped in between is reported with *)
(* exactly what it did, or left out because it did nothing.                *)
(***************************************************************************)
THEOREM ExactUnlessDropped == OneCollector => (Spec => []ExactBetweenResets)
<1>1. ASSUME Inv PROVE ExactBetweenResets
  <2> SUFFICES ASSUME Answered, NEW w \in Windows, NEW q \in Queries, Upto(w[2]) # {},
                      TrueReading(w[1]).drops[q] = TrueReading(w[2]).drops[q]
               PROVE  LET result == Result(w[1], w[2])
                          done == ReallyDone(w[1], w[2], q)
                      IN IF Unchanged(done) THEN q \notin DOMAIN result
                         ELSE q \in DOMAIN result /\ result[q] = done
    BY DEF ExactBetweenResets
  <2> DEFINE result == Result(w[1], w[2])
             done == ReallyDone(w[1], w[2], q)
  <2>1. PICK a \in Readings, b \in Readings :
          Behind(w[1], a) /\ Behind(w[2], b) /\ Precedes(a, b)
    BY <1>1, WindowRead
  <2> DEFINE delta == DeltaOf(a, b, q)
  <2>2. a.drops[q] = b.drops[q]
    BY <2>1 DEF Behind
  <2>3. \A g \in Fields :
          ReallyDone(w[1], w[2], q)[g] = b.executed[q][g] - a.executed[q][g]
    BY <2>1 DEF ReallyDone, Behind
  <2>4. \A f \in Fields : /\ done[f] = b.executed[q][f] - a.executed[q][f]
                          /\ delta[f] = done[f] /\ 0 <= done[f] /\ done[f] \in Int
    <3> SUFFICES ASSUME NEW f \in Fields
                 PROVE  /\ done[f] = b.executed[q][f] - a.executed[q][f]
                        /\ delta[f] = done[f] /\ 0 <= done[f] /\ done[f] \in Int
      OBVIOUS
    <3>1. done[f] = b.executed[q][f] - a.executed[q][f]
      BY <2>3
    <3>2. b.executed[q][f] \in Nat /\ a.executed[q][f] \in Nat
      BY ReadingFields
    <3>3. delta[f] = b.counters[q][f] - a.counters[q][f]
      BY DEF DeltaOf
    <3> HIDE DEF done, delta
    <3> QED BY <2>1, <2>2, <3>1, <3>2, <3>3, DeltaBound
  <2>5. delta = done
    <3>1. done = [f \in Fields |-> done[f]]
      BY DEF ReallyDone
    <3> QED BY <2>4, <3>1 DEF DeltaOf
  <2>6. /\ q \in DOMAIN result <=>
             b.counters[q] # NoCounters /\ ~WentBack(delta) /\ ~Unchanged(delta)
        /\ q \in DOMAIN result => result[q] = delta
    BY <2>1, ResultRead
  <2>7. b.counters[q] = NoCounters => \A f \in Fields : delta[f] <= 0
    <3> SUFFICES ASSUME b.counters[q] = NoCounters, NEW f \in Fields PROVE delta[f] <= 0
      OBVIOUS
    <3>1. b.counters[q][f] = 0 /\ a.counters[q][f] \in Nat
      BY NothingCounted, ReadingFields
    <3> QED BY <3>1 DEF DeltaOf
  <2> HIDE DEF delta, result, done
  <2>8. ~WentBack(done)
    BY <2>4 DEF WentBack
  <2>9. b.counters[q] = NoCounters => Unchanged(done)
    BY <2>4, <2>7 DEF Unchanged
  <2>10. IF Unchanged(done) THEN q \notin DOMAIN result
        ELSE q \in DOMAIN result /\ result[q] = done
    BY <2>5, <2>6, <2>8, <2>9
  <2> QED BY <2>10 DEF result, done
<1> QED BY <1>1, InvInit, InvStep, PTL DEF Spec

(* What an answer says a statement did in one window is no more than what  *)
(* it did there, and just that if its entry was not dropped in between.    *)
LEMMA ShareOfWindow ==
  ASSUME Inv, Answered, NEW w \in Windows, NEW q \in Queries, NEW f \in Fields
  PROVE  LET start == TrueReading(w[1])
             end == TrueReading(w[2])
             reported == ReportedIn(w, q)[f]
             done == end.executed[q][f] - start.executed[q][f]
         IN /\ start.executed[q][f] \in Nat /\ end.executed[q][f] \in Nat
            /\ start.drops[q] \in Nat /\ end.drops[q] \in Nat
            /\ start.drops[q] <= end.drops[q]
            /\ reported \in Int /\ reported <= done
            /\ start.drops[q] = end.drops[q] => reported = done
<1>1. PICK a \in Readings, b \in Readings :
        Behind(w[1], a) /\ Behind(w[2], b) /\ Precedes(a, b)
  BY WindowRead
<1> DEFINE delta == DeltaOf(a, b, q)
           done(g) == b.executed[q][g] - a.executed[q][g]
           reported == ReportedIn(w, q)
           listed == q \in DOMAIN Result(w[1], w[2])
<1>2. /\ TrueReading(w[1]).executed = a.executed /\ TrueReading(w[1]).drops = a.drops
      /\ TrueReading(w[2]).executed = b.executed /\ TrueReading(w[2]).drops = b.drops
  BY <1>1 DEF Behind
<1>3. \A g \in Fields : /\ a.counters[q][g] \in Nat /\ b.counters[q][g] \in Nat
                        /\ a.executed[q][g] \in Nat /\ b.executed[q][g] \in Nat
  BY ReadingFields
<1>4. a.drops[q] \in Nat /\ b.drops[q] \in Nat /\ a.drops[q] <= b.drops[q]
  BY <1>1, ReadingFields DEF Precedes
<1>5. \A g \in Fields : /\ delta[g] = b.counters[q][g] - a.counters[q][g]
                        /\ delta[g] \in Int /\ delta[g] <= done(g) /\ 0 <= done(g)
                        /\ a.drops[q] = b.drops[q] => delta[g] = done(g)
  BY <1>1, <1>3, DeltaBound DEF DeltaOf
<1>6. /\ listed <=> /\ b.counters[q] # NoCounters
                    /\ ~WentBack(delta) /\ ~Unchanged(delta)
      /\ listed => Result(w[1], w[2])[q] = delta
  BY <1>1, ResultRead
<1>7. /\ listed => reported[f] = delta[f]
      /\ ~listed => reported[f] = 0
  BY <1>6, NothingCounted DEF ReportedIn
<1>8. b.counters[q] = NoCounters => delta[f] <= 0
  BY <1>3, <1>5, NothingCounted
<1> HIDE DEF delta, reported, listed
<1>9. reported[f] \in Int /\ reported[f] <= done(f)
  BY <1>5, <1>7
<1>10. ASSUME a.drops[q] = b.drops[q] PROVE reported[f] = done(f)
  <2>1. ~WentBack(delta)
    BY <1>3, <1>5, <1>10 DEF WentBack
  <2>2. CASE Unchanged(delta)
    BY <1>5, <1>6, <1>7, <1>10, <2>2 DEF Unchanged
  <2>3. CASE b.counters[q] = NoCounters /\ ~listed
    BY <1>3, <1>5, <1>7, <1>8, <1>10, <2>3
  <2>4. CASE listed
    BY <1>5, <1>7, <1>10, <2>4
  <2> QED BY <1>6, <2>1, <2>2, <2>3, <2>4
<1> QED BY <1>2, <1>3, <1>4, <1>9, <1>10 DEF reported

(***************************************************************************)
(* With one collector, what the two weeks of a comparison report of a      *)
(* statement adds up to no more than what it did between the outer         *)
(* snapshots, and to just that if its entry was not dropped: the two       *)
(* windows share the snapshot at their boundary, whatever is stored while  *)
(* the answer is loaded.                                                   *)
(***************************************************************************)
THEOREM WeeksSum == OneCollector => (Spec => []WeeksAddUp)
<1>1. ASSUME Inv PROVE WeeksAddUp
  <2> DEFINE before == request.from - (request.to - request.from)
             from == request.from
             to == request.to
  <2> SUFFICES ASSUME Answered, request.kind = "week-over-week",
                      NEW previous \in Windows, NEW this \in Windows,
                      NEW q \in Queries, NEW f \in Fields, previous # this
               PROVE  LET reported == ReportedIn(previous, q)[f] + ReportedIn(this, q)[f]
                          done == ReallyDone(before, to, q)[f]
                      IN /\ reported <= done
                         /\ TrueReading(before).drops[q] = TrueReading(to).drops[q] =>
                              reported = done
    BY DEF WeeksAddUp
  <2> DEFINE first == <<before, from>>
             second == <<from, to>>
             Done(ts) == TrueReading(ts).executed[q][f]
             Drops(ts) == TrueReading(ts).drops[q]
             Share(w) == ReportedIn(w, q)[f]
  <2>1. Windows = {first, second}
    BY DEF Windows
  <2>2. /\ Done(before) \in Nat /\ Done(from) \in Nat
        /\ Drops(before) \in Nat /\ Drops(from) \in Nat /\ Drops(before) <= Drops(from)
        /\ Share(first) \in Int /\ Share(first) <= Done(from) - Done(before)
        /\ Drops(before) = Drops(from) => Share(first) = Done(from) - Done(before)
    BY <1>1, <2>1, ShareOfWindow
  <2>3. /\ Done(to) \in Nat
        /\ Drops(to) \in Nat /\ Drops(from) <= Drops(to)
        /\ Share(second) \in Int /\ Share(second) <= Done(to) - Done(from)
        /\ Drops(from) = Drops(to) => Share(second) = Done(to) - Done(from)
    BY <1>1, <2>1, ShareOfWindow
  <2>4. ReallyDone(before, to, q)[f] = Done(to) - Done(before)
    BY DEF ReallyDone
  <2>5. \/ previous = first /\ this = second
        \/ previous = second /\ this = first
    BY <2>1
  <2> HIDE DEF before, from, to, first, second, Done, Drops, Share
  <2>6. /\ Share(first) + Share(second) <= Done(to) - Done(before)
        /\ Drops(before) = Drops(to) => Share(first) + Share(second) = Done(to) - Done(before)
    BY <2>2, <2>3
  <2>7. Share(previous) + Share(this) = Share(first) + Share(second)
    BY <2>2, <2>3, <2>5
  <2>8. /\ Share(previous) + Share(this) <= ReallyDone(before, to, q)[f]
        /\ Drops(before) = Drops(to) => Share(previous) + Share(this) = ReallyDone(before, to, q)[f]
    BY <2>4, <2>6, <2>7
  <2> QED BY <2>8 DEF Share, Drops
<1> QED BY <1>1, InvInit, InvStep, PTL DEF Spec

=============================================================================
