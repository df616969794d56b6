-------------------------- MODULE QueryAnalytics --------------------------
(***************************************************************************)
(* From the counters of pg_stat_statements to the answer of a period       *)
(* request: the monitored server executes statements, drops and resets     *)
(* their counters; collectors read them (collector/service.py) and store   *)
(* what they read (QuerySnapshotRepository.write_query_snapshot); requests *)
(* resolve the boundaries of their windows and load them in two statements *)
(* (get_latest_snapshots_at_or_before), and subtract (delta.py).           *)
(*                                                                         *)
(* One cluster is modelled: every statement of the code carries its        *)
(* db_identifier, and rows of different clusters never meet.               *)
(***************************************************************************)
EXTENDS QueryDeltas, FiniteSetsExt

CONSTANTS
  Collectors,     \* query jobs of the workers that watch the cluster
  MaxTime,        \* bound: last reading of the clock
  MaxExecutions,  \* bound: executions of each statement
  MaxDrops,       \* bound: times the counters of each statement are dropped
  Cost,           \* execution time of one execution of each statement
  NoTime,
  AskedWindows    \* bound: the windows that are asked for

ASSUME BoundsAssumption ==
  /\ MaxTime \in Nat /\ MaxDrops \in Nat
  /\ MaxExecutions \in [Queries -> Nat]
  /\ Cost \in [Queries -> Nat \ {0}]
  /\ NoTime \notin Int
  /\ AskedWindows \subseteq {w \in Int \X Int : w[1] < w[2]}

VARIABLES
  clock,      \* the time the collectors stamp and the requests' windows use
  executed,   \* what each statement has really done since the beginning
  lastRun,    \* when each statement last ran
  counters,   \* its row of pg_stat_statements; no calls: no row
  drops,      \* how often that row was evicted or reset
  cycle,      \* a collector's cycle
  stored,     \* the rows of query_metric_snapshots
  readings,   \* for each stored snapshot: what was true when it was read
  request     \* an analytics request

server == <<executed, lastRun, counters, drops>>
vars == <<clock, server, cycle, stored, readings, request>>

Times == 0..MaxTime

-----------------------------------------------------------------------------
(* The monitored server.                                                   *)

Grown(q, c) == [calls |-> c["calls"] + 1,
                total_exec_time_ms |-> c["total_exec_time_ms"] + Cost[q]]

Execute(q) ==
  /\ executed[q]["calls"] < MaxExecutions[q]
  /\ executed' = [executed EXCEPT ![q] = Grown(q, @)]
  /\ counters' = [counters EXCEPT ![q] = Grown(q, @)]
  /\ lastRun' = [lastRun EXCEPT ![q] = clock]
  /\ UNCHANGED <<clock, drops, cycle, stored, readings, request>>

(* One entry is evicted (pg_stat_statements.max).                          *)
Evict(q) ==
  /\ counters[q] # NoCounters
  /\ drops[q] < MaxDrops
  /\ counters' = [counters EXCEPT ![q] = NoCounters]
  /\ drops' = [drops EXCEPT ![q] = @ + 1]
  /\ UNCHANGED <<clock, executed, lastRun, cycle, stored, readings, request>>

(* pg_stat_statements_reset(), or a crash of the server.                   *)
Reset ==
  /\ \A q \in Queries : drops[q] < MaxDrops
  /\ counters' = [q \in Queries |-> NoCounters]
  /\ drops' = [q \in Queries |-> drops[q] + 1]
  /\ UNCHANGED <<clock, executed, lastRun, cycle, stored, readings, request>>

Tick ==
  /\ clock < MaxTime
  /\ clock' = clock + 1
  /\ UNCHANGED <<server, cycle, stored, readings, request>>

-----------------------------------------------------------------------------
(* The collectors.                                                         *)

Reading(c) == [at |-> cycle[c].at, counters |-> counters, executed |-> executed,
               drops |-> drops]

(* A cycle starts: captured_at is taken before anything is read.           *)
StartCycle(c) ==
  /\ cycle[c].stage = "idle"
  /\ clock > cycle[c].at
  /\ cycle' = [cycle EXCEPT ![c].stage = "started", ![c].at = clock]
  /\ UNCHANGED <<clock, server, stored, readings, request>>

(* SELECT FROM pg_stat_statements, and the result is built from its rows.  *)
ReadStatements(c) ==
  /\ cycle[c].stage = "started"
  /\ cycle' = [cycle EXCEPT ![c] =
                 [stage |-> "read", at |-> @.at, reading |-> Reading(c)]]
  /\ UNCHANGED <<clock, server, stored, readings, request>>

EndCycle(c) == cycle' = [cycle EXCEPT ![c] =
                           [stage |-> "idle", at |-> @.at, reading |-> NoPoint]]

(* Fault: a statement without an entry is kept as a row of zeros.          *)
PaddedRows(reading) ==
  {[at |-> reading.at, query |-> q, counters |-> reading.counters[q]] : q \in Queries}

SnapshotRows(reading) ==
  {[at |-> reading.at, query |-> q, counters |-> reading.counters[q]] :
     q \in {q \in Queries : reading.counters[q] # NoCounters}}

(* The unique constraint: one row per statement and captured_at.           *)
Conflicts(rows) ==
  \E new \in rows, old \in stored : new.at = old.at /\ new.query = old.query

(***************************************************************************)
(* write_query_snapshot and its commit: all the rows, or, when the result  *)
(* lists no statement, nothing.                                            *)
(***************************************************************************)
StoreSnapshot(c) ==
  LET reading == cycle[c].reading
      rows == SnapshotRows(reading)
  IN /\ cycle[c].stage = "read"
     /\ ~Conflicts(rows)
     /\ stored' = stored \cup rows
     /\ readings' = IF rows = {} THEN readings ELSE readings \cup {reading}
     /\ EndCycle(c)
     /\ UNCHANGED <<clock, server, request>>

(***************************************************************************)
(* The cycle ends with nothing stored: the read fails or times out, the    *)
(* extension is missing, a row cannot be parsed, the write fails or is     *)
(* refused by the unique constraint.                                       *)
(***************************************************************************)
AbandonCycle(c) ==
  /\ cycle[c].stage # "idle"
  /\ EndCycle(c)
  /\ UNCHANGED <<clock, server, stored, readings, request>>

-----------------------------------------------------------------------------
(* The requests.                                                           *)

(* weekly-top asks for one window, week-over-week for the one before too.  *)
Boundaries(kind, from, to) ==
  IF kind = "weekly-top" THEN {from, to} ELSE {from - (to - from), from, to}

(* Fault: bisect_left in place of bisect_right.                            *)
LatestBefore(captured, ts) ==
  LET before == {at \in captured : at < ts}
  IN IF before = {} THEN NoTime ELSE Max(before)

(* bisect_right(captured_ats, ts) - 1: the last time that is not after ts. *)
LatestAtOrBefore(captured, ts) ==
  LET upTo == {at \in captured : at <= ts}
  IN IF upTo = {} THEN NoTime ELSE Max(upTo)

(***************************************************************************)
(* A request with a valid window: the first SELECT, and the snapshot each  *)
(* boundary falls on.  Without any snapshot the points are empty and there *)
(* is no second SELECT.  `known` is not the code's: the snapshots there    *)
(* were at this moment.                                                    *)
(***************************************************************************)
Ask(kind, from, to) ==
  LET wanted == Boundaries(kind, from, to)
      captured == {row.at : row \in {row \in stored : row.at <= to}}
      resolved == [ts \in wanted |-> LatestAtOrBefore(captured, ts)]
  IN /\ request.stage # "resolved"
     /\ request' =
          [stage |-> IF \A ts \in wanted : resolved[ts] = NoTime THEN "answered"
                     ELSE "resolved",
           kind |-> kind, from |-> from, to |-> to, resolved |-> resolved,
           points |-> [ts \in wanted |-> NoPoint],
           known |-> {r.at : r \in readings}]
     /\ UNCHANGED <<clock, server, cycle, stored, readings>>

(* The rows of one captured_at, by statement.                              *)
PointAt(at) ==
  LET rows == {row \in stored : row.at = at}
  IN [at |-> at,
      rows |-> [q \in {row.query : row \in rows} |->
                  (CHOOSE row \in rows : row.query = q).counters]]

(* The second SELECT: the rows of all resolved times.                      *)
LoadPoints ==
  /\ request.stage = "resolved"
  /\ request' = [request EXCEPT
       !.stage = "answered",
       !.points = [ts \in DOMAIN @ |->
         IF request.resolved[ts] = NoTime THEN NoPoint ELSE PointAt(request.resolved[ts])]]
  /\ UNCHANGED <<clock, server, cycle, stored, readings>>

NoRequest == [stage |-> "idle", kind |-> "weekly-top", from |-> 0, to |-> 0,
              resolved |-> <<>>, points |-> <<>>, known |-> {}]

(* A SELECT fails: 503.                                                    *)
LoadFails ==
  /\ request.stage = "resolved"
  /\ request' = NoRequest
  /\ UNCHANGED <<clock, server, cycle, stored, readings>>

-----------------------------------------------------------------------------
Init ==
  /\ clock = 0
  /\ executed = [q \in Queries |-> NoCounters]
  /\ lastRun = [q \in Queries |-> NoTime]
  /\ counters = [q \in Queries |-> NoCounters]
  /\ drops = [q \in Queries |-> 0]
  /\ cycle = [c \in Collectors |-> [stage |-> "idle", at |-> -1, reading |-> NoPoint]]
  /\ stored = {}
  /\ readings = {}
  /\ request = NoRequest

Next ==
  \/ Tick
  \/ Reset
  \/ \E q \in Queries : Execute(q) \/ Evict(q)
  \/ \E c \in Collectors :
       StartCycle(c) \/ ReadStatements(c) \/ StoreSnapshot(c) \/ AbandonCycle(c)
  \/ \E kind \in {"weekly-top", "week-over-week"}, w \in AskedWindows :
       Ask(kind, w[1], w[2])
  \/ LoadPoints
  \/ LoadFails

Spec == Init /\ [][Next]_vars

-----------------------------------------------------------------------------
(***************************************************************************)
(* Rows, cycles and the request hold values of their kind.                 *)
(***************************************************************************)
TypeOK ==
  /\ clock \in Times
  /\ executed \in [Queries -> Counters] /\ counters \in [Queries -> Counters]
  /\ lastRun \in [Queries -> Times \cup {NoTime}]
  /\ drops \in [Queries -> 0..MaxDrops]
  /\ \A c \in Collectors : /\ cycle[c].stage \in {"idle", "started", "read"}
                           /\ cycle[c].at \in Times \cup {-1}
  /\ \A row \in stored : /\ row.at \in Times /\ row.query \in Queries
                         /\ row.counters \in Counters \ {NoCounters}
  /\ request.stage \in {"idle", "resolved", "answered"}
  /\ DOMAIN request.points = DOMAIN request.resolved

-----------------------------------------------------------------------------
(* The result of a request for one of its windows.                         *)
Result(from, to) == BuildQueryDeltas(request.points[from], request.points[to])

(* Fault: the week before ends where this one does.                        *)
OverlappingWindows ==
  IF request.kind = "weekly-top" THEN {<<request.from, request.to>>}
  ELSE {<<request.from - (request.to - request.from), request.to>>,
        <<request.from, request.to>>}

Windows ==
  IF request.kind = "weekly-top" THEN {<<request.from, request.to>>}
  ELSE {<<request.from - (request.to - request.from), request.from>>,
        <<request.from, request.to>>}

Answered == request.stage = "answered"

(***************************************************************************)
(* The snapshot a window's boundary should fall on: the latest of those    *)
(* there were when the request began; and what had been executed when it   *)
(* was read, and how often each entry had been dropped.                    *)
(***************************************************************************)
Upto(ts) == {at \in request.known : at <= ts}

TrueReading(ts) ==
  IF Upto(ts) = {}
    THEN [executed |-> [q \in Queries |-> NoCounters], drops |-> [q \in Queries |-> 0]]
    ELSE CHOOSE r \in readings : r.at = Max(Upto(ts))

ReallyDone(from, to, q) ==
  [f \in Fields |-> TrueReading(to).executed[q][f] - TrueReading(from).executed[q][f]]

(***************************************************************************)
(* A reported delta never exceeds what the statement did between the reads *)
(* of the two snapshots, whatever was evicted, reset or stored in between. *)
(***************************************************************************)
NeverOvercounts ==
  Answered => \A w \in Windows :
    LET result == Result(w[1], w[2])
    IN \A q \in DOMAIN result, f \in Fields :
         result[q][f] <= ReallyDone(w[1], w[2], q)[f]

(***************************************************************************)
(* A statement whose entry was not dropped between the two reads is        *)
(* reported with exactly what it did, and left out only if it did nothing. *)
(***************************************************************************)
ExactBetweenResets ==
  Answered => \A w \in Windows, q \in Queries :
    (/\ Upto(w[2]) # {}
     /\ TrueReading(w[1]).drops[q] = TrueReading(w[2]).drops[q])
    => LET result == Result(w[1], w[2])
           done == ReallyDone(w[1], w[2], q)
       IN IF Unchanged(done) THEN q \notin DOMAIN result
          ELSE q \in DOMAIN result /\ result[q] = done

(* What an answer says a statement did in a window.                        *)
ReportedIn(w, q) ==
  LET result == Result(w[1], w[2])
  IN IF q \in DOMAIN result THEN result[q] ELSE NoCounters

(***************************************************************************)
(* The two windows of a week-over-week answer lie side by side: of what a  *)
(* statement did between the first and the last of their snapshots nothing *)
(* is counted in both, and nothing is missing from both unless its entry   *)
(* was dropped, though snapshots are stored while the answer is loaded.    *)
(***************************************************************************)
WeeksAddUp ==
  (Answered /\ request.kind = "week-over-week") =>
    LET before == request.from - (request.to - request.from)
    IN \A previous, this \in Windows, q \in Queries, f \in Fields :
         previous # this =>
           LET reported == ReportedIn(previous, q)[f] + ReportedIn(this, q)[f]
               done == ReallyDone(before, request.to, q)[f]
           IN /\ reported <= done
              /\ TrueReading(before).drops[q] = TrueReading(request.to).drops[q] =>
                   reported = done

(***************************************************************************)
(* The limited list is the top of the full one: no statement left out is   *)
(* larger in the measure asked for than one that is listed, none is listed *)
(* twice, and as many are listed as there are or the limit allows.         *)
(***************************************************************************)
TopIsTop ==
  Answered => \A w \in Windows, sortBy \in Fields, limit \in 1..2 :
    LET result == Result(w[1], w[2])
        top == TopQueries(result, sortBy, limit)
        listed == {top[i] : i \in DOMAIN top}
    IN /\ listed \subseteq DOMAIN result
       /\ Cardinality(listed) = Len(top)
       /\ Len(top) = Min({limit, Cardinality(DOMAIN result)})
       /\ \A i \in DOMAIN top, q \in DOMAIN result :
            (\A j \in 1..i : top[j] # q) => result[q][sortBy] <= result[top[i]][sortBy]

(***************************************************************************)
(* "Calculates metrics for the selected period by deltas" (README.md): a   *)
(* window before whose start nothing was ever stored reports only          *)
(* statements that ran since its start.                                    *)
(***************************************************************************)
ReportedRanInWindow ==
  Answered => \A w \in Windows :
    request.points[w[1]] = NoPoint =>
      \A q \in DOMAIN Result(w[1], w[2]) : lastRun[q] >= w[1]

(***************************************************************************)
(* "Negative delta means counters were reset/restarted in the interval"    *)
(* (delta.py): the entry of a statement left out for a counter that went   *)
(* back was dropped between the reads of the two snapshots.                *)
(***************************************************************************)
DropsAt(point, q) == (CHOOSE r \in readings : r.at = point.at).drops[q]

NegativeMeansReset ==
  Answered => \A w \in Windows, q \in Queries :
    LET start == request.points[w[1]]
        end == request.points[w[2]]
    IN (/\ HasRow(start, q) /\ HasRow(end, q)
        /\ WentBack(RowDelta(start, end, q)))
       => DropsAt(start, q) < DropsAt(end, q)

=============================================================================
