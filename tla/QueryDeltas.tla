---------------------------- MODULE QueryDeltas ----------------------------
(***************************************************************************)
(* query_analytics/delta.py and the ranking of query_analytics/service.py: *)
(* what a statement did between two snapshots of its cumulative counters.  *)
(*                                                                         *)
(* Of the seven counters the code subtracts, compares with zero and sums   *)
(* up alike, two are kept: the two a result can be sorted by.              *)
(***************************************************************************)
EXTENDS Integers, Sequences, FiniteSets, SequencesExt

CONSTANTS
  Queries,      \* (queryid, dbid, userid) of a statement, in the storage's order
  NoPoint       \* "no snapshot at or before the boundary"

ASSUME QueriesAssumption == Queries \subseteq Int /\ IsFiniteSet(Queries)

Fields == {"calls", "total_exec_time_ms"}
Counters == [Fields -> Nat]
NoCounters == [f \in Fields |-> 0]

(***************************************************************************)
(* A snapshot point: when it was captured and the counters of the          *)
(* statements it has a row for.                                            *)
(***************************************************************************)
Points == [at : Int, rows : UNION {[known -> Counters] : known \in SUBSET Queries}]

ASSUME PointAssumption == NoPoint \notin Points

HasRow(point, q) == point # NoPoint /\ q \in DOMAIN point.rows

(* A statement without a row at the start counts from zero.                *)
CountersAt(point, q) == IF HasRow(point, q) THEN point.rows[q] ELSE NoCounters

RowDelta(start, end, q) ==
  [f \in Fields |-> CountersAt(end, q)[f] - CountersAt(start, q)[f]]

(* "Negative delta means counters were reset/restarted in the interval."   *)
WentBack(delta) == \E f \in Fields : delta[f] < 0

Unchanged(delta) == \A f \in Fields : delta[f] = 0

(* Fault: a statement new since the start is taken for one that was reset. *)
KnownOnlyDeltas(start, end) ==
  [q \in {q \in Queries : /\ HasRow(end, q) /\ HasRow(start, q)
                          /\ ~WentBack(RowDelta(start, end, q))
                          /\ ~Unchanged(RowDelta(start, end, q))} |->
     RowDelta(start, end, q)]

(* build_query_deltas: the deltas of the statements that are reported.     *)
BuildQueryDeltas(start, end) ==
  [q \in {q \in Queries : /\ HasRow(end, q)
                          /\ ~WentBack(RowDelta(start, end, q))
                          /\ ~Unchanged(RowDelta(start, end, q))} |->
     RowDelta(start, end, q)]

-----------------------------------------------------------------------------
OtherField(f) == CHOOSE g \in Fields : g # f

(* Fault: the measure asked for is ignored.                                *)
AheadByTime(deltas, sortBy, p, q) ==
  LET time(r) == deltas[r]["total_exec_time_ms"]
  IN time(p) > time(q) \/ (time(p) = time(q) /\ p < q)

(* The order of a result: by one measure, then the other, largest first;   *)
(* statements equal in both stay in the storage's order (the sort is       *)
(* stable).                                                                *)
AheadOf(deltas, sortBy, p, q) ==
  LET then == OtherField(sortBy)
      a == deltas[p]
      b == deltas[q]
  IN \/ a[sortBy] > b[sortBy]
     \/ a[sortBy] = b[sortBy] /\ a[then] > b[then]
     \/ a = b /\ p < q

(* The first `limit` statements of the sorted deltas: the i-th is the one  *)
(* with i - 1 others ahead of it.                                          *)
TopQueries(deltas, sortBy, limit) ==
  LET all == DOMAIN deltas
      ahead(q) == {p \in all : AheadOf(deltas, sortBy, p, q)}
  IN [i \in 1..(IF limit < Cardinality(all) THEN limit ELSE Cardinality(all)) |->
        CHOOSE q \in all : Cardinality(ahead(q)) = i - 1]

=============================================================================
