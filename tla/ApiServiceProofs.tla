-------------------------- MODULE ApiServiceProofs --------------------------
(***************************************************************************)
(* Proofs about ApiService for any requests and any size of the pool: type *)
(* correctness, the connections in use, and what is counted.               *)
(***************************************************************************)
EXTENDS ApiService, FiniteSetTheorems, TLAPS

-----------------------------------------------------------------------------
(* The inductive invariant.                                                *)

Statuses == {200, 404, 422, 500, 503}
Stages == {"new", "answered"} \cup Underway

Record ==
  [stage : Stages, route : Routes, status : Nat, holds : BOOLEAN, before : Nat, shown : Nat]

Holds(stage, holds) ==
  IF stage \in OnDatabase THEN holds = TRUE ELSE holds = FALSE

(* What each stage says about a request: a connection is held exactly      *)
(* while the database is waited for, whoever is past the middleware's      *)
(* first lines has seen ServiceMetrics cached, and a response has a status *)
(* that is counted.                                                        *)
InStep(r) ==
  /\ Holds(req[r].stage, req[r].holds)
  /\ req[r].stage \notin {"new", "resolving"} => cached = 1
  /\ IF req[r].stage \in {"responded", "answered"} THEN req[r].status \in Statuses
     ELSE req[r].status = 0
  /\ (req[r].route = "/metrics" /\ req[r].stage \in OnDatabase \cup {"connecting"}) =>
       exporter = 1

RequestsInStep ==
  /\ req \in [Requests -> Record]
  /\ \A r \in Requests : InStep(r)

(* The engine is disposed of, and the process ends, after the last answer. *)
PhaseInStep ==
  /\ engine = "disposed" => phase = "stopped"
  /\ phase = "stopped" => \A r \in Requests : req[r].stage \notin Underway

Holding == {r \in Requests : req[r].stage \in OnDatabase}

(* How many answers of a kind there are.                                   *)
AnsweredWith(route, status) == {r \in Answered : Label(r) = <<route, status>>}

CountersInStep ==
  /\ \A series \in DOMAIN counters : series[1] = 1
  /\ \A route \in Routes, status \in Statuses :
       Value(<<1, route, status>>) = Cardinality(AnsweredWith(route, status))

(* What a scrape has shown lies between what had been answered when it     *)
(* came and what has been answered since, itself left out.                 *)
Shown(r) ==
  /\ req[r].before <= Cardinality(Answered)
  /\ (req[r].route = "/metrics" /\ req[r].status = 200) =>
       /\ req[r].shown >= req[r].before
       /\ req[r].shown <= Cardinality(Answered \ {r})

ScrapesInStep ==
  /\ IsFiniteSet(Samples) /\ Cardinality(Samples) = Cardinality(Answered)
  /\ \A r \in Requests : Shown(r)

Inv ==
  /\ TypeOK
  /\ RequestsInStep
  /\ PhaseInStep
  /\ checkedOut = Cardinality(Holding)
  /\ CountersInStep
  /\ ScrapesInStep

-----------------------------------------------------------------------------
(* The steps of a request.                                                 *)

(* Instances that have been built stay, the first of them is the only one. *)
InstancesTyped == {cached, provided, exporter} \subseteq {0, 1}

LEMMA InstancesStep ==
  ASSUME InstancesTyped, [Next]_vars
  PROVE  /\ InstancesTyped'
         /\ cached = 1 => cached' = 1
         /\ exporter = 1 => exporter' = 1
<1> USE DEF InstancesTyped, Provide
<1>1. ASSUME NEW r \in Requests, ResolveMetrics(r)
      PROVE  cached' = 1 /\ provided' = 1 /\ exporter' = exporter
  BY <1>1 DEF ResolveMetrics
<1>2. ASSUME NEW r \in Requests, EnterUnitOfWork(r)
      PROVE  /\ cached' = cached
             /\ provided' \in {provided, 1}
             /\ exporter' \in {exporter, 1}
  BY <1>2 DEF EnterUnitOfWork
<1>3. CASE UNCHANGED <<cached, provided, exporter>>
  BY <1>3
<1> QED BY <1>1, <1>2, <1>3
     DEF Next, Arrive, Dispatch, AnswerDirectly, WindowOverflows, Connect, CheckOut,
         ConnectFails, DatabaseAnswers, ReadAnswered, ReadFails, Commit, CommitFails, Rollback,
         Finish, Complete, Fail, Drain, CloseContainer, metrics, vars

(* A request and nothing else moves.                                       *)
Moved(r, stage, route, status, holds) ==
  /\ req' \in [Requests -> Record]
  /\ \A q \in Requests \ {r} : req'[q] = req[q]
  /\ req'[r].stage = stage
  /\ req'[r].route = route
  /\ req'[r].status = status
  /\ req'[r].holds = holds

LEMMA GoMoves ==
  ASSUME req \in [Requests -> Record], NEW r \in Requests, NEW stage \in Stages, Go(r, stage)
  PROVE  Moved(r, stage, req[r].route, req[r].status, req[r].holds)
BY DEF Go, Moved, Record

LEMMA RespondMoves ==
  ASSUME req \in [Requests -> Record], NEW r \in Requests, NEW status \in Nat,
         Respond(r, status), "responded" \in Stages
  PROVE  Moved(r, "responded", req[r].route, status, req[r].holds)
BY DEF Respond, Moved, Record

LEMMA HandleMoves ==
  ASSUME req \in [Requests -> Record], NEW r \in Requests, NEW error, Handle(r, error),
         "responded" \in Stages, "raised" \in Stages
  PROVE  IF error = "StorageError" THEN Moved(r, "responded", req[r].route, 503, FALSE)
         ELSE Moved(r, "raised", req[r].route, req[r].status, FALSE)
<1>1. CASE error = "StorageError"
  <2>1. PICK status \in Nat : status = 503
    OBVIOUS
  <2>2. req' = [req EXCEPT ![r].holds = FALSE, ![r].stage = "responded", ![r].status = status]
    BY <1>1, <2>1 DEF Handle
  <2>3. Moved(r, "responded", req[r].route, status, FALSE)
    BY <2>2 DEF Moved, Record
  <2> QED BY <1>1, <2>1, <2>3
<1>2. CASE error # "StorageError"
  <2>1. req' = [req EXCEPT ![r].holds = FALSE, ![r].stage = "raised"]
    BY <1>2 DEF Handle
  <2> QED BY <1>2, <2>1 DEF Moved, Record
<1> QED BY <1>1, <1>2

(* A request that moves stays in step.                                     *)
Moves(r) ==
  /\ req' \in [Requests -> Record]
  /\ \A q \in Requests \ {r} : req'[q] = req[q]
  /\ InStep(r)'

LEMMA Lands ==
  ASSUME NEW r \in Requests, NEW stage, NEW route, NEW status, NEW holds,
         Moved(r, stage, route, status, holds),
         Holds(stage, holds),
         stage \notin {"new", "resolving"} => cached' = 1,
         IF stage \in {"responded", "answered"} THEN status \in Statuses ELSE status = 0,
         (route = "/metrics" /\ stage \in OnDatabase \cup {"connecting"}) => exporter' = 1
  PROVE  Moves(r)
BY Zenon DEF Moves, Moved, InStep

LEMMA RequestMoves ==
  ASSUME InstancesTyped, RequestsInStep, NEW r \in Requests,
         Cardinality(Answered) \in Nat, Rendered \in Nat,
         \/ \E route \in Routes : Arrive(r, route)
         \/ ResolveMetrics(r) \/ Dispatch(r) \/ Connect(r)
         \/ DatabaseAnswers(r) \/ Finish(r)
  PROVE  Moves(r)
<1> DEFINE stage == req[r].stage
           route == req[r].route
           status == req[r].status
           holds == req[r].holds
<1>0. req \in [Requests -> Record]
  BY DEF RequestsInStep
<1>1. /\ req[r] \in Record
      /\ Holds(stage, holds)
      /\ stage \notin {"new", "resolving"} => cached = 1
      /\ stage \notin {"responded", "answered"} => status = 0
      /\ stage = "responded" => status \in Statuses
      /\ (route = "/metrics" /\ stage \in OnDatabase \cup {"connecting"}) => exporter = 1
  BY <1>0 DEF RequestsInStep, InStep
<1>2. /\ {"resolving", "routed", "connecting", "reading", "committing", "rolling back",
          "responded", "raised", "answered"} \subseteq Stages
      /\ Statuses \subseteq Nat
  BY DEF Statuses, Stages, Underway, OnDatabase
<1>3. ASSUME NEW asked \in Routes, Arrive(r, asked) PROVE Moves(r)
  <2>1. PICK to \in {"routed", "resolving"} \cap Stages :
          to = IF cached # 0 THEN "routed" ELSE "resolving"
    BY <1>2
  <2> PICK seen \in Nat : seen = Cardinality(Answered)
    OBVIOUS
  <2>2. req' = [req EXCEPT ![r].stage = to, ![r].route = asked, ![r].before = seen]
    BY <1>3, <2>1 DEF Arrive
  <2>3. Moved(r, to, asked, status, holds)
    <3>1. to \in Stages /\ req \in [Requests -> Record]
      BY <1>0
    <3> HIDE DEF stage, route, status, holds
    <3>2. req' \in [Requests -> Record]
      BY <2>2, <3>1 DEF Record
    <3>3. req'[r].stage = to /\ req'[r].route = asked
      BY <2>2, <3>1 DEF Record
    <3>4. req'[r].status = req[r].status /\ req'[r].holds = req[r].holds
      BY <2>2, <3>1 DEF Record
    <3>5. \A q \in Requests \ {r} : req'[q] = req[q]
      BY <2>2, <3>1
    <3> QED BY <3>2, <3>3, <3>4, <3>5 DEF Moved, status, holds
  <2>4. cached' = cached /\ stage = "new"
    BY <1>3 DEF Arrive, metrics
  <2>5. to \notin {"new", "resolving"} => cached' = 1
    BY <2>1, <2>4 DEF InstancesTyped
  <2>6. Holds(to, holds) /\ status = 0 /\ to \notin OnDatabase \cup {"connecting"}
    BY <1>1, <2>4 DEF Holds, OnDatabase
  <2> QED BY <2>3, <2>5, <2>6, Lands
<1>4. CASE ResolveMetrics(r)
  <2>1. Moved(r, "routed", route, status, holds)
    BY <1>0, <1>2, <1>4, GoMoves DEF ResolveMetrics
  <2>2. cached' = 1 /\ stage = "resolving"
    BY <1>4 DEF ResolveMetrics, Provide
  <2>3. Holds("routed", holds) /\ status = 0
    BY <1>1, <2>2 DEF Holds, OnDatabase
  <2> QED BY <2>1, <2>2, <2>3, Lands DEF OnDatabase
<1>5. CASE AnswerDirectly(r)
  <2>1. PICK given \in Statuses : Respond(r, given) /\ stage = "routed"
    BY <1>5 DEF AnswerDirectly, Statuses
  <2>2. Moved(r, "responded", route, given, holds)
    <3>1. given \in Nat /\ "responded" \in Stages
      BY <1>2
    <3> QED BY <1>0, <2>1, <3>1, RespondMoves
  <2>3. cached' = cached
    BY <1>5 DEF AnswerDirectly, metrics
  <2>4. Holds("responded", holds) /\ cached' = 1
    BY <1>1, <2>1, <2>3 DEF Holds, OnDatabase
  <2> QED BY <2>1, <2>2, <2>4, Lands DEF OnDatabase
<1>6. CASE WindowOverflows(r)
  <2>1. Moved(r, "raised", route, status, holds)
    BY <1>0, <1>2, <1>6, GoMoves DEF WindowOverflows
  <2>2. Holds("raised", holds) /\ status = 0 /\ cached' = 1
    BY <1>1, <1>6 DEF WindowOverflows, metrics, Holds, OnDatabase
  <2> QED BY <2>1, <2>2, Lands DEF OnDatabase
<1>7. CASE EnterUnitOfWork(r)
  <2>1. Moved(r, "connecting", route, status, holds)
    BY <1>0, <1>2, <1>7, GoMoves DEF EnterUnitOfWork
  <2>2. Holds("connecting", holds) /\ status = 0 /\ cached' = 1
    BY <1>1, <1>7 DEF EnterUnitOfWork, Holds, OnDatabase
  <2>3. route = "/metrics" => exporter' = 1
    BY <1>7 DEF EnterUnitOfWork, Provide, InstancesTyped
  <2> QED BY <2>1, <2>2, <2>3, Lands
<1>8. CASE CheckOut(r)
  <2>1. req' = [req EXCEPT ![r].stage = "reading", ![r].holds = TRUE]
    BY <1>8 DEF CheckOut
  <2>2. Moved(r, "reading", route, status, TRUE)
    <3>1. "reading" \in Stages
      BY <1>2
    <3> QED BY <1>0, <2>1, <3>1 DEF Moved, Record
  <2>3. /\ Holds("reading", TRUE) /\ status = 0 /\ cached' = 1
        /\ route = "/metrics" => exporter' = 1
    BY <1>1, <1>8 DEF CheckOut, metrics, Holds, OnDatabase
  <2> QED BY <2>2, <2>3, Lands
<1>9. ASSUME NEW error, Handle(r, error), UNCHANGED metrics,
             stage \in OnDatabase \cup {"connecting"}
      PROVE  Moves(r)
  <2>1. status = 0 /\ cached' = 1
    BY <1>1, <1>9 DEF OnDatabase, metrics
  <2>2. \/ Moved(r, "responded", route, 503, FALSE)
        \/ Moved(r, "raised", route, status, FALSE)
    BY <1>0, <1>2, <1>9, HandleMoves
  <2>3. Holds("responded", FALSE) /\ Holds("raised", FALSE) /\ 503 \in Statuses
    BY DEF Holds, OnDatabase, Statuses
  <2> QED BY <2>1, <2>2, <2>3, Lands DEF OnDatabase
<1>10. CASE ConnectFails(r)
  <2>1. stage = "connecting" /\ UNCHANGED metrics
    BY <1>10 DEF ConnectFails
  <2>2. Handle(r, "StorageError") \/ Handle(r, "driver")
    BY <1>10 DEF ConnectFails
  <2> QED BY <1>9, <2>1, <2>2
<1>11. CASE ReadAnswered(r)
  <2>1. Moved(r, "committing", route, status, holds)
    BY <1>0, <1>2, <1>11, GoMoves DEF ReadAnswered
  <2>2. /\ Holds("committing", holds) /\ status = 0 /\ cached' = 1
        /\ route = "/metrics" => exporter' = 1
    BY <1>1, <1>11 DEF ReadAnswered, metrics, Holds, OnDatabase
  <2> QED BY <2>1, <2>2, Lands
<1>12. CASE ReadFails(r)
  <2>1. stage = "reading" /\ UNCHANGED metrics
    BY <1>12 DEF ReadFails
  <2>2. CASE Go(r, "rolling back")
    <3>1. Moved(r, "rolling back", route, status, holds)
      BY <1>0, <1>2, <2>2, GoMoves
    <3>2. /\ Holds("rolling back", holds) /\ status = 0 /\ cached' = 1
          /\ route = "/metrics" => exporter' = 1
      BY <1>1, <2>1 DEF metrics, Holds, OnDatabase
    <3> QED BY <3>1, <3>2, Lands
  <2>3. CASE Handle(r, "driver")
    BY <1>9, <2>1, <2>3 DEF OnDatabase
  <2> QED BY <1>12, <2>2, <2>3 DEF ReadFails
<1>13. CASE Commit(r)
  <2>1. PICK now \in Nat : now = IF route = "/metrics" THEN Rendered ELSE req[r].shown
    BY <1>1 DEF Record
  <2>2. PICK given \in Statuses : given = 200
    BY DEF Statuses
  <2>3. req' = [req EXCEPT ![r].stage = "responded", ![r].status = given,
                           ![r].holds = FALSE, ![r].shown = now]
    BY <1>13, <2>1, <2>2 DEF Commit
  <2>4. Moved(r, "responded", route, given, FALSE)
    <3>1. given \in Nat /\ "responded" \in Stages
      BY <1>2
    <3> QED BY <1>0, <2>3, <3>1 DEF Moved, Record
  <2>5. Holds("responded", FALSE) /\ cached' = 1
    BY <1>1, <1>13 DEF Commit, metrics, Holds, OnDatabase
  <2> QED BY <2>4, <2>5, Lands DEF OnDatabase
<1>14. CASE CommitFails(r) \/ Rollback(r)
  <2>1. stage \in OnDatabase /\ UNCHANGED metrics /\ Handle(r, "StorageError")
    BY <1>14 DEF CommitFails, Rollback, OnDatabase
  <2> QED BY <1>9, <2>1
<1>15. CASE Complete(r)
  <2>1. Moved(r, "answered", route, status, holds)
    BY <1>0, <1>2, <1>15, GoMoves DEF Complete
  <2>2. Holds("answered", holds) /\ status \in Statuses /\ cached' = 1
    BY <1>1, <1>15 DEF Complete, Holds, OnDatabase
  <2> QED BY <2>1, <2>2, Lands DEF OnDatabase
<1>16. CASE Fail(r)
  <2>1. PICK given \in Statuses : given = 500
    BY DEF Statuses
  <2>2. req' = [req EXCEPT ![r].stage = "answered", ![r].status = given]
    BY <1>16, <2>1 DEF Fail
  <2>3. Moved(r, "answered", route, given, holds)
    <3>1. given \in Nat /\ "answered" \in Stages
      BY <1>2
    <3> QED BY <1>0, <2>2, <3>1 DEF Moved, Record
  <2>4. Holds("answered", holds) /\ cached' = 1
    BY <1>1, <1>16 DEF Fail, Holds, OnDatabase
  <2> QED BY <2>3, <2>4, Lands DEF OnDatabase
<1> QED BY <1>3, <1>4, <1>5, <1>6, <1>7, <1>8, <1>10, <1>11, <1>12, <1>13, <1>14, <1>15, <1>16
     DEF Dispatch, Connect, DatabaseAnswers, Finish

(* Where the stages lead, and what becomes of the connection and of the    *)
(* counters on the way.                                                    *)
Finishes(r) ==
  /\ req[r].stage \in {"responded", "raised"}
  /\ req'[r].stage = "answered"
  /\ req'[r].route = req[r].route
  /\ Observe(r, req'[r].status)
  /\ checkedOut' = checkedOut

TakesConnection(r) ==
  /\ req[r].stage = "connecting"
  /\ req'[r].stage = "reading"
  /\ checkedOut < PoolSize
  /\ checkedOut' = checkedOut + 1
  /\ counters' = counters

GivesBack(r) ==
  /\ req[r].stage \in OnDatabase
  /\ req'[r].stage \in {"responded", "raised"}
  /\ checkedOut' = checkedOut - 1
  /\ counters' = counters

GoesOn(r) ==
  /\ req[r].stage \in {"new", "resolving", "routed", "connecting", "reading"}
  /\ req'[r].stage # "answered"
  /\ req'[r].stage \in OnDatabase <=> req[r].stage \in OnDatabase
  /\ checkedOut' = checkedOut
  /\ counters' = counters

LEMMA StageMoves ==
  ASSUME RequestsInStep, NEW r \in Requests,
         \/ \E route \in Routes : Arrive(r, route)
         \/ ResolveMetrics(r) \/ Dispatch(r) \/ Connect(r)
         \/ DatabaseAnswers(r) \/ Finish(r)
  PROVE  Finishes(r) \/ TakesConnection(r) \/ GivesBack(r) \/ GoesOn(r)
<1>1. req \in [Requests -> Record] /\ Holds(req[r].stage, req[r].holds)
  BY DEF RequestsInStep, InStep
<1>2. {"resolving", "routed", "connecting", "reading", "committing", "rolling back",
       "responded", "raised", "answered"} \subseteq Stages
  BY DEF Stages, Underway, OnDatabase
<1>3. ASSUME NEW stage \in Stages, Go(r, stage) PROVE req'[r].stage = stage
  BY <1>1, <1>3, GoMoves DEF Moved
<1>4. ASSUME NEW error, Handle(r, error)
      PROVE  req'[r].stage = IF error = "StorageError" THEN "responded" ELSE "raised"
  BY <1>1, <1>2, <1>4, HandleMoves DEF Moved
<1>5. ASSUME NEW route \in Routes, Arrive(r, route) PROVE GoesOn(r)
  <2>1. req'[r].stage \in {"routed", "resolving"}
    BY <1>1, <1>5 DEF Arrive, Record
  <2> QED BY <1>5, <2>1 DEF Arrive, metrics, storage, GoesOn, OnDatabase
<1>6. CASE ResolveMetrics(r)
  <2>1. req'[r].stage = "routed"
    BY <1>2, <1>3, <1>6 DEF ResolveMetrics
  <2> QED BY <1>6, <2>1 DEF ResolveMetrics, storage, GoesOn, OnDatabase
<1>7. CASE AnswerDirectly(r)
  <2>1. req'[r].stage = "responded"
    BY <1>1, <1>7 DEF AnswerDirectly, Respond, Record
  <2> QED BY <1>7, <2>1 DEF AnswerDirectly, metrics, GoesOn, OnDatabase
<1>8. CASE WindowOverflows(r)
  <2>1. req'[r].stage = "raised"
    BY <1>2, <1>3, <1>8 DEF WindowOverflows
  <2> QED BY <1>8, <2>1 DEF WindowOverflows, metrics, GoesOn, OnDatabase
<1>9. CASE EnterUnitOfWork(r)
  <2>1. req'[r].stage = "connecting"
    BY <1>2, <1>3, <1>9 DEF EnterUnitOfWork
  <2> QED BY <1>9, <2>1 DEF EnterUnitOfWork, GoesOn, OnDatabase
<1>10. CASE CheckOut(r)
  <2>1. req'[r].stage = "reading"
    BY <1>1, <1>10 DEF CheckOut, Record
  <2> QED BY <1>10, <2>1 DEF CheckOut, metrics, TakesConnection
<1>11. CASE ConnectFails(r)
  <2>1. req'[r].stage \in {"responded", "raised"}
    BY <1>4, <1>11 DEF ConnectFails
  <2> QED BY <1>11, <2>1 DEF ConnectFails, metrics, storage, GoesOn, OnDatabase
<1>12. CASE ReadAnswered(r)
  <2>1. req'[r].stage = "committing"
    BY <1>2, <1>3, <1>12 DEF ReadAnswered
  <2> QED BY <1>12, <2>1 DEF ReadAnswered, metrics, storage, GoesOn, OnDatabase
<1>13. ASSUME NEW error, Handle(r, error), CloseSession(r), req[r].stage \in OnDatabase,
              UNCHANGED metrics
       PROVE  GivesBack(r)
  <2>1. req'[r].stage \in {"responded", "raised"}
    BY <1>4, <1>13
  <2>2. req[r].holds = TRUE
    BY <1>1, <1>13 DEF Holds
  <2> QED BY <1>13, <2>1, <2>2 DEF CloseSession, metrics, GivesBack
<1>14. CASE ReadFails(r)
  <2>1. CASE Go(r, "rolling back") /\ UNCHANGED checkedOut
    <3>1. req'[r].stage = "rolling back"
      BY <1>2, <1>3, <2>1
    <3> QED BY <1>14, <2>1, <3>1 DEF ReadFails, metrics, GoesOn, OnDatabase
  <2>2. CASE CloseSession(r) /\ Handle(r, "driver")
    BY <1>13, <1>14, <2>2 DEF ReadFails, OnDatabase
  <2> QED BY <1>14, <2>1, <2>2 DEF ReadFails
<1>15. CASE Commit(r)
  <2>1. req'[r].stage = "responded"
    BY <1>1, <1>15 DEF Commit, Record
  <2>2. req[r].holds = TRUE
    BY <1>1, <1>15 DEF Commit, Holds, OnDatabase
  <2> QED BY <1>15, <2>1, <2>2 DEF Commit, CloseSession, metrics, GivesBack, OnDatabase
<1>16. CASE CommitFails(r) \/ Rollback(r)
  BY <1>13, <1>16 DEF CommitFails, Rollback, OnDatabase
<1>17. CASE Complete(r)
  <2>1. /\ req'[r].stage = "answered"
        /\ req'[r].route = req[r].route
        /\ req'[r].status = req[r].status
    BY <1>1, <1>2, <1>17, GoMoves DEF Complete, Moved
  <2> QED BY <1>17, <2>1 DEF Complete, storage, Finishes
<1>18. CASE Fail(r)
  <2>1. req'[r].stage = "answered" /\ req'[r].route = req[r].route
    BY <1>1, <1>18 DEF Fail, Record
  <2>2. req'[r].status = 500
    BY <1>1, <1>18 DEF Fail, Record
  <2> QED BY <1>18, <2>1, <2>2 DEF Fail, storage, Finishes
<1> QED BY <1>5, <1>6, <1>7, <1>8, <1>9, <1>10, <1>11, <1>12, <1>14, <1>15, <1>16, <1>17, <1>18
     DEF Dispatch, Connect, DatabaseAnswers, Finish

-----------------------------------------------------------------------------
(* The connections in use.                                                 *)

LEMMA HoldingStep ==
  ASSUME NEW r \in Requests, Moves(r),
         Finishes(r) \/ TakesConnection(r) \/ GivesBack(r) \/ GoesOn(r),
         checkedOut = Cardinality(Holding), checkedOut \in 0..PoolSize
  PROVE  checkedOut' = Cardinality(Holding') /\ checkedOut' \in 0..PoolSize
<1>1. IsFiniteSet(Holding) /\ PoolSize \in Nat
  BY RequestsAssumption, PoolAssumption, FS_Subset DEF Holding
<1>2. Holding' = {q \in Requests : req'[q].stage \in OnDatabase}
  BY DEF Holding
<1>3. \A q \in Requests \ {r} : q \in Holding' <=> q \in Holding
  BY <1>2 DEF Moves, Holding
<1>4. CASE TakesConnection(r)
  <2>1. r \notin Holding /\ r \in Holding'
    BY <1>2, <1>4 DEF TakesConnection, Holding, OnDatabase
  <2>2. Holding' = Holding \cup {r}
    BY <1>2, <1>3, <2>1 DEF Holding
  <2>3. Cardinality(Holding') = Cardinality(Holding) + 1
    BY <1>1, <2>1, <2>2, FS_AddElement
  <2> QED BY <1>1, <1>4, <2>3 DEF TakesConnection
<1>5. CASE GivesBack(r)
  <2>1. r \in Holding /\ r \notin Holding'
    BY <1>2, <1>5 DEF GivesBack, Holding, OnDatabase
  <2>2. Holding' = Holding \ {r}
    BY <1>2, <1>3, <2>1 DEF Holding
  <2>3. Cardinality(Holding') = Cardinality(Holding) - 1
    BY <1>1, <2>1, <2>2, FS_RemoveElement
  <2>4. Cardinality(Holding') \in Nat
    BY <1>1, <2>2, FS_RemoveElement, FS_CardinalityType
  <2> QED BY <1>1, <1>5, <2>3, <2>4 DEF GivesBack
<1>6. CASE Finishes(r) \/ GoesOn(r)
  <2>1. r \in Holding' <=> r \in Holding
    BY <1>2, <1>6 DEF Finishes, GoesOn, Holding, OnDatabase
  <2>2. Holding' = Holding
    BY <1>2, <1>3, <2>1 DEF Holding
  <2> QED BY <1>6, <2>2 DEF Finishes, GoesOn
<1> QED BY <1>4, <1>5, <1>6

(* The engine and the phase.                                               *)
LEMMA PhaseStep ==
  ASSUME TypeOK, RequestsInStep, PhaseInStep, [Next]_vars
  PROVE  PhaseInStep' /\ phase' \in {"serving", "draining", "stopped"}
                      /\ engine' \in {"none", "open", "disposed"}
<1>1. ASSUME NEW r \in Requests,
             \/ \E route \in Routes : Arrive(r, route)
             \/ ResolveMetrics(r) \/ Dispatch(r) \/ Connect(r)
             \/ DatabaseAnswers(r) \/ Finish(r)
      PROVE  phase' = phase /\ engine' \in {engine, "open"} /\ phase # "stopped"
  <2>1. phase = "stopped" => req[r].stage \notin Underway
    BY DEF PhaseInStep
  <2> QED BY <1>1, <2>1
       DEF Underway, OnDatabase, Arrive, ResolveMetrics, Dispatch, Connect, DatabaseAnswers,
           Finish, AnswerDirectly, WindowOverflows, EnterUnitOfWork, CheckOut, ConnectFails,
           ReadAnswered, ReadFails, Commit, CommitFails, Rollback, Complete, Fail, storage
<1>2. ASSUME NEW r \in Requests, phase' = phase, engine' \in {engine, "open"},
             phase # "stopped"
      PROVE  PhaseInStep'
  BY <1>2 DEF PhaseInStep
<1>3. CASE Drain
  BY <1>3 DEF Drain, storage, TypeOK, PhaseInStep
<1>4. CASE CloseContainer
  BY <1>4 DEF CloseContainer, TypeOK, PhaseInStep
<1>5. CASE UNCHANGED vars
  BY <1>5 DEF vars, storage, TypeOK, PhaseInStep
<1> QED BY <1>1, <1>2, <1>3, <1>4, <1>5 DEF Next, TypeOK

-----------------------------------------------------------------------------
(* The counters.                                                           *)

(* To observe an answer adds one to its series and leaves the others.      *)
LEMMA ObserveAdds ==
  ASSUME IsABag(counters), NEW r \in Requests, NEW status, Observe(r, status)
  PROVE  /\ IsABag(counters')
         /\ DOMAIN counters' = DOMAIN counters \cup {<<cached, req[r].route, status>>}
         /\ \A series : Value(series)' =
              IF series = <<cached, req[r].route, status>> THEN Value(series) + 1
              ELSE Value(series)
<1> DEFINE new == <<cached, req[r].route, status>>
<1> HIDE DEF new
<1>1. counters' = [e \in DOMAIN counters \cup {new} |->
                     (IF e \in DOMAIN counters THEN counters[e] ELSE 0)
                       + (IF e \in {new} THEN 1 ELSE 0)]
  BY DEF Observe, (+), SetToBag, new
<1>2. \A e \in DOMAIN counters : counters[e] \in Nat /\ counters[e] > 0
  BY DEF IsABag
<1>3. DOMAIN counters' = DOMAIN counters \cup {new}
  BY <1>1
<1>4. \A e \in DOMAIN counters' :
        counters'[e] = (IF e \in DOMAIN counters THEN counters[e] ELSE 0)
                         + (IF e = new THEN 1 ELSE 0)
  BY <1>1
<1>5. IsABag(counters')
  BY <1>1, <1>2 DEF IsABag
<1>6. \A series : Value(series)' = IF series = new THEN Value(series) + 1 ELSE Value(series)
  BY <1>2, <1>3, <1>4 DEF Value, BagIn, BagToSet
<1> QED BY <1>3, <1>5, <1>6 DEF new

LEMMA AnsweredStep ==
  ASSUME NEW r \in Requests, Moves(r)
  PROVE  /\ Finishes(r) =>
              /\ r \notin Answered
              /\ Answered' = Answered \cup {r}
              /\ \A route, status : AnsweredWith(route, status)' =
                   IF route = req'[r].route /\ status = req'[r].status
                     THEN AnsweredWith(route, status) \cup {r}
                     ELSE AnsweredWith(route, status)
         /\ (TakesConnection(r) \/ GivesBack(r) \/ GoesOn(r)) =>
              /\ r \notin Answered
              /\ Answered' = Answered
              /\ \A route, status : AnsweredWith(route, status)' = AnsweredWith(route, status)
<1>1. Answered' = {q \in Requests : req'[q].stage = "answered"}
  BY DEF Answered
<1>2. \A route, status :
        AnsweredWith(route, status)' =
          {q \in Answered' : req'[q].route = route /\ req'[q].status = status}
  BY DEF AnsweredWith, Label
<1>3. \A route, status :
        AnsweredWith(route, status) =
          {q \in Answered : req[q].route = route /\ req[q].status = status}
  BY DEF AnsweredWith, Label
<1>4. \A q \in Requests \ {r} : req'[q] = req[q]
  BY DEF Moves
<1>5. CASE Finishes(r)
  <2>1. req[r].stage # "answered" /\ req'[r].stage = "answered"
    BY <1>5 DEF Finishes
  <2>2. r \notin Answered /\ Answered' = Answered \cup {r}
    BY <1>1, <1>4, <2>1 DEF Answered
  <2>3. ASSUME NEW route, NEW status
        PROVE  AnsweredWith(route, status)' =
                 IF route = req'[r].route /\ status = req'[r].status
                   THEN AnsweredWith(route, status) \cup {r}
                   ELSE AnsweredWith(route, status)
    BY <1>2, <1>3, <1>4, <2>2 DEF Answered
  <2> QED BY <1>5, <2>2, <2>3 DEF Finishes, TakesConnection, GivesBack, GoesOn
<1>6. CASE TakesConnection(r) \/ GivesBack(r) \/ GoesOn(r)
  <2>1. req[r].stage # "answered" /\ req'[r].stage # "answered"
    BY <1>6 DEF TakesConnection, GivesBack, GoesOn, OnDatabase
  <2>2. r \notin Answered /\ Answered' = Answered
    BY <1>1, <1>4, <2>1 DEF Answered
  <2>3. \A route, status : AnsweredWith(route, status)' = AnsweredWith(route, status)
    BY <1>2, <1>3, <1>4, <2>2 DEF Answered
  <2>4. ~Finishes(r)
    BY <2>1 DEF Finishes
  <2> QED BY <2>2, <2>3, <2>4
<1> QED BY <1>5, <1>6

LEMMA CountersStep ==
  ASSUME RequestsInStep, CountersInStep, IsABag(counters), NEW r \in Requests, Moves(r),
         Finishes(r) \/ TakesConnection(r) \/ GivesBack(r) \/ GoesOn(r)
  PROVE  CountersInStep' /\ IsABag(counters')
<1>1. CASE Finishes(r)
  <2>1. cached = 1
    BY <1>1 DEF Finishes, RequestsInStep, InStep
  <2>2. /\ IsABag(counters')
        /\ DOMAIN counters' = DOMAIN counters \cup {<<1, req'[r].route, req'[r].status>>}
        /\ \A series : Value(series)' =
             IF series = <<1, req'[r].route, req'[r].status>> THEN Value(series) + 1
             ELSE Value(series)
    BY <1>1, <2>1, ObserveAdds DEF Finishes
  <2>3. \A series \in DOMAIN counters' : series[1] = 1
    BY <2>2 DEF CountersInStep
  <2>4. ASSUME NEW route \in Routes, NEW status \in Statuses
        PROVE  Value(<<1, route, status>>)' = Cardinality(AnsweredWith(route, status)')
    <3>1. /\ r \notin AnsweredWith(route, status)
          /\ AnsweredWith(route, status)' =
               IF route = req'[r].route /\ status = req'[r].status
                 THEN AnsweredWith(route, status) \cup {r}
                 ELSE AnsweredWith(route, status)
      BY <1>1, AnsweredStep DEF AnsweredWith
    <3>2. IsFiniteSet(AnsweredWith(route, status))
      BY RequestsAssumption, FS_Subset DEF AnsweredWith, Answered
    <3>3. Value(<<1, route, status>>)' =
            IF route = req'[r].route /\ status = req'[r].status
              THEN Value(<<1, route, status>>) + 1 ELSE Value(<<1, route, status>>)
      BY <2>2
    <3>4. Value(<<1, route, status>>) = Cardinality(AnsweredWith(route, status))
      BY DEF CountersInStep
    <3> QED BY <3>1, <3>2, <3>3, <3>4, FS_AddElement
  <2> QED BY <2>2, <2>3, <2>4 DEF CountersInStep
<1>2. CASE TakesConnection(r) \/ GivesBack(r) \/ GoesOn(r)
  <2>1. counters' = counters
    BY <1>2 DEF TakesConnection, GivesBack, GoesOn
  <2>2. \A route, status : AnsweredWith(route, status)' = AnsweredWith(route, status)
    BY <1>2, AnsweredStep
  <2> QED BY <2>1, <2>2 DEF CountersInStep, Value
<1> QED BY <1>1, <1>2

-----------------------------------------------------------------------------
(* What a scrape shows.                                                    *)

LEMMA SamplesFinite == ASSUME ScrapesInStep PROVE Rendered \in Nat
BY FS_Subset, FS_CardinalityType DEF ScrapesInStep, Rendered

(* Samples is finite with as many members as there are answers, one more   *)
(* with each.                                                              *)
LEMMA SamplesStep ==
  ASSUME IsABag(counters), NEW r \in Requests, NEW status, Observe(r, status),
         IsFiniteSet(Samples)
  PROVE  IsFiniteSet(Samples') /\ Cardinality(Samples') = Cardinality(Samples) + 1
<1> PICK new : new = <<cached, req[r].route, status>>
  OBVIOUS
<1>1. /\ DOMAIN counters' = DOMAIN counters \cup {new}
      /\ \A series : Value(series)' =
           IF series = new THEN Value(series) + 1 ELSE Value(series)
  BY ObserveAdds
<1>2. \A sample : sample \in Samples <=>
        \E series \in DOMAIN counters : sample \in {series} \X (1..Value(series))
  BY DEF Samples, Value, BagIn, BagToSet
<1>3. \A sample : sample \in Samples' <=>
        \E series \in DOMAIN counters' : sample \in {series} \X (1..Value(series)')
  BY DEF Samples, Value, BagIn, BagToSet
<1>4. \A series : Value(series) \in Nat /\ (series \notin DOMAIN counters => Value(series) = 0)
  BY DEF IsABag, Value, BagIn, BagToSet
<1>5. PICK next : next = <<new, Value(new) + 1>>
  OBVIOUS
<1>6. next \notin Samples
  BY <1>2, <1>4, <1>5
<1>7. Samples' = Samples \cup {next}
  <2>1. ASSUME NEW sample \in Samples' PROVE sample \in Samples \cup {next}
    <3>1. PICK series \in DOMAIN counters' : sample \in {series} \X (1..Value(series)')
      BY <1>3
    <3>2. PICK n \in 1..Value(series)' : sample = <<series, n>>
      BY <3>1
    <3>3. CASE series = new
      <4>1. n \in 1..Value(new) + 1
        BY <1>1, <3>2, <3>3
      <4>2. CASE n = Value(new) + 1
        BY <1>5, <3>2, <3>3, <4>2
      <4>3. CASE n # Value(new) + 1
        <5>1. n \in 1..Value(new) /\ new \in DOMAIN counters
          BY <1>4, <4>1, <4>3
        <5> QED BY <1>2, <3>2, <3>3, <5>1
      <4> QED BY <4>2, <4>3
    <3>4. CASE series # new
      <4>1. series \in DOMAIN counters /\ n \in 1..Value(series)
        BY <1>1, <3>1, <3>2, <3>4
      <4> QED BY <1>2, <3>2, <4>1
    <3> QED BY <3>3, <3>4
  <2>2. next \in Samples'
    <3>1. new \in DOMAIN counters' /\ Value(new)' = Value(new) + 1
      BY <1>1
    <3>2. Value(new) + 1 \in 1..Value(new) + 1
      BY <1>4
    <3>3. next \in {new} \X (1..Value(new) + 1)
      BY <1>5, <3>2
    <3> QED BY <1>3, <3>1, <3>3
  <2>3. ASSUME NEW sample \in Samples PROVE sample \in Samples'
    <3>1. PICK series \in DOMAIN counters : sample \in {series} \X (1..Value(series))
      BY <1>2
    <3>2. PICK n \in 1..Value(series) : sample = <<series, n>>
      BY <3>1
    <3>3. series \in DOMAIN counters' /\ n \in 1..Value(series)'
      BY <1>1, <1>4
    <3> QED BY <1>3, <3>2, <3>3
  <2> QED BY <2>1, <2>2, <2>3
<1> QED BY <1>6, <1>7, FS_AddElement

(* What a scrape is judged by changes when it arrives and when it renders. *)
Rendering(r) == Commit(r) /\ req'[r].shown = Rendered /\ exporter = 1

Keeps(r) == req'[r].before = req[r].before /\ req'[r].shown = req[r].shown

LEMMA HandleKeeps ==
  ASSUME req \in [Requests -> Record], NEW r \in Requests, NEW error, Handle(r, error)
  PROVE  Keeps(r)
<1>1. CASE error = "StorageError"
  <2>1. PICK status \in Nat : status = 503
    OBVIOUS
  <2>2. req' = [req EXCEPT ![r].holds = FALSE, ![r].stage = "responded", ![r].status = status]
    BY <1>1, <2>1 DEF Handle
  <2> QED BY <2>2 DEF Keeps, Record
<1>2. CASE error # "StorageError"
  <2>1. req' = [req EXCEPT ![r].holds = FALSE, ![r].stage = "raised"]
    BY <1>2 DEF Handle
  <2> QED BY <2>1 DEF Keeps, Record
<1> QED BY <1>1, <1>2

LEMMA ScrapeMoves ==
  ASSUME RequestsInStep, NEW r \in Requests, Moves(r),
         Cardinality(Answered) \in Nat, Rendered \in Nat,
         \/ \E route \in Routes : Arrive(r, route)
         \/ ResolveMetrics(r) \/ Dispatch(r) \/ Connect(r)
         \/ DatabaseAnswers(r) \/ Finish(r)
  PROVE  /\ req'[r].before \in {req[r].before, Cardinality(Answered)}
         /\ (req'[r].route = "/metrics" /\ req'[r].status = 200) =>
              /\ req'[r].before = req[r].before
              /\ \/ Rendering(r)
                 \/ /\ req[r].route = "/metrics" /\ req[r].status = 200
                    /\ Keeps(r)
<1>1. req \in [Requests -> Record] /\ InStep(r)
  BY DEF RequestsInStep
<1>2. {"resolving", "routed", "connecting", "reading", "committing", "rolling back",
       "responded", "raised", "answered"} \subseteq Stages
  BY DEF Stages, Underway, OnDatabase
<1>3. req'[r].stage \notin {"responded", "answered"} => req'[r].status # 200
  BY DEF Moves, InStep
<1>4. ASSUME NEW route \in Routes, Arrive(r, route)
      PROVE  /\ req'[r].before = Cardinality(Answered)
             /\ req'[r].stage \notin {"responded", "answered"}
  <2>1. PICK to \in {"routed", "resolving"} :
          to = IF cached # 0 THEN "routed" ELSE "resolving"
    OBVIOUS
  <2> PICK seen \in Nat : seen = Cardinality(Answered)
    OBVIOUS
  <2>2. req' = [req EXCEPT ![r].stage = to, ![r].route = route, ![r].before = seen]
    BY <1>4, <2>1 DEF Arrive
  <2> QED BY <1>1, <2>1, <2>2 DEF Record
<1>5. ASSUME NEW stage \in Stages, Go(r, stage)
      PROVE  Keeps(r) /\ req'[r].stage = stage
  BY <1>1, <1>5 DEF Go, Keeps, Record
<1>6. CASE ResolveMetrics(r) \/ WindowOverflows(r) \/ EnterUnitOfWork(r) \/ ReadAnswered(r)
  <2>1. PICK stage \in {"routed", "raised", "connecting", "committing"} : Go(r, stage)
    BY <1>6 DEF ResolveMetrics, WindowOverflows, EnterUnitOfWork, ReadAnswered
  <2>2. Keeps(r) /\ req'[r].stage = stage
    BY <1>2, <1>5, <2>1
  <2> QED BY <1>3, <2>1, <2>2 DEF Keeps
<1>7. CASE AnswerDirectly(r)
  <2>1. PICK status \in Statuses :
          /\ Respond(r, status)
          /\ req[r].route = "/metrics" => status = 422
    BY <1>7 DEF AnswerDirectly, Statuses
  <2>2. Keeps(r) /\ req'[r].status = status /\ req'[r].route = req[r].route
    BY <1>1, <2>1 DEF Respond, Keeps, Record
  <2> QED BY <2>1, <2>2 DEF Keeps
<1>8. CASE CheckOut(r)
  <2>1. Keeps(r) /\ req'[r].stage = "reading"
    BY <1>1, <1>8 DEF CheckOut, Keeps, Record
  <2> QED BY <1>3, <2>1 DEF Keeps
<1>9. ASSUME NEW error, Handle(r, error), req[r].stage \in OnDatabase \cup {"connecting"}
      PROVE  Keeps(r) /\ req'[r].status # 200
  <2>1. req[r].status = 0
    BY <1>1, <1>9 DEF InStep, OnDatabase
  <2>2. req'[r].status \in {0, 503}
    BY <1>1, <1>2, <1>9, <2>1, HandleMoves DEF Moved
  <2> QED BY <1>1, <1>9, <2>2, HandleKeeps
<1>10. CASE ConnectFails(r)
  <2>1. Keeps(r) /\ req'[r].status # 200
    BY <1>9, <1>10 DEF ConnectFails
  <2> QED BY <2>1 DEF Keeps
<1>11. CASE ReadFails(r)
  <2>1. CASE Go(r, "rolling back")
    <3>1. Keeps(r) /\ req'[r].stage = "rolling back"
      BY <1>2, <1>5, <2>1
    <3> QED BY <1>3, <3>1 DEF Keeps
  <2>2. CASE Handle(r, "driver")
    <3>1. Keeps(r) /\ req'[r].status # 200
      BY <1>9, <1>11, <2>2 DEF ReadFails, OnDatabase
    <3> QED BY <3>1 DEF Keeps
  <2> QED BY <1>11, <2>1, <2>2 DEF ReadFails
<1>12. CASE CommitFails(r) \/ Rollback(r)
  <2>1. Keeps(r) /\ req'[r].status # 200
    BY <1>9, <1>12 DEF CommitFails, Rollback, OnDatabase
  <2> QED BY <2>1 DEF Keeps
<1>13. CASE Commit(r)
  <2>1. PICK now \in Nat : now = IF req[r].route = "/metrics" THEN Rendered ELSE req[r].shown
    BY <1>1 DEF Record
  <2>2. PICK given \in Nat : given = 200
    OBVIOUS
  <2>3. req' = [req EXCEPT ![r].stage = "responded", ![r].status = given,
                           ![r].holds = FALSE, ![r].shown = now]
    BY <1>13, <2>1, <2>2 DEF Commit
  <2>4. /\ req'[r].before = req[r].before
        /\ req'[r].shown = now
        /\ req'[r].route = req[r].route
    BY <1>1, <2>3 DEF Record
  <2>5. req[r].route = "/metrics" => exporter = 1
    BY <1>1, <1>13 DEF Commit, InStep, OnDatabase
  <2> QED BY <1>13, <2>1, <2>4, <2>5 DEF Rendering
<1>14. CASE Complete(r)
  <2>1. Go(r, "answered")
    BY <1>14 DEF Complete
  <2>2. /\ Keeps(r)
        /\ req'[r].status = req[r].status
        /\ req'[r].route = req[r].route
    BY <1>1, <1>2, <1>5, <2>1, GoMoves DEF Moved
  <2> QED BY <2>2 DEF Keeps
<1>15. CASE Fail(r)
  <2>1. PICK given \in Nat : given = 500
    OBVIOUS
  <2>2. req' = [req EXCEPT ![r].stage = "answered", ![r].status = given]
    BY <1>15, <2>1 DEF Fail
  <2>3. req'[r].before = req[r].before /\ req'[r].status = given
    BY <1>1, <2>2 DEF Record
  <2> QED BY <2>1, <2>3
<1> QED BY <1>3, <1>4, <1>6, <1>7, <1>8, <1>10, <1>11, <1>12, <1>13, <1>14, <1>15
     DEF Dispatch, Connect, DatabaseAnswers, Finish

LEMMA ScrapesStep ==
  ASSUME RequestsInStep, CountersInStep, ScrapesInStep, IsABag(counters),
         NEW r \in Requests, Moves(r),
         Finishes(r) \/ TakesConnection(r) \/ GivesBack(r) \/ GoesOn(r),
         \/ \E route \in Routes : Arrive(r, route)
         \/ ResolveMetrics(r) \/ Dispatch(r) \/ Connect(r)
         \/ DatabaseAnswers(r) \/ Finish(r)
  PROVE  ScrapesInStep'
<1>1. /\ r \notin Answered /\ Answered \subseteq Answered'
      /\ Answered' \subseteq Answered \cup {r}
  BY AnsweredStep
<1>2. IsFiniteSet(Answered) /\ IsFiniteSet(Answered')
  <2>1. Answered \subseteq Requests
    BY DEF Answered
  <2>2. Answered' \subseteq Requests
    BY <1>1, <2>1
  <2> QED BY <2>1, <2>2, RequestsAssumption, FS_Subset
<1>3. Cardinality(Answered) \in Nat /\ Rendered \in Nat
  BY <1>2, FS_CardinalityType, SamplesFinite
<1>4. \A S, T : (S \subseteq T /\ IsFiniteSet(T)) =>
        /\ Cardinality(S) \in Nat /\ Cardinality(T) \in Nat
        /\ Cardinality(S) <= Cardinality(T)
  BY FS_Subset, FS_CardinalityType
<1>5. IsFiniteSet(Samples') /\ Cardinality(Samples') = Cardinality(Answered')
  <2>1. CASE Finishes(r)
    <3>1. IsFiniteSet(Samples') /\ Cardinality(Samples') = Cardinality(Samples) + 1
      <4>1. PICK status : status = req'[r].status
        OBVIOUS
      <4> QED BY <2>1, <4>1, SamplesStep DEF Finishes, ScrapesInStep
    <3>2. Cardinality(Answered') = Cardinality(Answered) + 1
      BY <1>2, <2>1, AnsweredStep, FS_AddElement
    <3> QED BY <3>1, <3>2 DEF ScrapesInStep
  <2>2. CASE TakesConnection(r) \/ GivesBack(r) \/ GoesOn(r)
    <3>1. counters' = counters /\ Answered' = Answered
      BY <2>2, AnsweredStep DEF TakesConnection, GivesBack, GoesOn
    <3>2. Samples' = Samples
      BY <3>1 DEF Samples
    <3> QED BY <3>1, <3>2 DEF ScrapesInStep
  <2> QED BY <2>1, <2>2
<1>6. ASSUME NEW q \in Requests \ {r} PROVE Shown(q)'
  <2>1. req'[q] = req[q] /\ Shown(q)
    BY <1>6 DEF Moves, ScrapesInStep
  <2>2. req[q].before \in Nat /\ req[q].shown \in Nat
    BY DEF RequestsInStep, Record
  <2>3. Cardinality(Answered \ {q}) <= Cardinality(Answered' \ {q})
    <3>1. Answered \ {q} \subseteq Answered' \ {q} /\ IsFiniteSet(Answered' \ {q})
      BY <1>1, <1>2, FS_Subset
    <3> QED BY <1>4, <3>1
  <2>4. /\ Cardinality(Answered \ {q}) \in Nat /\ Cardinality(Answered' \ {q}) \in Nat
        /\ Cardinality(Answered) <= Cardinality(Answered')
        /\ Cardinality(Answered') \in Nat
    <3>1. /\ Answered \ {q} \subseteq Answered
          /\ Answered' \ {q} \subseteq Answered'
      OBVIOUS
    <3> QED BY <1>1, <1>2, <1>4, <3>1
  <2> QED BY <1>3, <2>1, <2>2, <2>3, <2>4 DEF Shown
<1>7. Shown(r)'
  <2>1. /\ req'[r].before \in {req[r].before, Cardinality(Answered)}
        /\ (req'[r].route = "/metrics" /\ req'[r].status = 200) =>
             /\ req'[r].before = req[r].before
             /\ \/ Rendering(r)
                \/ /\ req[r].route = "/metrics" /\ req[r].status = 200
                   /\ Keeps(r)
    BY <1>3, ScrapeMoves
  <2>2. /\ req[r].before \in Nat /\ req[r].before <= Cardinality(Answered)
        /\ req[r].shown \in Nat
        /\ (req[r].route = "/metrics" /\ req[r].status = 200) =>
             /\ req[r].shown >= req[r].before
             /\ req[r].shown <= Cardinality(Answered)
    <3>1. Answered \ {r} = Answered
      BY <1>1
    <3> QED BY <3>1 DEF RequestsInStep, Record, ScrapesInStep, Shown
  <2>3. /\ Cardinality(Answered) <= Cardinality(Answered' \ {r})
        /\ Cardinality(Answered' \ {r}) \in Nat
        /\ Cardinality(Answered) <= Cardinality(Answered')
        /\ Cardinality(Answered') \in Nat
    <3>1. /\ Answered \subseteq Answered' \ {r} /\ Answered' \ {r} \subseteq Answered'
          /\ IsFiniteSet(Answered' \ {r})
      BY <1>1, <1>2, FS_Subset
    <3> QED BY <1>1, <1>2, <1>4, <3>1
  <2>4. CASE Rendering(r)
    <3>1. exporter = 1 /\ req'[r].shown = Rendered
      BY <2>4 DEF Rendering
    <3>2. \A sample \in Samples : sample[1][1] = 1
      BY DEF CountersInStep, Samples, BagToSet
    <3>3. Rendered = Cardinality(Samples)
      <4>1. {sample \in Samples : sample[1][1] = exporter} = Samples
        BY <3>1, <3>2
      <4> QED BY <4>1 DEF Rendered
    <3>4. req'[r].shown = Cardinality(Answered)
      BY <3>1, <3>3 DEF ScrapesInStep
    <3>5. req'[r].before <= Cardinality(Answered')
      BY <1>3, <2>1, <2>2, <2>3
    <3>6. (req'[r].route = "/metrics" /\ req'[r].status = 200) =>
            req'[r].shown >= req'[r].before
      BY <1>3, <2>1, <2>2, <3>4
    <3>7. req'[r].shown <= Cardinality(Answered' \ {r})
      BY <2>3, <3>4
    <3> QED BY <3>5, <3>6, <3>7 DEF Shown
  <2>5. CASE ~Rendering(r)
    <3>1. req'[r].before <= Cardinality(Answered')
      BY <1>3, <2>1, <2>2, <2>3
    <3>2. (req'[r].route = "/metrics" /\ req'[r].status = 200) =>
            /\ req'[r].shown >= req'[r].before
            /\ req'[r].shown <= Cardinality(Answered' \ {r})
      BY <1>3, <2>1, <2>2, <2>3, <2>5 DEF Keeps
    <3> QED BY <3>1, <3>2 DEF Shown
  <2> QED BY <2>4, <2>5
<1> QED BY <1>5, <1>6, <1>7 DEF ScrapesInStep

-----------------------------------------------------------------------------
(* The invariant.                                                          *)

LEMMA InvInit == Init => Inv
<1> SUFFICES ASSUME Init PROVE Inv
  OBVIOUS
<1>1. req = [r \in Requests |-> NewRequest] /\ NewRequest \in Record
  BY DEF Init, NewRequest, Record, Stages, Routes
<1>2. /\ req \in [Requests -> Record]
      /\ \A r \in Requests : req[r] = NewRequest
  BY <1>1
<1>3. \A r \in Requests :
        /\ req[r].stage = "new" /\ req[r].status = 0 /\ req[r].route = "/__unmatched__"
        /\ req[r].holds = FALSE /\ req[r].before = 0
  BY <1>2 DEF NewRequest
<1>4. RequestsInStep
  <2>1. ASSUME NEW r \in Requests PROVE InStep(r)
    <3>1. /\ req[r].stage = "new" /\ req[r].status = 0
          /\ req[r].route = "/__unmatched__" /\ req[r].holds = FALSE
      BY <1>3
    <3> QED BY <3>1 DEF InStep, Holds, OnDatabase
  <2> QED BY <1>2, <2>1 DEF RequestsInStep
<1>5. PhaseInStep
  BY DEF Init, PhaseInStep
<1>6. Answered = {} /\ Holding = {}
  BY <1>3 DEF Answered, Holding, OnDatabase
<1>7. DOMAIN counters = {} /\ IsABag(counters)
  BY DEF Init, EmptyBag, SetToBag, IsABag
<1>8. Samples = {}
  BY <1>7 DEF Samples, BagToSet
<1>9. Cardinality({}) = 0 /\ IsFiniteSet({})
  BY FS_EmptySet
<1>10. TypeOK
  <2>1. \A r \in Requests :
          /\ req[r].stage \in {"new", "answered"} \cup Underway
          /\ req[r].route \in Routes
          /\ req[r].status \in {0, 200, 404, 422, 500, 503}
    BY <1>3 DEF Routes
  <2> QED BY <1>7, <2>1, PoolAssumption DEF Init, TypeOK
<1>11. checkedOut = Cardinality(Holding)
  BY <1>6, <1>9 DEF Init
<1>12. CountersInStep
  <2>1. \A route, status : AnsweredWith(route, status) = {}
    BY <1>6 DEF AnsweredWith
  <2> QED BY <1>7, <1>9, <2>1 DEF CountersInStep, Value, BagIn, BagToSet
<1>13. ScrapesInStep
  BY <1>3, <1>6, <1>8, <1>9 DEF ScrapesInStep, Shown
<1> QED BY <1>4, <1>5, <1>10, <1>11, <1>12, <1>13 DEF Inv

RequestsTyped ==
  \A r \in Requests :
    /\ req[r].stage \in {"new", "answered"} \cup Underway
    /\ req[r].route \in Routes
    /\ req[r].status \in {0, 200, 404, 422, 500, 503}

LEMMA RequestTypes == RequestsInStep => RequestsTyped
<1> SUFFICES ASSUME RequestsInStep, NEW r \in Requests
             PROVE  /\ req[r].stage \in {"new", "answered"} \cup Underway
                    /\ req[r].route \in Routes
                    /\ req[r].status \in {0, 200, 404, 422, 500, 503}
  BY DEF RequestsTyped
<1>1. req[r].stage \in Stages /\ req[r].route \in Routes
  BY DEF RequestsInStep, Record
<1>2. req[r].status \in {0} \cup Statuses
  BY DEF RequestsInStep, InStep
<1> QED BY <1>1, <1>2 DEF Stages, Statuses

LEMMA InvNext == Inv /\ [Next]_vars => Inv'
<1> SUFFICES ASSUME Inv, [Next]_vars PROVE Inv'
  OBVIOUS
<1>1. /\ TypeOK /\ RequestsInStep /\ PhaseInStep /\ CountersInStep /\ ScrapesInStep
      /\ checkedOut = Cardinality(Holding) /\ checkedOut \in 0..PoolSize
      /\ IsABag(counters) /\ InstancesTyped
  BY DEF Inv, TypeOK, InstancesTyped
<1>2. /\ PhaseInStep' /\ phase' \in {"serving", "draining", "stopped"}
      /\ engine' \in {"none", "open", "disposed"}
  BY <1>1, PhaseStep
<1>3. InstancesTyped' /\ (cached = 1 => cached' = 1) /\ (exporter = 1 => exporter' = 1)
  BY <1>1, InstancesStep
<1> DEFINE Stepped == /\ RequestsInStep'
                      /\ checkedOut' = Cardinality(Holding') /\ checkedOut' \in 0..PoolSize
                      /\ CountersInStep' /\ IsABag(counters')
                      /\ ScrapesInStep'
<1>4. Stepped
  <2>1. ASSUME NEW r \in Requests,
               \/ \E route \in Routes : Arrive(r, route)
               \/ ResolveMetrics(r) \/ Dispatch(r) \/ Connect(r)
               \/ DatabaseAnswers(r) \/ Finish(r)
        PROVE  Stepped
    <3>1. Cardinality(Answered) \in Nat /\ Rendered \in Nat
      BY <1>1, RequestsAssumption, FS_Subset, FS_CardinalityType, SamplesFinite DEF Answered
    <3>2. Moves(r)
      BY <1>1, <2>1, <3>1, RequestMoves
    <3>3. Finishes(r) \/ TakesConnection(r) \/ GivesBack(r) \/ GoesOn(r)
      BY <1>1, <2>1, StageMoves
    <3>4. RequestsInStep'
      <4>1. ASSUME NEW q \in Requests \ {r} PROVE InStep(q)'
        <5>1. req'[q] = req[q] /\ InStep(q)
          BY <1>1, <3>2 DEF Moves, RequestsInStep
        <5> QED BY <1>3, <5>1 DEF InStep
      <4> QED BY <3>2, <4>1 DEF Moves, RequestsInStep
    <3>5. checkedOut' = Cardinality(Holding') /\ checkedOut' \in 0..PoolSize
      BY <1>1, <3>2, <3>3, HoldingStep
    <3>6. CountersInStep' /\ IsABag(counters')
      BY <1>1, <3>2, <3>3, CountersStep
    <3>7. ScrapesInStep'
      BY <1>1, <2>1, <3>2, <3>3, ScrapesStep
    <3> QED BY <3>4, <3>5, <3>6, <3>7
  <2>2. CASE UNCHANGED <<req, metrics, checkedOut>>
    <3>1. /\ req' = req /\ cached' = cached /\ exporter' = exporter
          /\ counters' = counters /\ checkedOut' = checkedOut
      BY <2>2 DEF metrics
    <3>2. RequestsInStep'
      BY <1>1, <3>1 DEF RequestsInStep, InStep
    <3>3. Answered' = Answered /\ Holding' = Holding /\ Samples' = Samples
      BY <3>1 DEF Answered, Holding, Samples
    <3>4. CountersInStep'
      <4>1. \A route, status : AnsweredWith(route, status)' = AnsweredWith(route, status)
        BY <3>1, <3>3 DEF AnsweredWith, Label
      <4> QED BY <1>1, <3>1, <4>1 DEF CountersInStep, Value
    <3>5. ScrapesInStep'
      BY <1>1, <3>1, <3>3 DEF ScrapesInStep, Shown
    <3> QED BY <1>1, <3>1, <3>2, <3>3, <3>4, <3>5
  <2>3. CASE Drain \/ CloseContainer \/ UNCHANGED vars
    BY <2>2, <2>3 DEF Drain, CloseContainer, vars, storage
  <2> HIDE DEF Stepped
  <2> QED BY <2>1, <2>3 DEF Next
<1>5. TypeOK'
  <2>1. RequestsTyped'
    BY <1>4, RequestTypes, PTL
  <2> QED BY <1>2, <1>3, <1>4, <2>1 DEF TypeOK, InstancesTyped, RequestsTyped
<1> QED BY <1>2, <1>4, <1>5 DEF Inv

LEMMA InvHolds == Spec => []Inv
BY InvInit, InvNext, PTL DEF Spec

-----------------------------------------------------------------------------
(* What follows from it.                                                   *)

(***************************************************************************)
(* Requests, counters, engine and pool hold values of their kind: in       *)
(* particular the pool of any size is never overdrawn, and no bound of the *)
(* instances the runs check is needed for it.                              *)
(***************************************************************************)
THEOREM TypeCorrect == Spec => []TypeOK
<1>1. Inv => TypeOK
  BY DEF Inv
<1> QED BY InvHolds, <1>1, PTL

(***************************************************************************)
(* However many requests run through the middleware at once, each answer   *)
(* is counted exactly once under its route and its status.                 *)
(***************************************************************************)
THEOREM CountsOnce == Spec => []CountedOnce
<1>1. Inv => CountedOnce
  <2> SUFFICES ASSUME Inv, NEW route \in Routes, NEW status \in Statuses
               PROVE  Value(<<cached, route, status>>) =
                        Cardinality(AnsweredWith(route, status))
    BY DEF CountedOnce, AnsweredWith, Statuses
  <2>1. CountersInStep /\ RequestsInStep /\ cached \in {0, 1}
    BY DEF Inv, TypeOK
  <2>2. CASE cached = 1
    BY <2>1, <2>2 DEF CountersInStep
  <2>3. CASE cached = 0
    <3>1. AnsweredWith(route, status) = {}
      BY <2>1, <2>3 DEF AnsweredWith, Answered, RequestsInStep, InStep
    <3>2. <<0, route, status>> \notin DOMAIN counters
      BY <2>1 DEF CountersInStep
    <3> QED BY <2>3, <3>1, <3>2, FS_EmptySet DEF Value, BagIn, BagToSet
  <2> QED BY <2>1, <2>2, <2>3
<1> QED BY InvHolds, <1>1, PTL

(***************************************************************************)
(* A scrape shows every answer given before it came and none twice, with   *)
(* any number of requests around it.                                       *)
(***************************************************************************)
THEOREM ScrapesShow == Spec => []ScrapeShowsAnswered
<1>1. Inv => ScrapeShowsAnswered
  BY DEF Inv, ScrapesInStep, Shown, ScrapeShowsAnswered
<1> QED BY InvHolds, <1>1, PTL

(***************************************************************************)
(* Connections are given back whatever fails, for any size of the pool,    *)
(* and none is used after the engine has been disposed of.                 *)
(***************************************************************************)
THEOREM GivenBack == Spec => []ConnectionsReturned
<1>1. Inv => ConnectionsReturned
  <2> SUFFICES ASSUME Inv PROVE ConnectionsReturned
    OBVIOUS
  <2>1. ASSUME NEW r \in Requests
        PROVE  req[r].stage \in OnDatabase <=> (req[r].stage \in Underway /\ req[r].holds)
    <3>1. Holds(req[r].stage, req[r].holds)
      BY DEF Inv, RequestsInStep, InStep
    <3>2. OnDatabase \subseteq Underway
      BY DEF Underway
    <3>3. CASE req[r].stage \in OnDatabase
      BY <3>1, <3>2, <3>3, Zenon DEF Holds
    <3>4. CASE req[r].stage \notin OnDatabase
      BY <3>1, <3>4, Zenon DEF Holds
    <3> QED BY <3>3, <3>4
  <2>2. {r \in Requests : req[r].stage \in Underway /\ req[r].holds} = Holding
    BY <2>1, Zenon DEF Holding
  <2>3. engine = "disposed" =>
          \A r \in Requests : req[r].stage \notin OnDatabase \cup {"connecting"}
    BY DEF Inv, PhaseInStep, Underway
  <2> QED BY <2>2, <2>3 DEF Inv, ConnectionsReturned
<1> QED BY InvHolds, <1>1, PTL

=============================================================================
