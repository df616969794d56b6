----------------------------- MODULE ApiService -----------------------------
(***************************************************************************)
(* The API process: the middleware every request passes                    *)
(* (api/middleware.py), the routes and the answers of the exception        *)
(* handlers (api/exceptions.py), the unit of work a storage route reads    *)
(* in, the counters /metrics renders with its snapshots, and the lifespan  *)
(* that closes the container (app.py).                                     *)
(*                                                                         *)
(* The process is one event loop: an action is what a request's task runs  *)
(* between two awaits.  What the reads return is the subject of            *)
(* RuntimeStore and QueryAnalytics.                                        *)
(***************************************************************************)
EXTENDS Integers, FiniteSets, Bags

CONSTANTS
  Requests,   \* bound: the requests the process is sent
  PoolSize    \* connections of the storage engine

ASSUME PoolAssumption == PoolSize \in Nat \ {0}
ASSUME RequestsAssumption == IsFiniteSet(Requests)

VARIABLES
  phase,      \* of the server
  req,        \* where each request is
  cached,     \* app.state.service_metrics; 0: not set
  provided,   \* the ServiceMetrics instances the container has built
  exporter,   \* the instance the exporter was built with; 0: not built
  counters,   \* pg_monitor_http_requests_total, of all instances
  engine,     \* the storage engine of the container
  checkedOut  \* its connections in use

metrics == <<cached, provided, exporter, counters>>
storage == <<engine, checkedOut>>
vars == <<phase, req, metrics, storage>>

StorageRoutes == {"/metrics", "/analytics/queries"}
Routes == StorageRoutes \cup {"/healthz", "/__unmatched__"}

(* Stages in which a request waits for the database itself.                *)
OnDatabase == {"reading", "committing", "rolling back"}
Underway == OnDatabase \cup {"resolving", "routed", "connecting", "responded", "raised"}

Answered == {r \in Requests : req[r].stage = "answered"}
Label(r) == <<req[r].route, req[r].status>>

Go(r, stage) == req' = [req EXCEPT ![r].stage = stage]

Respond(r, status) ==
  req' = [req EXCEPT ![r].stage = "responded", ![r].status = status]

-----------------------------------------------------------------------------
(* The middleware, on the way in.                                          *)

(***************************************************************************)
(* A request arrives.  A cached ServiceMetrics is used at once; otherwise  *)
(* the task waits for the container, as others may be doing.  `before` is  *)
(* not the code's: how many requests had been answered.                    *)
(***************************************************************************)
Arrive(r, route) ==
  /\ phase = "serving"
  /\ req[r].stage = "new"
  /\ req' = [req EXCEPT ![r].stage = IF cached # 0 THEN "routed" ELSE "resolving",
                        ![r].route = route,
                        ![r].before = Cardinality(Answered)]
  /\ UNCHANGED <<phase, metrics, storage>>

(* Fault: each request has a ServiceMetrics of its own.                    *)
ProvideAnew == provided' = provided + 1

(* Scope.APP: whoever asks gets the one instance, built for the first.     *)
Provide == provided' = 1

(* Fault: only the first to ask the container is answered.                 *)
ResolveFirst(r) ==
  /\ req[r].stage = "resolving"
  /\ provided = 0
  /\ Provide
  /\ cached' = provided'
  /\ Go(r, "routed")
  /\ UNCHANGED <<phase, exporter, counters, storage>>

(* container.get returns; the instance is cached, again if another request *)
(* did so meanwhile.                                                       *)
ResolveMetrics(r) ==
  /\ req[r].stage = "resolving"
  /\ Provide
  /\ cached' = provided'
  /\ Go(r, "routed")
  /\ UNCHANGED <<phase, exporter, counters, storage>>

-----------------------------------------------------------------------------
(* The routes.                                                             *)

(***************************************************************************)
(* Answers that need no storage: health, no such route, and parameters or  *)
(* a window that FastAPI, or the service once it has been resolved,        *)
(* refuses.                                                                *)
(***************************************************************************)
AnswerDirectly(r) ==
  /\ req[r].stage = "routed"
  /\ Respond(r, CASE req[r].route = "/healthz" -> 200
                  [] req[r].route = "/__unmatched__" -> 404
                  [] OTHER -> 422)
  /\ engine' \in IF req[r].route = "/analytics/queries" THEN {engine, "open"} ELSE {engine}
  /\ UNCHANGED <<phase, metrics, checkedOut>>

(* A comparison whose earlier window would begin before the first year: an *)
(* OverflowError no handler knows.                                         *)
WindowOverflows(r) ==
  /\ req[r].stage = "routed"
  /\ req[r].route = "/analytics/queries"
  /\ Go(r, "raised")
  /\ engine' = "open"
  /\ UNCHANGED <<phase, metrics, checkedOut>>

(* The route's services are resolved, the engine with them, the exporter   *)
(* for /metrics; the unit of work is entered and the first statement needs *)
(* a connection.                                                           *)
EnterUnitOfWork(r) ==
  /\ req[r].stage = "routed"
  /\ req[r].route \in StorageRoutes
  /\ engine' = "open"
  /\ IF req[r].route = "/metrics" /\ exporter = 0
       THEN Provide /\ exporter' = provided'
       ELSE UNCHANGED <<provided, exporter>>
  /\ Go(r, "connecting")
  /\ UNCHANGED <<phase, cached, counters, checkedOut>>

(* The pool tests the connection first (pool_pre_ping): it is part of the  *)
(* read, which waits for the database.                                     *)
CheckOut(r) ==
  /\ req[r].stage = "connecting"
  /\ checkedOut < PoolSize
  /\ checkedOut' = checkedOut + 1
  /\ req' = [req EXCEPT ![r].stage = "reading", ![r].holds = TRUE]
  /\ UNCHANGED <<phase, metrics, engine>>

(* The exception handlers: a StorageError becomes a 503, any other error   *)
(* goes on to the middleware.                                              *)
Handle(r, error) ==
  req' = [req EXCEPT
    ![r].holds = FALSE,
    ![r].stage = IF error = "StorageError" THEN "responded" ELSE "raised",
    ![r].status = IF error = "StorageError" THEN 503 ELSE @]

(* Fault: the wait for a connection has no limit.                          *)
ConnectFailsOnlyFree(r) ==
  /\ req[r].stage = "connecting"
  /\ checkedOut < PoolSize
  /\ \E error \in {"StorageError", "driver"} : Handle(r, error)
  /\ UNCHANGED <<phase, metrics, storage>>

(***************************************************************************)
(* The pool has had no connection for its timeout, or the database refuses *)
(* one: an SQLAlchemyError, so a StorageReadError, or the driver's own     *)
(* error.  Nothing is checked out, nothing is to be rolled back.           *)
(***************************************************************************)
ConnectFails(r) ==
  /\ req[r].stage = "connecting"
  /\ \/ Handle(r, "StorageError")
     \/ checkedOut < PoolSize /\ Handle(r, "driver")
  /\ UNCHANGED <<phase, metrics, storage>>

(* The SELECTs of the route are answered.                                  *)
ReadAnswered(r) ==
  /\ req[r].stage = "reading"
  /\ Go(r, "committing")
  /\ UNCHANGED <<phase, metrics, storage>>

(* All that has been counted, each series from its first request on.       *)
Samples == UNION {{series} \X (1..counters[series]) : series \in BagToSet(counters)}

(* What /metrics shows of pg_monitor_http_requests_total: the registry of  *)
(* the exporter's ServiceMetrics.                                          *)
Rendered == Cardinality({sample \in Samples : sample[1][1] = exporter})

(* Fault: a session that was rolled back is not closed.                    *)
CloseUnlessRaising(r) ==
  checkedOut' = IF req[r].holds /\ req[r].stage = "committing" THEN checkedOut - 1
                ELSE checkedOut

(* __aexit__'s finally: the session gives its connection back.             *)
CloseSession(r) == checkedOut' = IF req[r].holds THEN checkedOut - 1 ELSE checkedOut

(* A SELECT fails: an SQLAlchemyError, so a StorageReadError.  Or the test *)
(* of the connection does, and the database refuses another one.           *)
ReadFails(r) ==
  /\ req[r].stage = "reading"
  /\ \/ Go(r, "rolling back") /\ UNCHANGED checkedOut
     \/ CloseSession(r) /\ Handle(r, "driver")
  /\ UNCHANGED <<phase, metrics, engine>>

(***************************************************************************)
(* COMMIT is answered and the session closed; what follows has no await:   *)
(* /metrics renders the states it has loaded and the counters of now.      *)
(***************************************************************************)
Commit(r) ==
  /\ req[r].stage = "committing"
  /\ CloseSession(r)
  /\ req' = [req EXCEPT
       ![r].stage = "responded", ![r].status = 200, ![r].holds = FALSE,
       ![r].shown = IF req[r].route = "/metrics" THEN Rendered ELSE @]
  /\ UNCHANGED <<phase, metrics, engine>>

(* COMMIT fails: a StorageWriteError, though the rows were read.           *)
CommitFails(r) ==
  /\ req[r].stage = "committing"
  /\ CloseSession(r)
  /\ Handle(r, "StorageError")
  /\ UNCHANGED <<phase, metrics, engine>>

(* The rollback after a StorageReadError ends, or fails with a             *)
(* StorageError of its own.                                                *)
Rollback(r) ==
  /\ req[r].stage = "rolling back"
  /\ CloseSession(r)
  /\ Handle(r, "StorageError")
  /\ UNCHANGED <<phase, metrics, engine>>

-----------------------------------------------------------------------------
(* The middleware, on the way out.                                         *)

(* The value of a series: one that was never counted has none.             *)
Value(series) == IF BagIn(series, counters) THEN counters[series] ELSE 0

Observe(r, status) ==
  counters' = counters (+) SetToBag({<<cached, req[r].route, status>>})

(* Fault: the response is observed, and once more in the finally.          *)
ObserveTwice(r) ==
  /\ req[r].stage = "responded"
  /\ counters' = counters (+) SetToBag({<<cached, req[r].route, req[r].status>>})
                          (+) SetToBag({<<cached, req[r].route, req[r].status>>})
  /\ Go(r, "answered")
  /\ UNCHANGED <<phase, cached, provided, exporter, storage>>

(* call_next returned a response: it is observed and given the request id. *)
Complete(r) ==
  /\ req[r].stage = "responded"
  /\ Observe(r, req[r].status)
  /\ Go(r, "answered")
  /\ UNCHANGED <<phase, cached, provided, exporter, storage>>

(* call_next raised: a 500 is observed, and the error goes on to the       *)
(* server, which answers with one.                                         *)
Fail(r) ==
  /\ req[r].stage = "raised"
  /\ Observe(r, 500)
  /\ req' = [req EXCEPT ![r].stage = "answered", ![r].status = 500]
  /\ UNCHANGED <<phase, cached, provided, exporter, storage>>

-----------------------------------------------------------------------------
(* The end of the process.                                                 *)

(* The server is told to stop: no further request, those under way go on.  *)
Drain ==
  /\ phase = "serving"
  /\ phase' = "draining"
  /\ UNCHANGED <<req, metrics, storage>>

(* The lifespan ends when all are answered; the container disposes of the  *)
(* engine if it has built one.                                             *)
CloseContainer ==
  /\ phase = "draining"
  /\ \A r \in Requests : req[r].stage \notin Underway
  /\ phase' = "stopped"
  /\ engine' = IF engine = "open" THEN "disposed" ELSE engine
  /\ UNCHANGED <<req, metrics, checkedOut>>

-----------------------------------------------------------------------------
NewRequest ==
  [stage |-> "new", route |-> "/__unmatched__", status |-> 0, holds |-> FALSE,
   before |-> 0, shown |-> 0]

Init ==
  /\ phase = "serving"
  /\ req = [r \in Requests |-> NewRequest]
  /\ cached = 0 /\ provided = 0 /\ exporter = 0
  /\ counters = EmptyBag
  /\ engine = "none" /\ checkedOut = 0

Dispatch(r) == AnswerDirectly(r) \/ WindowOverflows(r) \/ EnterUnitOfWork(r)
Connect(r) == CheckOut(r) \/ ConnectFails(r)
DatabaseAnswers(r) ==
  ReadAnswered(r) \/ ReadFails(r) \/ Commit(r) \/ CommitFails(r) \/ Rollback(r)
Finish(r) == Complete(r) \/ Fail(r)

Next ==
  \/ \E r \in Requests :
       \/ \E route \in Routes : Arrive(r, route)
       \/ ResolveMetrics(r) \/ Dispatch(r) \/ Connect(r)
       \/ DatabaseAnswers(r) \/ Finish(r)
  \/ Drain
  \/ CloseContainer

Spec == Init /\ [][Next]_vars

(***************************************************************************)
(* The event loop runs what is ready, the container answers, and a wait    *)
(* for a connection ends at the latest by the pool's timeout.  That the    *)
(* database answers is not assumed: no timeout of the code covers a        *)
(* statement.                                                              *)
(***************************************************************************)
FairSpec ==
  /\ Spec
  /\ WF_vars(CloseContainer)
  /\ \A r \in Requests : /\ WF_vars(ResolveMetrics(r))
                         /\ WF_vars(Dispatch(r))
                         /\ WF_vars(Connect(r))
                         /\ WF_vars(Finish(r))

-----------------------------------------------------------------------------
(***************************************************************************)
(* Requests, counters and the engine hold values of their kind.            *)
(***************************************************************************)
TypeOK ==
  /\ phase \in {"serving", "draining", "stopped"}
  /\ \A r \in Requests :
       /\ req[r].stage \in {"new", "answered"} \cup Underway
       /\ req[r].route \in Routes
       /\ req[r].status \in {0, 200, 404, 422, 500, 503}
  /\ {cached, provided, exporter} \subseteq {0, 1}
  /\ IsABag(counters)
  /\ engine \in {"none", "open", "disposed"}
  /\ checkedOut \in 0..PoolSize

(***************************************************************************)
(* Every answer is counted once, under the route and the status it was     *)
(* given, whichever way the request took and whoever resolved the metrics  *)
(* first; and nothing else is counted.                                     *)
(***************************************************************************)
CountedOnce ==
  \A route \in Routes, status \in {200, 404, 422, 500, 503} :
    Value(<<cached, route, status>>) =
      Cardinality({r \in Answered : Label(r) = <<route, status>>})

(***************************************************************************)
(* A scrape shows all requests answered before it came, and never more     *)
(* than have been answered: the exporter renders the registry the          *)
(* middleware counts in, and a scrape does not show itself.                *)
(***************************************************************************)
ScrapeShowsAnswered ==
  \A r \in Requests :
    (req[r].route = "/metrics" /\ req[r].status = 200) =>
      /\ req[r].shown >= req[r].before
      /\ req[r].shown <= Cardinality(Answered \ {r})

(***************************************************************************)
(* The connections in use are those of the requests between their first    *)
(* statement and the close of their session, whatever failed on the way,   *)
(* and none is used once the engine has been disposed of.                  *)
(***************************************************************************)
ConnectionsReturned ==
  /\ checkedOut = Cardinality({r \in Requests : req[r].stage \in Underway /\ req[r].holds})
  /\ engine = "disposed" =>
       \A r \in Requests : req[r].stage \notin OnDatabase \cup {"connecting"}

(***************************************************************************)
(* No request waits for another forever: not for the instance another has  *)
(* asked the container for, and not for a connection held by one that the  *)
(* database never answers.                                                 *)
(***************************************************************************)
NoneWaitsForAnother ==
  \A r \in Requests :
    req[r].stage \in Underway \ OnDatabase ~> req[r].stage \in OnDatabase \cup {"answered"}

(* When the database leaves no request waiting, a stop ends the process.   *)
DrainEnds ==
  (\A r \in Requests : []<>(req[r].stage \notin OnDatabase))
    => (phase = "draining" ~> phase = "stopped")

=============================================================================
