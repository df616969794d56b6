-------------------------- MODULE CollectorWorker --------------------------
(***************************************************************************)
(* One collector process: run_worker and the startup retry                 *)
(* (collector/worker.py), the scheduler with its two jobs                  *)
(* (collector/scheduler.py) and the connections the container owns         *)
(* (providers/collector.py).                                               *)
(*                                                                         *)
(* The process is one event loop: an action is what the loop runs between  *)
(* two awaits, so jobs, the main task and the scheduler's callbacks        *)
(* interleave only there.  What a job reads and writes is the subject of   *)
(* RuntimeStore and QueryAnalytics; here it has stages only.               *)
(***************************************************************************)
EXTENDS Integers, Sequences

CONSTANTS
  Jobs,           \* collector_runtime and collector_queries
  QueryJobs,      \* those that need pg_stat_statements: collector_queries
  MaxAttempts,    \* collector_startup_retry_attempts
  BaseDelay,      \* collector_startup_retry_base_delay_seconds
  MaxDelay        \* collector_startup_retry_max_delay_seconds

ASSUME RetryAssumption ==
  /\ MaxAttempts \in Nat \ {0}
  /\ BaseDelay \in Nat \ {0}
  /\ MaxDelay \in Nat \ {0}

VARIABLES
  phase,      \* where run_worker is
  outcome,    \* why it ended
  attempt,    \* the startup attempt
  delay,      \* the delay before the next attempt
  waits,      \* the delays slept so far
  pools,      \* asyncpg pools open on the monitored cluster
  engines,    \* storage engines not disposed of
  scheduler,  \* APScheduler's state
  jobs,       \* where each job's coroutine is
  stop        \* the stop event

startup == <<attempt, delay, waits>>
resources == <<pools, engines>>
vars == <<phase, outcome, startup, resources, scheduler, jobs, stop>>

Starting == {"connecting", "pinging", "checking", "sleeping"}
Closing == {"disposing", "closing", "finishing"}
Phases == {"new", "running", "ended"} \cup Starting \cup Closing

Smaller(a, b) == IF a < b THEN a ELSE b
Larger(a, b) == IF a < b THEN b ELSE a

(* The stages of a collection: each waits for the pool and for an answer.  *)
Collecting == {"checking extension", "loading"}

(* The stages at which a job may hold a connection of the pool.            *)
UsingPool == Collecting \cup {"releasing"}

Stages ==
  {"idle", "checking extension", "loading", "writing", "releasing", "rolling back"}

NoJobRuns == \A j \in Jobs : jobs[j] = "idle"

End(why) ==
  /\ phase' = "ended"
  /\ outcome' = why

-----------------------------------------------------------------------------
(* run_worker begins; a disabled collector returns at once.                *)
Launch ==
  /\ phase = "new"
  /\ \/ End("disabled")
     \/ phase' = "connecting" /\ UNCHANGED outcome
  /\ UNCHANGED <<startup, resources, scheduler, jobs, stop>>

(* SIGTERM or SIGINT: the handler sets the stop event, whatever the phase. *)
Signal ==
  /\ phase \notin {"new", "ended"}
  /\ stop' = TRUE
  /\ UNCHANGED <<phase, outcome, startup, resources, scheduler, jobs>>

-----------------------------------------------------------------------------
(* The startup, attempt by attempt.                                        *)

(***************************************************************************)
(* container.get builds the pool, which connects to the monitored cluster, *)
(* and the engine, which does not connect yet.                             *)
(***************************************************************************)
Connect ==
  /\ phase = "connecting"
  /\ pools' = pools + 1
  /\ engines' = engines + 1
  /\ phase' = "pinging"
  /\ UNCHANGED <<outcome, startup, scheduler, jobs, stop>>

(* The first half of the preflight: ping of the monitored cluster.         *)
Ping ==
  /\ phase = "pinging"
  /\ phase' = "checking"
  /\ UNCHANGED <<outcome, startup, resources, scheduler, jobs, stop>>

(***************************************************************************)
(* The second half, list_runtime_current on the storage, answers; the two  *)
(* jobs are added, due at once, and the scheduler starts.                  *)
(***************************************************************************)
StartScheduler ==
  /\ phase = "checking"
  /\ scheduler' = "running"
  /\ phase' = "running"
  /\ UNCHANGED <<outcome, startup, resources, jobs, stop>>

(* Fault: a failed attempt leaves its container to the next.               *)
ConnectionFailsOpen ==
  /\ phase \in {"connecting", "pinging", "checking"}
  /\ IF attempt >= MaxAttempts
       THEN End("unreachable") /\ UNCHANGED waits
       ELSE /\ phase' = "sleeping"
            /\ waits' = Append(waits, delay)
            /\ UNCHANGED outcome
  /\ UNCHANGED <<attempt, delay, resources, scheduler, jobs, stop>>

(***************************************************************************)
(* A CollectorConnectionError: the pool could not be built, the ping lost  *)
(* its connection, or the storage read failed.  The container is closed,   *)
(* then the attempt was the last one, or a delay follows.                  *)
(***************************************************************************)
ConnectionFails ==
  /\ phase \in {"connecting", "pinging", "checking"}
  /\ pools' = 0
  /\ engines' = 0
  /\ IF attempt >= MaxAttempts
       THEN End("unreachable") /\ UNCHANGED waits
       ELSE /\ phase' = "sleeping"
            /\ waits' = Append(waits, delay)
            /\ UNCHANGED outcome
  /\ UNCHANGED <<attempt, delay, scheduler, jobs, stop>>

(* Fault: a stop request during the startup is waited out.                 *)
RetryUnlessStopped ==
  /\ phase = "sleeping"
  /\ ~stop
  /\ delay' = Smaller(delay * 2, MaxDelay)
  /\ attempt' = attempt + 1
  /\ phase' = "connecting"
  /\ UNCHANGED <<outcome, waits, resources, scheduler, jobs, stop>>

(* Fault: the delay doubles without a limit.                               *)
RetryUncapped ==
  /\ phase = "sleeping"
  /\ delay' = delay * 2
  /\ attempt' = attempt + 1
  /\ phase' = "connecting"
  /\ UNCHANGED <<outcome, waits, resources, scheduler, jobs, stop>>

(* asyncio.sleep returns; the stop event is not looked at.                 *)
Retry ==
  /\ phase = "sleeping"
  /\ delay' = Smaller(delay * 2, MaxDelay)
  /\ attempt' = attempt + 1
  /\ phase' = "connecting"
  /\ UNCHANGED <<outcome, waits, resources, scheduler, jobs, stop>>

(***************************************************************************)
(* Any other exception of the startup (a query error from the ping, wrong  *)
(* credentials, an OSError from the storage's first connection) is neither *)
(* retried nor followed by a close: run_worker never got the container.    *)
(***************************************************************************)
StartupBreaks ==
  /\ phase \in {"connecting", "pinging", "checking"}
  /\ End("broken")
  /\ UNCHANGED <<startup, resources, scheduler, jobs, stop>>

-----------------------------------------------------------------------------
(* The jobs.                                                               *)

(* A job is due and no instance of it runs (max_instances=1, coalesce).    *)
Fire(j) ==
  /\ scheduler = "running"
  /\ jobs[j] = "idle"
  /\ jobs' = [jobs EXCEPT ![j] =
               IF j \in QueryJobs THEN "checking extension" ELSE "loading"]
  /\ UNCHANGED <<phase, outcome, startup, resources, scheduler, stop>>

(* Is pg_stat_statements there?  If not, a CollectorPrerequisiteError.     *)
CheckExtension(j) ==
  /\ jobs[j] = "checking extension"
  /\ \E stage \in {"loading", "idle"} : jobs' = [jobs EXCEPT ![j] = stage]
  /\ UNCHANGED <<phase, outcome, startup, resources, scheduler, stop>>

(***************************************************************************)
(* The rows are read (those of the runtime job in one transaction of one   *)
(* connection) and are a snapshot: the unit of work is entered.            *)
(***************************************************************************)
Load(j) ==
  /\ jobs[j] = "loading"
  /\ jobs' = [jobs EXCEPT ![j] = "writing"]
  /\ UNCHANGED <<phase, outcome, startup, resources, scheduler, stop>>

(* Fault: an error that reaches the scheduler removes the job.             *)
CollectionKillsJob(j) ==
  /\ jobs[j] \in Collecting
  /\ jobs' = [jobs EXCEPT ![j] = "removed"]
  /\ UNCHANGED <<phase, outcome, startup, resources, scheduler, stop>>

(***************************************************************************)
(* A connection or a query fails, or a row has no value where one is       *)
(* required: whatever it is becomes a CollectorError, which the job logs.  *)
(* It returns, and stays scheduled.                                        *)
(***************************************************************************)
CollectionFails(j) ==
  /\ jobs[j] \in Collecting
  /\ jobs' = [jobs EXCEPT ![j] = "idle"]
  /\ UNCHANGED <<phase, outcome, startup, resources, scheduler, stop>>

(* Fault: the timeout covers the load only.                                *)
LoadTimesOut(j) ==
  /\ jobs[j] = "loading"
  /\ jobs' = [jobs EXCEPT ![j] = "releasing"]
  /\ UNCHANGED <<phase, outcome, startup, resources, scheduler, stop>>

(* wait_for cancels the collection at its timeout and waits for it to end. *)
TimesOut(j) ==
  /\ jobs[j] \in Collecting
  /\ jobs' = [jobs EXCEPT ![j] = "releasing"]
  /\ UNCHANGED <<phase, outcome, startup, resources, scheduler, stop>>

(* The write ends, well, with a StorageError the job logs or with an error *)
(* the scheduler logs; no timeout covers it.                               *)
WriteEnds(j) ==
  /\ jobs[j] = "writing"
  /\ jobs' = [jobs EXCEPT ![j] = "idle"]
  /\ UNCHANGED <<phase, outcome, startup, resources, scheduler, stop>>

(* A cancelled job has given its connection back, or rolled back.          *)
Unwound(j) ==
  /\ jobs[j] \in {"releasing", "rolling back"}
  /\ jobs' = [jobs EXCEPT ![j] = "idle"]
  /\ UNCHANGED <<phase, outcome, startup, resources, scheduler, stop>>

-----------------------------------------------------------------------------
(* The shutdown.                                                           *)

(* Fault: the scheduler is not told.                                       *)
ShutdownUntold ==
  /\ phase = "running"
  /\ stop
  /\ phase' = "disposing"
  /\ UNCHANGED <<outcome, startup, resources, scheduler, jobs, stop>>

(***************************************************************************)
(* The main task wakes up: it asks the scheduler to shut down, which the   *)
(* scheduler does in a callback of its own at the loop's next turn, and    *)
(* removes the jobs, so that none fires any more.                          *)
(***************************************************************************)
Shutdown ==
  /\ phase = "running"
  /\ stop
  /\ scheduler' = "stopping"
  /\ phase' = "disposing"
  /\ UNCHANGED <<outcome, startup, resources, jobs, stop>>

(* The callback: wait=True cannot wait on the loop, running jobs are       *)
(* cancelled.                                                              *)
StopScheduler ==
  /\ scheduler = "stopping"
  /\ scheduler' = "stopped"
  /\ jobs' = [j \in Jobs |-> IF jobs[j] \in Collecting THEN "releasing"
                            ELSE IF jobs[j] = "writing" THEN "rolling back"
                            ELSE jobs[j]]
  /\ UNCHANGED <<phase, outcome, startup, resources, stop>>

(* The container closes what it built, last built first: the engine.       *)
DisposeEngine ==
  /\ phase = "disposing"
  /\ engines' = engines - 1
  /\ phase' = "closing"
  /\ UNCHANGED <<outcome, startup, pools, scheduler, jobs, stop>>

(* Fault: the pool is closed under the jobs that use it.                   *)
TerminatePool ==
  /\ phase = "closing"
  /\ pools' = pools - 1
  /\ phase' = "finishing"
  /\ UNCHANGED <<outcome, startup, engines, scheduler, jobs, stop>>

(* Then the pool, which waits for its connections to be given back.        *)
ClosePool ==
  /\ phase = "closing"
  /\ \A j \in Jobs : jobs[j] \notin UsingPool
  /\ pools' = pools - 1
  /\ phase' = "finishing"
  /\ UNCHANGED <<outcome, startup, engines, scheduler, jobs, stop>>

(* Fault: the process leaves as soon as its main task is done.             *)
FinishAtOnce ==
  /\ phase = "finishing"
  /\ End("stopped")
  /\ UNCHANGED <<startup, resources, scheduler, jobs, stop>>

(* asyncio.run waits for the tasks that are left.                          *)
Finish ==
  /\ phase = "finishing"
  /\ scheduler = "stopped"
  /\ NoJobRuns
  /\ End("stopped")
  /\ UNCHANGED <<startup, resources, scheduler, jobs, stop>>

-----------------------------------------------------------------------------
Init ==
  /\ phase = "new"
  /\ outcome = "none"
  /\ attempt = 1
  /\ delay = BaseDelay
  /\ waits = <<>>
  /\ pools = 0
  /\ engines = 0
  /\ scheduler = "new"
  /\ jobs = [j \in Jobs |-> "idle"]
  /\ stop = FALSE

(* What the startup does next, however its calls are answered.             *)
StartupStep ==
  Launch \/ Connect \/ Ping \/ StartScheduler \/ ConnectionFails \/ Retry \/ StartupBreaks

ShutdownStep == Shutdown \/ DisposeEngine \/ ClosePool \/ Finish

CollectionStep(j) == CheckExtension(j) \/ Load(j) \/ CollectionFails(j) \/ TimesOut(j)

JobStep(j) == Fire(j) \/ CollectionStep(j) \/ WriteEnds(j) \/ Unwound(j)

Next ==
  \/ StartupStep
  \/ Signal
  \/ ShutdownStep
  \/ StopScheduler
  \/ \E j \in Jobs : JobStep(j)

Spec == Init /\ [][Next]_vars

(***************************************************************************)
(* The connects and the ping of the startup end by the driver's timeouts,  *)
(* a collection by that of its job, a cancelled job unwinds, intervals     *)
(* elapse, and the event loop runs what is ready.  Nothing says that the   *)
(* storage answers: the preflight's read and the writes have no timeout.   *)
(***************************************************************************)
Fairness ==
  /\ WF_vars(phase # "checking" /\ StartupStep)
  /\ WF_vars(ShutdownStep)
  /\ WF_vars(StopScheduler)
  /\ \A j \in Jobs : WF_vars(Fire(j)) /\ WF_vars(TimesOut(j)) /\ WF_vars(Unwound(j))

FairSpec == Spec /\ Fairness

-----------------------------------------------------------------------------
(***************************************************************************)
(* Phases, counts and job stages stay in their ranges.                     *)
(***************************************************************************)
TypeOK ==
  /\ phase \in Phases
  /\ outcome \in {"none", "disabled", "unreachable", "broken", "stopped"}
  /\ attempt \in 1..MaxAttempts
  /\ delay \in Nat /\ waits \in Seq(Nat)
  /\ pools \in 0..1 /\ engines \in 0..1
  /\ scheduler \in {"new", "running", "stopping", "stopped"}
  /\ jobs \in [Jobs -> Stages]
  /\ stop \in BOOLEAN

(***************************************************************************)
(* An attempt starts with nothing open: the container of the attempt       *)
(* before it was closed, even when it failed half way through the          *)
(* preflight.                                                              *)
(***************************************************************************)
AttemptsStartClean ==
  phase \in {"sleeping", "connecting"} => pools = 0 /\ engines = 0

(***************************************************************************)
(* A process that ends, by a signal at any moment or because its           *)
(* dependencies stay unreachable, leaves no connection open and no job     *)
(* between its read and its commit.                                        *)
(***************************************************************************)
EndsClean ==
  /\ (phase = "ended" /\ outcome # "broken") => pools = 0 /\ engines = 0
  /\ phase = "ended" => NoJobRuns

(***************************************************************************)
(* The n-th wait is the base delay doubled n - 1 times, capped from the    *)
(* second wait on (the first is slept as configured, even beyond the cap); *)
(* an unreachable dependency is given up after all attempts, and no wait   *)
(* follows the last.                                                       *)
(***************************************************************************)
Backoff ==
  /\ \A n \in DOMAIN waits :
       waits[n] = IF n = 1 THEN BaseDelay ELSE Smaller(BaseDelay * 2^(n - 1), MaxDelay)
  /\ outcome = "unreachable" => Len(waits) = MaxAttempts - 1

(***************************************************************************)
(* No job collects from a pool that has been closed: the shutdown cancels  *)
(* the jobs and the pool waits for their connections.                      *)
(***************************************************************************)
NoJobWithoutPool == \A j \in Jobs : jobs[j] \in UsingPool => pools = 1

(* The storage leaves no preflight waiting forever.                        *)
PreflightAnswered == []<>(phase # "checking")

(* If so the startup ends, with the scheduler running or the process over. *)
StartupSettles == PreflightAnswered => (phase \in Starting ~> phase \notin Starting)

(***************************************************************************)
(* A stop request ends the process, whatever phase it arrives in and       *)
(* whatever the jobs are doing, even if it is a write that is never        *)
(* answered; only the preflight must be.                                   *)
(***************************************************************************)
StopEnds == PreflightAnswered => (stop ~> phase = "ended")

(***************************************************************************)
(* Until a stop request each job that is not in a write collects again: no *)
(* failure or timeout takes it off the schedule, no collection lasts       *)
(* forever, and a write the database never answers blocks no other job.    *)
(***************************************************************************)
JobsGoOn ==
  \A j \in Jobs :
    /\ (phase = "running" /\ jobs[j] \notin Collecting \cup {"writing"})
         ~> (stop \/ jobs[j] \in Collecting)
    /\ jobs[j] \in Collecting ~> jobs[j] \notin Collecting

=============================================================================
