----------------------- MODULE CollectorWorkerProofs -----------------------
(***************************************************************************)
(* Proofs about CollectorWorker for any jobs, any number of attempts and   *)
(* any delays: what the process has open in each of its phases, and the    *)
(* delays of its startup.                                                  *)
(***************************************************************************)
EXTENDS CollectorWorker, FiniteSetTheorems, FunctionTheorems, SequenceTheorems, TLAPS

-----------------------------------------------------------------------------
(* The inductive invariant.                                                *)

(* What is open in each phase.  A startup that breaks is the one exit that *)
(* leaves its container open.                                              *)
Opened ==
  /\ phase \in {"new", "connecting", "sleeping", "finishing"} => pools = 0 /\ engines = 0
  /\ phase \in {"pinging", "checking", "running", "disposing"} => pools = 1 /\ engines = 1
  /\ phase = "closing" => pools = 1 /\ engines = 0
  /\ (phase = "ended" /\ outcome # "broken") => pools = 0 /\ engines = 0

Outcomes ==
  /\ outcome = "none" <=> phase # "ended"
  /\ outcome = "unreachable" => attempt = MaxAttempts

(* APScheduler's state in each phase.                                      *)
SchedulerInStep ==
  /\ phase \in {"new"} \cup Starting => scheduler = "new"
  /\ phase = "running" => scheduler = "running"
  /\ phase \in Closing => scheduler \in {"stopping", "stopped"}
  /\ phase = "ended" => scheduler \in {"new", "stopped"}

(* Jobs run only while the scheduler does; once it has stopped they only   *)
(* unwind, and a closed pool is not used.                                  *)
JobsInStep ==
  /\ scheduler = "new" => NoJobRuns
  /\ phase = "finishing" => \A j \in Jobs : jobs[j] \notin UsingPool
  /\ phase = "ended" => NoJobRuns

(* The delay of each attempt, and how many have been slept.                *)
DelayOf(n) ==
  IF n = 1 THEN BaseDelay ELSE Smaller(BaseDelay * 2^(n - 1), MaxDelay)

Waited ==
  /\ delay = DelayOf(attempt)
  /\ Len(waits) = IF phase = "sleeping" THEN attempt ELSE attempt - 1
  /\ phase = "sleeping" => attempt < MaxAttempts
  /\ \A n \in DOMAIN waits : waits[n] = DelayOf(n)

Inv ==
  /\ TypeOK
  /\ Opened
  /\ Outcomes
  /\ SchedulerInStep
  /\ JobsInStep
  /\ Waited

-----------------------------------------------------------------------------
(* Powers of two, which the prover does not know: 2^n is the number of     *)
(* subsets of a set of n elements, and a further element doubles them.     *)

LEMMA SubsetsDouble ==
  ASSUME NEW S, IsFiniteSet(S), NEW x, x \notin S
  PROVE  Cardinality(SUBSET (S \cup {x})) = 2 * Cardinality(SUBSET S)
<1> DEFINE without == SUBSET S
           with == {T \cup {x} : T \in SUBSET S}
           add == [T \in without |-> T \cup {x}]
<1>1. IsFiniteSet(without) /\ Cardinality(without) \in Nat
  BY FS_SUBSET, FS_CardinalityType
<1>2. add \in Bijection(without, with)
  <2>1. add \in [without -> with]
    OBVIOUS
  <2>2. ASSUME NEW T \in without, NEW U \in without, add[T] = add[U] PROVE T = U
    BY <2>2
  <2>3. \A V \in with : \E T \in without : add[T] = V
    OBVIOUS
  <2> QED BY <2>1, <2>2, <2>3, Fun_IsBij
<1>3. IsFiniteSet(with) /\ Cardinality(with) = Cardinality(without)
  BY <1>1, <1>2, FS_Bijection DEF ExistsBijection
<1>4. SUBSET (S \cup {x}) = without \cup with
  <2>1. ASSUME NEW T \in SUBSET (S \cup {x}) PROVE T \in without \cup with
    <3>1. CASE x \in T
      <4>1. T \ {x} \in SUBSET S /\ T = (T \ {x}) \cup {x}
        BY <3>1
      <4> QED BY <4>1
    <3>2. CASE x \notin T
      BY <3>2
    <3> QED BY <3>1, <3>2
  <2> QED BY <2>1
<1>5. without \cap with = {}
  OBVIOUS
<1>6. Cardinality(without \cap with) = 0
  BY <1>5, FS_EmptySet
<1> HIDE DEF without, with
<1>7. Cardinality(without \cup with) = Cardinality(without) + Cardinality(with) - 0
  BY <1>1, <1>3, <1>6, FS_Union
<1>8. Cardinality(without \cup with) = 2 * Cardinality(without)
  BY <1>1, <1>3, <1>7
<1> QED BY <1>4, <1>8, Zenon DEF without

LEMMA PowersOfTwo ==
  ASSUME NEW n \in Nat
  PROVE  2^n \in Nat /\ 2^(n + 1) = 2 * 2^n
<1>1. /\ IsFiniteSet(1..n) /\ Cardinality(1..n) = n
      /\ IsFiniteSet(1..n + 1) /\ Cardinality(1..n + 1) = n + 1
  BY FS_Interval
<1>2. 1..n + 1 = (1..n) \cup {n + 1} /\ n + 1 \notin 1..n
  OBVIOUS
<1>3. Cardinality(SUBSET (1..n + 1)) = 2 * Cardinality(SUBSET (1..n))
  BY <1>1, <1>2, SubsetsDouble
<1>4. /\ Cardinality(SUBSET (1..n)) = 2^n
      /\ Cardinality(SUBSET (1..n + 1)) = 2^(n + 1)
  BY <1>1, FS_SUBSET
<1>5. Cardinality(SUBSET (1..n)) \in Nat
  BY <1>1, FS_SUBSET, FS_CardinalityType
<1> QED BY <1>3, <1>4, <1>5

(* A delay is that of the attempt before, doubled and capped.              *)
LEMMA DelayDoubles ==
  ASSUME NEW n \in Nat \ {0}
  PROVE  DelayOf(n) \in Nat /\ Smaller(DelayOf(n) * 2, MaxDelay) = DelayOf(n + 1)
<1>1. PICK m \in Nat : n = m + 1
  BY n - 1 \in Nat, n = (n - 1) + 1
<1> DEFINE p == 2^m
<1>2. /\ 2^(n - 1) = p /\ p \in Nat
      /\ 2^((n + 1) - 1) = 2 * p
  <2>1. n - 1 = m /\ (n + 1) - 1 = m + 1
    BY <1>1
  <2> QED BY <2>1, PowersOfTwo
<1>3. n = 1 => p = 1
  <2>1. n = 1 => m = 0
    BY <1>1
  <2>2. 2^0 = 1
    OBVIOUS
  <2> QED BY <2>1, <2>2
<1> HIDE DEF p
<1>4. BaseDelay * (2 * p) = 2 * (BaseDelay * p) /\ BaseDelay * p \in Nat
  BY <1>2, RetryAssumption
<1>5. CASE n = 1
  <2>1. BaseDelay * p = BaseDelay
    BY <1>3, <1>5, RetryAssumption
  <2> QED BY <1>2, <1>4, <1>5, <2>1, RetryAssumption DEF DelayOf, Smaller
<1>6. CASE n # 1
  BY <1>2, <1>4, <1>6, RetryAssumption DEF DelayOf, Smaller
<1> QED BY <1>5, <1>6

-----------------------------------------------------------------------------
(* The invariant holds.                                                    *)

LEMMA InitInv == Init => Inv
<1> SUFFICES ASSUME Init PROVE Inv
  OBVIOUS
<1>1. TypeOK
  <2>1. /\ phase \in Phases
        /\ attempt \in 1..MaxAttempts /\ delay \in Nat /\ waits \in Seq(Nat)
    BY RetryAssumption, EmptySeq DEF Init, Phases
  <2>2. jobs \in [Jobs -> Stages] /\ stop \in BOOLEAN
    BY DEF Init, Stages
  <2>3. pools \in 0..1 /\ engines \in 0..1
    BY DEF Init
  <2> QED BY <2>1, <2>2, <2>3, Zenon DEF Init, TypeOK
<1>2. Opened /\ Outcomes /\ SchedulerInStep /\ JobsInStep
  BY DEF Init, Opened, Outcomes, SchedulerInStep, JobsInStep, Starting, Closing, NoJobRuns
<1>3. Waited
  BY DEF Init, Waited, DelayOf
<1> QED BY <1>1, <1>2, <1>3 DEF Inv

(* The startup and the stop request run no job and slept delays stay.      *)
LEMMA StartupInv ==
  ASSUME Inv, StartupStep \/ Signal
  PROVE  Inv'
<1> USE RetryAssumption DEF startup, resources
<1>1. CASE Launch \/ Connect \/ Ping \/ StartScheduler \/ StartupBreaks \/ Signal
  <2>1. TypeOK'
    <3>1. /\ phase' \in Phases
          /\ outcome' \in {"none", "disabled", "unreachable", "broken", "stopped"}
          /\ scheduler' \in {"new", "running", "stopping", "stopped"}
          /\ UNCHANGED <<startup, jobs>>
      BY <1>1 DEF Inv, TypeOK, Launch, Connect, Ping, StartScheduler, StartupBreaks,
                  Signal, End, Phases, Starting
    <3>2. pools' \in 0..1 /\ engines' \in 0..1
      <4>1. pools \in 0..1 /\ engines \in 0..1
        BY DEF Inv, TypeOK
      <4> QED BY <1>1, <4>1 DEF Inv, Opened, Launch, Connect, Ping, StartScheduler,
                                StartupBreaks, Signal
    <3>3. stop' \in BOOLEAN
      BY <1>1, Zenon DEF Inv, TypeOK, Launch, Connect, Ping, StartScheduler,
                         StartupBreaks, Signal
    <3> QED BY <3>1, <3>2, <3>3, Zenon DEF Inv, TypeOK, startup
  <2>2. Opened' /\ Outcomes' /\ SchedulerInStep'
    BY <1>1 DEF Inv, TypeOK, Opened, Outcomes, SchedulerInStep, Launch, Connect, Ping,
                StartScheduler, StartupBreaks, Signal, End, Phases, Starting, Closing
  <2>3. JobsInStep'
    BY <1>1 DEF Inv, JobsInStep, SchedulerInStep, NoJobRuns, Launch, Connect, Ping,
                StartScheduler, StartupBreaks, Signal, End, Starting, Closing, UsingPool
  <2>4. Waited'
    BY <1>1 DEF Inv, Waited, DelayOf, Launch, Connect, Ping, StartScheduler, StartupBreaks,
                Signal, End
  <2> QED BY <2>1, <2>2, <2>3, <2>4 DEF Inv
<1>2. CASE ConnectionFails
  <2>1. /\ waits' \in Seq(Nat)
        /\ Len(waits') = IF phase' = "sleeping" THEN attempt ELSE attempt - 1
        /\ \A n \in DOMAIN waits' : waits'[n] = DelayOf(n)
    <3>1. waits \in Seq(Nat) /\ delay \in Nat /\ Len(waits) = attempt - 1
      BY <1>2 DEF ConnectionFails, Inv, TypeOK, Waited
    <3>2. CASE attempt >= MaxAttempts
      BY <1>2, <3>1, <3>2 DEF ConnectionFails, End, Inv, Waited
    <3>3. CASE ~(attempt >= MaxAttempts)
      <4>1. waits' = Append(waits, delay) /\ phase' = "sleeping"
        BY <1>2, <3>3 DEF ConnectionFails
      <4>2. /\ waits' \in Seq(Nat)
            /\ Len(waits') = Len(waits) + 1
            /\ \A n \in 1..Len(waits) : waits'[n] = waits[n]
            /\ waits'[Len(waits) + 1] = delay
        BY <3>1, <4>1, AppendProperties
      <4>3. delay = DelayOf(attempt) /\ attempt \in Nat
        BY DEF Inv, TypeOK, Waited
      <4>4. DOMAIN waits = 1..Len(waits) /\ DOMAIN waits' = 1..Len(waits')
        BY <3>1, <4>2, LenProperties
      <4>5. \A n \in DOMAIN waits : waits[n] = DelayOf(n)
        BY DEF Inv, Waited
      <4>6. ASSUME NEW n \in DOMAIN waits' PROVE waits'[n] = DelayOf(n)
        <5>1. CASE n = attempt
          BY <3>1, <4>2, <4>3, <5>1
        <5>2. CASE n # attempt
          BY <3>1, <4>2, <4>3, <4>4, <4>5, <5>2
        <5> QED BY <5>1, <5>2
      <4> QED BY <3>1, <4>1, <4>2, <4>3, <4>6
    <3> QED BY <3>2, <3>3
  <2>2. TypeOK'
    BY <1>2, <2>1 DEF ConnectionFails, End, Inv, TypeOK, Phases, Starting, Closing
  <2>3. Opened' /\ Outcomes' /\ SchedulerInStep'
    BY <1>2
    DEF ConnectionFails, End, Inv, TypeOK, Opened, Outcomes, SchedulerInStep, Starting, Closing
  <2>4. JobsInStep'
    BY <1>2 DEF ConnectionFails, End, Inv, JobsInStep, SchedulerInStep, NoJobRuns, Starting
  <2>5. Waited'
    BY <1>2, <2>1 DEF ConnectionFails, End, Inv, TypeOK, Waited
  <2> QED BY <2>2, <2>3, <2>4, <2>5 DEF Inv
<1>3. CASE Retry
  <2>1. delay' = DelayOf(attempt + 1) /\ delay' \in Nat /\ attempt + 1 \in 1..MaxAttempts
    <3>1. attempt \in Nat \ {0} /\ attempt + 1 \in Nat \ {0} /\ attempt < MaxAttempts
      BY <1>3 DEF Retry, Inv, TypeOK, Waited
    <3> QED BY <1>3, <3>1, DelayDoubles DEF Retry, Inv, Waited
  <2>2. TypeOK'
    BY <1>3, <2>1 DEF Retry, Inv, TypeOK, Phases, Starting
  <2>3. Opened' /\ Outcomes' /\ SchedulerInStep'
    BY <1>3 DEF Retry, Inv, Opened, Outcomes, SchedulerInStep, Starting, Closing
  <2>4. JobsInStep'
    BY <1>3 DEF Retry, Inv, JobsInStep, NoJobRuns
  <2>5. Waited'
    BY <1>3, <2>1 DEF Retry, Inv, TypeOK, Waited
  <2> QED BY <2>2, <2>3, <2>4, <2>5 DEF Inv
<1> QED BY <1>1, <1>2, <1>3 DEF StartupStep

LEMMA ShutdownInv ==
  ASSUME Inv, ShutdownStep \/ StopScheduler
  PROVE  Inv'
<1> USE RetryAssumption DEF startup, resources, Inv
<1>1. TypeOK'
  <2>1. /\ phase' \in Phases
        /\ outcome' \in {"none", "disabled", "unreachable", "broken", "stopped"}
        /\ scheduler' \in {"new", "running", "stopping", "stopped"}
        /\ UNCHANGED <<startup, stop>>
    BY DEF ShutdownStep, Shutdown, StopScheduler, DisposeEngine, ClosePool, Finish, End,
           TypeOK, Phases, Closing
  <2>2. jobs' \in [Jobs -> Stages]
    BY DEF ShutdownStep, Shutdown, StopScheduler, DisposeEngine, ClosePool, Finish,
           TypeOK, Stages
  <2>3. pools' \in 0..1 /\ engines' \in 0..1
    <3>1. pools \in 0..1 /\ engines \in 0..1
      BY DEF TypeOK
    <3>2. CASE DisposeEngine \/ ClosePool
      BY <3>1, <3>2 DEF DisposeEngine, ClosePool, Opened
    <3>3. CASE Shutdown \/ Finish \/ StopScheduler
      BY <3>1, <3>3 DEF Shutdown, Finish, StopScheduler
    <3> QED BY <3>2, <3>3 DEF ShutdownStep
  <2> QED BY <2>1, <2>2, <2>3, Zenon DEF TypeOK, startup
<1>2. Opened' /\ Outcomes' /\ SchedulerInStep'
  <2>1. CASE ShutdownStep
    BY <2>1 DEF ShutdownStep, Shutdown, DisposeEngine, ClosePool, Finish, End,
                Opened, Outcomes, SchedulerInStep, Starting, Closing
  <2>2. CASE StopScheduler
    BY <2>2 DEF StopScheduler, Opened, Outcomes, SchedulerInStep, Starting, Closing
  <2> QED BY <2>1, <2>2
<1>3. JobsInStep'
  <2>1. CASE ShutdownStep
    BY <2>1 DEF ShutdownStep, Shutdown, DisposeEngine, ClosePool, Finish, End, JobsInStep,
                SchedulerInStep, NoJobRuns, Starting, Closing
  <2>2. CASE StopScheduler
    BY <2>2 DEF StopScheduler, JobsInStep, SchedulerInStep, NoJobRuns, Starting, Closing,
                UsingPool, Collecting
  <2> QED BY <2>1, <2>2
<1>4. Waited'
  BY DEF ShutdownStep, Shutdown, StopScheduler, DisposeEngine, ClosePool, Finish, End, Waited
<1> QED BY <1>1, <1>2, <1>3, <1>4

(* A job runs only in a phase that has a scheduler, and only Fire starts   *)
(* one.                                                                    *)
LEMMA JobInv ==
  ASSUME Inv, NEW j \in Jobs, JobStep(j)
  PROVE  Inv'
<1> USE RetryAssumption DEF startup, resources, Inv
<1>1. /\ UNCHANGED <<phase, outcome, startup, resources, scheduler, stop>>
      /\ \E stage \in Stages :
           jobs' = [jobs EXCEPT ![j] = stage]
      /\ \/ scheduler = "running" /\ jobs[j] = "idle"
         \/ jobs[j] # "idle" /\ (jobs'[j] \in UsingPool => jobs[j] \in UsingPool)
  BY DEF JobStep, Fire, CollectionStep, CheckExtension, Load, CollectionFails, TimesOut,
         WriteEnds, Unwound, TypeOK, Stages, UsingPool, Collecting
<1>2. TypeOK'
  BY <1>1 DEF TypeOK
<1>3. Opened' /\ Outcomes' /\ SchedulerInStep' /\ Waited'
  BY <1>1 DEF Opened, Outcomes, SchedulerInStep, Waited
<1>4. JobsInStep'
  <2>1. scheduler # "new" /\ phase # "ended"
    BY <1>1 DEF JobsInStep, SchedulerInStep, NoJobRuns
  <2>2. ASSUME phase = "finishing", NEW i \in Jobs PROVE jobs'[i] \notin UsingPool
    <3>1. scheduler # "running"
      BY <2>2 DEF SchedulerInStep, Closing
    <3> QED BY <1>1, <2>2, <3>1 DEF JobsInStep, TypeOK
  <2> QED BY <1>1, <2>1, <2>2 DEF JobsInStep
<1> QED BY <1>2, <1>3, <1>4

LEMMA Invariance == Spec => []Inv
<1>1. Init => Inv
  BY InitInv
<1>2. Inv /\ [Next]_vars => Inv'
  <2> SUFFICES ASSUME Inv, [Next]_vars PROVE Inv'
    OBVIOUS
  <2>1. CASE StartupStep \/ Signal
    BY <2>1, StartupInv
  <2>2. CASE ShutdownStep \/ StopScheduler
    BY <2>2, ShutdownInv
  <2>3. ASSUME NEW j \in Jobs, JobStep(j) PROVE Inv'
    BY <2>3, JobInv
  <2>4. CASE UNCHANGED vars
    BY <2>4 DEF vars, startup, resources, Inv, TypeOK, Opened, Outcomes, SchedulerInStep,
                JobsInStep, Waited, NoJobRuns
  <2> QED BY <2>1, <2>2, <2>3, <2>4 DEF Next
<1> QED BY <1>1, <1>2, PTL DEF Spec

-----------------------------------------------------------------------------
(* What follows.                                                           *)

(***************************************************************************)
(* Phases, counts, delays and job stages stay in their ranges, for any     *)
(* jobs and any settings: there is never more than one pool or engine.     *)
(***************************************************************************)
THEOREM TypeCorrect == Spec => []TypeOK
<1>1. Inv => TypeOK
  BY DEF Inv
<1> QED BY <1>1, Invariance, PTL

(***************************************************************************)
(* However often the startup fails and at whichever call, the next attempt *)
(* finds the connections of the one before closed.                         *)
(***************************************************************************)
THEOREM AttemptsClean == Spec => []AttemptsStartClean
<1>1. Inv => AttemptsStartClean
  BY DEF Inv, Opened, AttemptsStartClean
<1> QED BY <1>1, Invariance, PTL

(***************************************************************************)
(* A process that has ended runs no job, and has nothing open unless its   *)
(* startup broke with an error that is not retried.                        *)
(***************************************************************************)
THEOREM EndIsClean == Spec => []EndsClean
<1>1. Inv => EndsClean
  BY DEF Inv, Opened, JobsInStep, EndsClean
<1> QED BY <1>1, Invariance, PTL

(***************************************************************************)
(* For any number of attempts and any settings, the waits are the base     *)
(* delay doubled and capped, and there is one less than attempts.          *)
(***************************************************************************)
THEOREM RetriesBackOff == Spec => []Backoff
<1>1. Inv => Backoff
  <2> SUFFICES ASSUME Inv PROVE Backoff
    OBVIOUS
  <2>1. \A n \in DOMAIN waits :
          waits[n] = IF n = 1 THEN BaseDelay ELSE Smaller(BaseDelay * 2^(n - 1), MaxDelay)
    BY DEF Inv, Waited, DelayOf
  <2>2. outcome = "unreachable" => Len(waits) = MaxAttempts - 1
    BY DEF Inv, Waited, Outcomes
  <2> QED BY <2>1, <2>2 DEF Backoff
<1> QED BY <1>1, Invariance, PTL

(***************************************************************************)
(* Whatever the shutdown closes in whatever order, no job uses a pool that *)
(* has been closed.                                                        *)
(***************************************************************************)
THEOREM JobsHavePool == Spec => []NoJobWithoutPool
<1>1. Inv => NoJobWithoutPool
  <2> SUFFICES ASSUME Inv, NEW j \in Jobs, jobs[j] \in UsingPool PROVE pools = 1
    BY DEF NoJobWithoutPool
  <2>1. ~NoJobRuns
    BY DEF NoJobRuns, UsingPool, Collecting
  <2>2. phase \in {"running", "disposing", "closing"}
    BY <2>1 DEF Inv, TypeOK, Phases, Starting, Closing, JobsInStep, SchedulerInStep
  <2> QED BY <2>2 DEF Inv, Opened
<1> QED BY <1>1, Invariance, PTL

=============================================================================
