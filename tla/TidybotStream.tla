--------------------------- MODULE TidybotStream ---------------------------
(***************************************************************************)
(* The live target stream of clients/tidybot_stream.py with the client     *)
(* calls that open and close it (clients/groot.py, player.py, play.py).    *)
(*                                                                         *)
(* Threads: the control loop (run/tick), which holds the stream's lock for *)
(* a whole tick; the inference worker (_predict); the callers, player      *)
(* threads inside stop_predicting or start_predicting; main, which shuts   *)
(* the program down.  They share the client's `predicting' flag and the    *)
(* connection's period, written without any lock, and two queues.          *)
(*                                                                         *)
(* A target carries only what the properties distinguish: the control      *)
(* period it was computed for and the number of pauses that had returned   *)
(* when its observation was taken.  Clock readings are abstract: any       *)
(* number of steps up to MaxElapsed may have passed when a chunk is        *)
(* received, and a retry delay ends by an action of its own.               *)
(***************************************************************************)
EXTENDS Integers, Sequences

CONSTANTS
  Callers,        \* player threads that pause and resume (gui.py spawns them)
  Periods,        \* control periods the user may select (api_dt)
  Horizons,       \* execution horizons the user may select
  ChunkLengths,   \* lengths of the non-empty chunks the model returns
  MaxElapsed,     \* bound: steps that pass while a prediction is computed
  Latencies,      \* measured prediction latencies, in the unit of Periods
  MaxOps,         \* bound: pauses, resumes and setting changes of a run
  NoRequest,      \* _pending is None
  NoTarget        \* _last_target is None

ASSUME SettingsAssumption ==
  /\ Periods \subseteq Nat \ {0} /\ Periods # {}
  /\ Horizons \subseteq Nat \ {0} /\ Horizons # {}

ASSUME BoundsAssumption ==
  /\ ChunkLengths \subseteq Nat \ {0}
  /\ Latencies \subseteq Nat
  /\ MaxElapsed \in Nat
  /\ MaxOps \in Nat

\* PredictionRequest.  Of the observation only its age in pauses matters.
Request == [generation : Nat, period : Periods, horizon : Horizons, pauses : Nat]

\* PoseTarget, reduced to where it comes from.
Target == [period : Periods, pauses : Nat]

\* "none" is an error, a None chunk or a chunk without actions: each keeps
\* the plan and delays the retry.  "deltas" are actions that are not poses.
Outcomes == {"poses", "none", "deltas"}
Result == [request : Request, outcome : Outcomes]

ASSUME AbsenceAssumption == NoRequest \notin Request /\ NoTarget \notin Target

VARIABLES
  predicting, controlPeriod, executionHorizon, stopEvent,
  enabled, generation, period, targets, lastTarget, pending,
  requests, results, latency, backoff,
  control,    \* program counter of the control loop
  worker,     \* program counter of the worker
  working,    \* the worker's local variable `request'
  caller,     \* program counter of each caller
  main,       \* program counter of the main thread's shutdown
  arm,        \* the latest command executed by the arm server
  ops,        \* history: interventions so far, bounded by MaxOps
  pauses,     \* history: number of stop_predicting calls that returned
  held        \* history: a pause returned and nobody has resumed since

settings   == <<controlPeriod, executionHorizon>>
gate       == <<enabled, generation, targets, lastTarget, backoff>>
inference  == <<requests, results, worker, working>>
users      == <<caller, main, ops, pauses, held>>
stream     == <<gate, period, pending, latency>>
outside    == <<stopEvent, settings, users>>   \* what ticks and worker only read
vars == <<predicting, outside, stream, inference, control, arm>>

----------------------------------------------------------------------------
(* Operators *)

\* Control-loop positions inside tick(), which holds self._lock throughout.
InTick == {"locked", "rate", "receiving", "observing", "requesting", "submitting"}
\* Faulty variant: set_enabled without the lock.
LockIgnored == control = control
LockFree == control \notin InTick

\* _invalidate, together with clearing the enabled flag's dependents.
Invalidate ==
  /\ generation' = generation + 1
  /\ targets' = <<>>
  /\ backoff' = FALSE

\* Faulty variant: the last target survives a pause.
SetEnabledKeepingTarget(on) ==
  IF on = enabled
  THEN UNCHANGED gate
  ELSE enabled' = on /\ Invalidate /\ UNCHANGED lastTarget

\* set_enabled; the lock is held or free when it is used.
SetEnabled(on) ==
  IF on = enabled
  THEN UNCHANGED gate
  ELSE /\ enabled' = on
       /\ Invalidate
       /\ lastTarget' = NoTarget

AtLeast(a, b) == IF a >= b THEN a ELSE b
AtMost(a, b)  == IF a <= b THEN a ELSE b
CeilDiv(a, b) == (a + b - 1) \div b

\* How many targets may be left when the next prediction is requested.
PrefetchSteps(horizon, measured, step) ==
  AtMost(horizon, AtLeast((horizon + 1) \div 2, CeilDiv(measured, step) + 2))

\* Length of actions[elapsed : elapsed + horizon] for `length' actions.
FreshCount(length, elapsed, horizon) ==
  AtMost(horizon, AtLeast(length - elapsed, 0))

\* Faulty variant: the slice is padded with None to the length asked for.
FreshTargetsPadded(request, count) ==
  [i \in 1..(count + 1) |-> IF i > count THEN NoTarget
                           ELSE [period |-> request.period, pauses |-> request.pauses]]

FreshTargets(request, count) ==
  [i \in 1..count |-> [period |-> request.period, pauses |-> request.pauses]]

----------------------------------------------------------------------------
(* Initial state: the stream is constructed while the client may already   *)
(* have been paused or resumed by another thread.                          *)

Init ==
  /\ predicting \in BOOLEAN
  /\ controlPeriod \in Periods
  /\ executionHorizon \in Horizons
  /\ stopEvent = FALSE
  /\ enabled \in BOOLEAN
  /\ generation = 0
  /\ period = controlPeriod
  /\ targets = <<>>
  /\ lastTarget = NoTarget
  /\ pending = NoRequest
  /\ requests = <<>>
  /\ results = <<>>
  /\ latency = 0
  /\ backoff = FALSE
  /\ control = "waiting"
  /\ worker = "polling"
  /\ working = NoRequest
  /\ caller = [c \in Callers |-> "idle"]
  /\ main = "running"
  /\ arm = [beat |-> 0, target |-> NoTarget]
  /\ ops = 0
  /\ pauses = 0
  /\ held = ~predicting

----------------------------------------------------------------------------
(* The control loop *)

\* run: the pause until the next deadline is over; the event is not set.
Wake ==
  /\ control = "waiting" /\ ~stopEvent
  /\ control' = "woken"
  /\ UNCHANGED <<predicting, outside, stream, inference, arm>>

\* Faulty variant: the tick relies on the check made by run().
TickBeginUnchecked ==
  /\ control = "woken"
  /\ control' = "locked"
  /\ UNCHANGED <<predicting, outside, stream, inference, arm>>

\* tick: take the lock, and leave at once if the stream was stopped.
TickBegin ==
  /\ control = "woken"
  /\ control' = IF stopEvent THEN "waiting" ELSE "locked"
  /\ UNCHANGED <<predicting, outside, stream, inference, arm>>

\* tick: set_enabled(client.predicting).
TickEnable ==
  /\ control = "locked"
  /\ SetEnabled(predicting)
  /\ control' = "rate"
  /\ UNCHANGED <<predicting, outside, period, pending, latency, inference, arm>>

\* tick: read the period; a change invalidates the plan, not the last target.
TickRate ==
  /\ control = "rate"
  /\ period' = controlPeriod
  /\ IF controlPeriod # period
     THEN Invalidate /\ UNCHANGED <<enabled, lastTarget>>
     ELSE UNCHANGED gate
  /\ control' = "receiving"
  /\ UNCHANGED <<predicting, outside, pending, latency, inference, arm>>

\* The results _receive would act on, and those it drops.
Answer == Head(results)
\* Faulty variant: results of earlier generations are used.
CurrentIfEnabled == Answer.request = pending /\ enabled
Current == Answer.request = pending /\ pending.generation = generation /\ enabled

\* tick, on any exception: stop_predicting, set_enabled(False), pause.
FailTick ==
  /\ predicting' = FALSE
  /\ SetEnabled(FALSE)
  /\ control' = "waiting"

\* Faulty variant: the generation is checked before pending is cleared.
ReceiveStaleKeepsPending ==
  /\ control = "receiving" /\ results # <<>> /\ ~Current
  /\ results' = Tail(results)
  /\ UNCHANGED <<predicting, outside, stream, requests, worker, working, control, arm>>

\* _receive: a result of another request or of an earlier generation.
ReceiveStale ==
  /\ control = "receiving" /\ results # <<>> /\ ~Current
  /\ results' = Tail(results)
  /\ pending' = IF Answer.request = pending THEN NoRequest ELSE pending
  /\ UNCHANGED <<predicting, outside, gate, period, latency, requests, worker, working,
                 control, arm>>

\* _receive: the answer to the pending request is taken.
Receive(outcome) ==
  /\ control = "receiving" /\ results # <<>> /\ Current
  /\ Answer.outcome = outcome
  /\ results' = Tail(results)
  /\ pending' = NoRequest
  /\ latency' \in Latencies
  /\ UNCHANGED <<outside, period, requests, worker, working, arm>>

\* It failed or is empty: keep the plan, retry later.
ReceiveNone ==
  /\ Receive("none")
  /\ backoff' = TRUE
  /\ UNCHANGED <<predicting, enabled, generation, targets, lastTarget, control>>

\* Its actions are not absolute poses: TypeError leaves _receive and the tick.
ReceiveDeltas == Receive("deltas") /\ FailTick

\* It is a chunk of poses: the part that is still ahead replaces the plan.
ReceivePoses ==
  /\ Receive("poses")
  /\ \E length \in ChunkLengths, elapsed \in 0..MaxElapsed :
       LET count == FreshCount(length, elapsed, pending.horizon)
       IN  targets' = IF count > 0 THEN FreshTargets(pending, count) ELSE targets
  /\ UNCHANGED <<predicting, enabled, generation, lastTarget, backoff, control>>

\* Faulty variant: the tick waits for the answer it asked for.
ReceiveAwaitsAnswer ==
  /\ control = "receiving" /\ results = <<>> /\ pending = NoRequest
  /\ control' = IF enabled THEN "observing" ELSE "waiting"
  /\ UNCHANGED <<predicting, outside, stream, inference, arm>>

\* _receive returns; a disabled stream ends its tick here.
ReceiveDone ==
  /\ control = "receiving" /\ results = <<>>
  /\ control' = IF enabled THEN "observing" ELSE "waiting"
  /\ UNCHANGED <<predicting, outside, stream, inference, arm>>

\* tick: sample cameras and arm; the measured pose seeds the last target.
Observe ==
  /\ control = "observing"
  /\ lastTarget' = IF lastTarget = NoTarget
                   THEN [period |-> period, pauses |-> pauses] ELSE lastTarget
  /\ control' = "requesting"
  /\ UNCHANGED <<predicting, outside, enabled, generation, targets, backoff, period,
                 pending, latency, inference, arm>>

\* tick: a camera or the arm server failed to answer.
ObserveFails ==
  /\ control = "observing"
  /\ FailTick
  /\ UNCHANGED <<outside, period, pending, latency, inference, arm>>

\* Faulty variant: asks again while a request is in flight.
WantsPredictionAgain ==
  /\ Len(targets) <= PrefetchSteps(executionHorizon, latency, period)
  /\ ~backoff

WantsPrediction ==
  /\ pending = NoRequest
  /\ Len(targets) <= PrefetchSteps(executionHorizon, latency, period)
  /\ ~backoff

\* tick: hand the worker a request unless one is in flight.  put_nowait on a
\* full queue (maxsize 1) raises queue.Full, which fails the tick.
RequestPrediction ==
  /\ control = "requesting"
  /\ IF WantsPrediction /\ requests # <<>>
     THEN FailTick /\ UNCHANGED <<pending, requests>>
     ELSE /\ IF WantsPrediction
             THEN LET request == [generation |-> generation, period |-> period,
                                  horizon |-> executionHorizon, pauses |-> pauses]
                  IN  pending' = request /\ requests' = Append(requests, request)
             ELSE UNCHANGED <<pending, requests>>
          /\ control' = "submitting"
          /\ UNCHANGED <<predicting, gate>>
  /\ UNCHANGED <<outside, period, latency, results, worker, working, arm>>

NextTarget == IF targets # <<>> THEN Head(targets) ELSE lastTarget
Command(target) == arm' = [beat |-> 1 - arm.beat, target |-> target]

\* tick: pop a target, or repeat the last one, and command the arm.
Submit ==
  /\ control = "submitting"
  /\ Command(NextTarget)
  /\ lastTarget' = NextTarget
  /\ targets' = IF targets # <<>> THEN Tail(targets) ELSE targets
  /\ control' = "waiting"
  /\ UNCHANGED <<predicting, outside, enabled, generation, backoff, period, pending,
                 latency, inference>>

\* tick: validation or the RPC raised; the server may have acted on the call.
SubmitFails ==
  /\ control = "submitting"
  /\ Command(NextTarget) \/ UNCHANGED arm
  /\ FailTick
  /\ UNCHANGED <<outside, period, pending, latency, inference>>

\* now >= _retry_at from the next tick on.
RetryElapsed ==
  /\ control = "waiting" /\ backoff
  /\ backoff' = FALSE
  /\ UNCHANGED <<predicting, outside, enabled, generation, targets, lastTarget, period,
                 pending, latency, inference, control, arm>>

\* Faulty variant: the loop joins the worker without a timeout.
ControlExitJoins ==
  /\ control = "waiting" /\ stopEvent /\ worker = "exited"
  /\ SetEnabled(FALSE)
  /\ control' = "exited"
  /\ UNCHANGED <<predicting, outside, period, pending, latency, inference, arm>>

\* run: the loop saw the event; `finally' closes the stream.
ControlExit ==
  /\ control = "waiting" /\ stopEvent
  /\ SetEnabled(FALSE)
  /\ control' = "exited"
  /\ UNCHANGED <<predicting, outside, period, pending, latency, inference, arm>>

----------------------------------------------------------------------------
(* The inference worker *)

\* _predict: requests.get(timeout=0.1) returns a request.
WorkerTake ==
  /\ worker = "polling" /\ requests # <<>>
  /\ working' = Head(requests)
  /\ requests' = Tail(requests)
  /\ worker' = "taken"
  /\ UNCHANGED <<predicting, outside, stream, results, control, arm>>

\* _predict: call the model, unless the stream was stopped meanwhile: then
\* the request is dropped and the thread ends.
WorkerBegin ==
  /\ worker = "taken"
  /\ worker' = IF stopEvent THEN "exited" ELSE "predicting"
  /\ working' = IF stopEvent THEN NoRequest ELSE working
  /\ UNCHANGED <<predicting, outside, stream, requests, results, control, arm>>

\* _predict: the model answered, failed or timed out.
WorkerAnswer ==
  /\ worker = "predicting"
  /\ \E outcome \in Outcomes :
       results' = Append(results, [request |-> working, outcome |-> outcome])
  /\ working' = NoRequest
  /\ worker' = "polling"
  /\ UNCHANGED <<predicting, outside, stream, requests, control, arm>>

\* _predict: the loop condition fails.
WorkerExit ==
  /\ worker = "polling" /\ stopEvent
  /\ worker' = "exited"
  /\ UNCHANGED <<predicting, outside, stream, requests, results, working, control, arm>>

----------------------------------------------------------------------------
(* Callers: each call writes client.predicting without a lock, then passes *)
(* through set_enabled, which waits for a tick in progress.                *)

StopPredicting(c) ==
  /\ caller[c] = "idle" /\ ops < MaxOps
  /\ predicting' = FALSE
  /\ caller' = [caller EXCEPT ![c] = "stopping"]
  /\ ops' = ops + 1
  /\ UNCHANGED <<stopEvent, settings, main, pauses, held, stream, inference, control,
                 arm>>

StopReturns(c) ==
  /\ caller[c] = "stopping" /\ LockFree
  /\ SetEnabled(FALSE)
  /\ caller' = [caller EXCEPT ![c] = "idle"]
  /\ pauses' = pauses + 1
  /\ held' = ~predicting
  /\ UNCHANGED <<predicting, stopEvent, settings, main, ops, period, pending, latency,
                 inference, control, arm>>

StartPredicting(c) ==
  /\ caller[c] = "idle" /\ ops < MaxOps
  /\ predicting' = TRUE
  /\ held' = FALSE
  /\ caller' = [caller EXCEPT ![c] = "starting"]
  /\ ops' = ops + 1
  /\ UNCHANGED <<stopEvent, settings, main, pauses, stream, inference, control, arm>>

StartReturns(c) ==
  /\ caller[c] = "starting" /\ LockFree
  /\ SetEnabled(TRUE)
  /\ caller' = [caller EXCEPT ![c] = "idle"]
  /\ UNCHANGED <<predicting, stopEvent, settings, main, ops, pauses, held, period,
                 pending, latency, inference, control, arm>>

\* api_dt and api_execution_horizon write a validated setting, unlocked.
ChangeSettings ==
  /\ ops < MaxOps
  /\ \/ \E p \in Periods \ {controlPeriod} :
          controlPeriod' = p /\ UNCHANGED executionHorizon
     \/ \E h \in Horizons \ {executionHorizon} :
          executionHorizon' = h /\ UNCHANGED controlPeriod
  /\ ops' = ops + 1
  /\ UNCHANGED <<predicting, stopEvent, caller, main, pauses, held, stream, inference,
                 control, arm>>

----------------------------------------------------------------------------
(* Shutdown: play.py's finally block in the main thread *)

\* client.stop_predicting(): the flag ...
MainStopPredicting ==
  /\ main = "running"
  /\ predicting' = FALSE
  /\ main' = "stopping"
  /\ UNCHANGED <<stopEvent, settings, caller, ops, pauses, held, stream, inference,
                 control, arm>>

\* ... and the gate.
MainStopReturns ==
  /\ main = "stopping" /\ LockFree
  /\ SetEnabled(FALSE)
  /\ main' = "paused"
  /\ pauses' = pauses + 1
  /\ held' = ~predicting
  /\ UNCHANGED <<predicting, stopEvent, settings, caller, ops, period, pending,
                 latency, inference, control, arm>>

\* client.stop_inference_loop(): the event ...
MainStopLoop ==
  /\ main = "paused"
  /\ stopEvent' = TRUE
  /\ main' = "signalled"
  /\ UNCHANGED <<predicting, settings, caller, ops, pauses, held, stream, inference,
                 control, arm>>

\* ... and TidybotTargetStream.stop().
MainLoopStopped ==
  /\ main = "signalled" /\ LockFree
  /\ SetEnabled(FALSE)
  /\ main' = "stopped"
  /\ UNCHANGED <<predicting, stopEvent, settings, caller, ops, pauses, held, period,
                 pending, latency, inference, control, arm>>

----------------------------------------------------------------------------
Tick == \/ TickBegin \/ TickEnable \/ TickRate
        \/ ReceiveStale \/ ReceiveNone \/ ReceiveDeltas \/ ReceivePoses \/ ReceiveDone
        \/ Observe \/ ObserveFails \/ RequestPrediction \/ Submit \/ SubmitFails
Control == Wake \/ Tick \/ ControlExit
Worker == WorkerTake \/ WorkerBegin \/ WorkerAnswer \/ WorkerExit
Returns(c) == StopReturns(c) \/ StartReturns(c)
Main == MainStopReturns \/ MainStopLoop \/ MainLoopStopped

\* Every thread has finished: the only state in which nothing is left to do.
Terminated ==
  /\ control = "exited" /\ worker = "exited" /\ main = "stopped"
  /\ \A c \in Callers : caller[c] = "idle"
  /\ UNCHANGED vars

Next ==
  \/ Control \/ RetryElapsed \/ Worker
  \/ \E c \in Callers : StopPredicting(c) \/ StartPredicting(c) \/ Returns(c)
  \/ ChangeSettings
  \/ MainStopPredicting \/ Main
  \/ Terminated

Spec == Init /\ [][Next]_vars

\* The control loop runs while its calls return; a thread blocked on the lock
\* gets it because the loop releases it and sleeps between ticks.  Nothing is
\* assumed of the worker: a prediction may never come back.  Time passes while
\* the loop sleeps, so a retry delay ends after a number of sleeps.
Fairness ==
  /\ WF_vars(Control) /\ SF_vars(RetryElapsed)
  /\ \A c \in Callers : SF_vars(Returns(c))
  /\ SF_vars(Main)
FairSpec == Spec /\ Fairness
----------------------------------------------------------------------------
(* Safety *)

FlagsOK ==
  /\ predicting \in BOOLEAN /\ stopEvent \in BOOLEAN /\ enabled \in BOOLEAN
  /\ backoff \in BOOLEAN /\ held \in BOOLEAN

DataOK ==
  /\ controlPeriod \in Periods /\ executionHorizon \in Horizons
  /\ generation \in Nat /\ period \in Periods
  /\ targets \in Seq(Target) /\ lastTarget \in Target \cup {NoTarget}
  /\ pending \in Request \cup {NoRequest}
  /\ requests \in Seq(Request) /\ results \in Seq(Result)
  /\ latency \in Nat
  /\ control \in InTick \cup {"waiting", "woken", "exited"}
  /\ worker \in {"polling", "taken", "predicting", "exited"}
  /\ working \in Request \cup {NoRequest}
  /\ caller \in [Callers -> {"idle", "stopping", "starting"}]
  /\ main \in {"running", "stopping", "paused", "signalled", "stopped"}
  /\ arm \in [beat : {0, 1}, target : Target \cup {NoTarget}]
  /\ ops \in 0..MaxOps /\ pauses \in Nat

\* Every variable has its type.
TypeOK == FlagsOK /\ DataOK

\* The request the stream waits for is in exactly one place on its way to the
\* worker and back, and nothing else is: put_nowait on the queue of size one
\* never raises, _receive never meets a foreign result, and no request is lost
\* before the stream is stopped ("Keep at most one in flight", tick).
OneInFlight ==
  /\ Len(requests) + Len(results) <= 1
  /\ \A i \in 1..Len(requests) : requests[i] = pending
  /\ \A i \in 1..Len(results) : results[i].request = pending
  /\ working # NoRequest => working = pending /\ requests = <<>> /\ results = <<>>
  /\ pending # NoRequest /\ ~stopEvent =>
       requests # <<>> \/ results # <<>> \/ working # NoRequest

\* The plan steps at the rate of the stream: after a change of dt no target
\* computed for the old period is left to be sent, whatever was in flight
\* (README: "Changing dt also invalidates predictions made at the old rate").
RateConsistent == \A i \in 1..Len(targets) : targets[i].period = period

\* Once stop_predicting has returned, the arm receives no command until
\* start_predicting is called: neither a tick in progress nor a caller that is
\* late in set_enabled(True) gets one out (set_enabled's comment: "Pause cannot
\* return while a command from the previous generation is still being submitted").
PauseHolds == [][arm' # arm => ~held]_vars

\* No command ever comes from an observation older than the latest pause: plans,
\* the last target and predictions in flight all die with it, even when pauses
\* and resumes of several threads overlap (README: "discards queued targets and
\* predictions from before the pause").
FreshAfterPause == [][arm' # arm => arm'.target.pauses = pauses]_vars

\* When stop_inference_loop has returned the arm receives nothing more, though
\* the loop may have been past its own check of the event, and though another
\* thread may resume the client afterwards.
StoppedForGood == [][arm' # arm => main # "stopped"]_vars

\* All of it at once: the stream implements what StreamPromise promises.
Promise == INSTANCE StreamPromise WITH
  stopped <- main = "stopped",
  command <- arm.beat,
  origin  <- IF arm.target = NoTarget THEN 0 ELSE arm.target.pauses
KeepsPromise == Promise!Spec

----------------------------------------------------------------------------
(* The inductive invariant behind the safety properties *)

\* The worker holds a request exactly between taking it and answering it.
WorkerInv == working # NoRequest <=> worker \in {"taken", "predicting"}

\* A closed stream is empty, and what is in flight belongs to an older
\* generation; of the current generation is only what was asked for since the
\* latest pause, at the current rate.
PlanInv ==
  /\ ~enabled => targets = <<>> /\ lastTarget = NoTarget
  /\ pending # NoRequest =>
       /\ pending.generation <= generation
       /\ ~enabled => pending.generation # generation
       /\ pending.generation = generation =>
            pending.period = period /\ pending.pauses = pauses
  /\ \A i \in 1..Len(targets) : targets[i].period = period /\ targets[i].pauses = pauses
  /\ lastTarget # NoTarget => lastTarget.pauses = pauses

\* A tick that got as far as sampling the state is in an open stream, and one
\* that got as far as submitting has something to submit.
TickInv ==
  /\ control \in {"observing", "requesting", "submitting"} => enabled
  /\ control \in {"requesting", "submitting"} => lastTarget # NoTarget

\* While a pause is in force no tick opens the stream.
HoldInv ==
  /\ held => ~predicting
  /\ held /\ control \in InTick \ {"locked"} => ~enabled

\* A tick that began before the stream was stopped has ended.
StopInv ==
  /\ main \in {"signalled", "stopped"} => stopEvent
  /\ main = "stopped" => LockFree

IInv == TypeOK /\ WorkerInv /\ OneInFlight /\ PlanInv /\ TickInv /\ HoldInv /\ StopInv

----------------------------------------------------------------------------
(* Liveness *)

\* While the client wants to predict, commands keep coming whatever the worker
\* does: "neither a slow prediction nor a queue underrun suspends target
\* submission" (class docstring).
KeepsSubmitting == <>[](predicting /\ ~stopEvent) => []<><<arm' # arm>>_arm

\* A pause or resume in progress returns, also while predictions hang.
CallsReturn == \A c \in Callers : []<>(caller[c] = "idle")

\* A stopped stream leaves its loop without waiting for the worker, which may still
\* be in a request ("Never wait for that request", end of run).
LoopEnds == stopEvent ~> control = "exited"

\* Failed, empty, late or invalidated predictions do not end prediction: with a
\* model server that answers or times out (timeout_ms), the worker is asked again
\* and again while the client wants to predict.
KeepsPredicting ==
  WF_vars(Worker) => (<>[](predicting /\ ~stopEvent) => []<>(worker = "predicting"))
============================================================================
