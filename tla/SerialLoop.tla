----------------------------- MODULE SerialLoop -----------------------------
(***************************************************************************)
(* The serial inference loop of clients/groot.py: one thread that asks for *)
(* a chunk, executes it action by action and asks again.  It drives the    *)
(* Kinova connection (waypoint and delta execution) and recorded episodes, *)
(* whose rows RecordedGrootConfiguration hands out in place of a model     *)
(* server.  Players pause and resume it through client.predicting, main    *)
(* stops it, and the page changes its period and horizon, all without a    *)
(* lock: the loop sees a change where it next reads the shared value.      *)
(*                                                                         *)
(* An action is its row in the recorded episode, 0 for a model's action.   *)
(* Time is relative: `ahead' is next_tick less the present, `age' the time *)
(* since the latest command, both cut off where they no longer matter.     *)
(* What the connection does with an action is the subject of               *)
(* KinovaConnection.                                                       *)
(***************************************************************************)
EXTENDS Integers, Sequences

CONSTANTS
  Callers,        \* player threads that pause and resume
  Frames,         \* rows of the recorded episode
  Horizons,       \* execution horizons the user may select
  ChunkLengths,   \* lengths of the chunks a model server returns
  Periods,        \* control periods the user may select
  DatasetPeriod,  \* 1 / fps of the recorded episode
  Durations,      \* times an action, a prediction or a state check may take
  Lates,          \* times by which a sleep may end late
  MaxOps          \* bound: interventions and failures of a run

ASSUME SerialAssumption ==
  /\ Frames \in Nat \ {0} /\ Horizons \subseteq Nat \ {0} /\ Horizons # {}
  /\ ChunkLengths \subseteq Nat /\ Periods \subseteq Nat \ {0} /\ DatasetPeriod \in Periods
  /\ \E p \in Periods : \A q \in Periods : q <= p
  /\ Durations \subseteq Nat /\ Lates \subseteq Nat /\ Lates # {} /\ MaxOps \in Nat

Action == 0..Frames
NoAction == -1

\* play.py: live Tidybot execution uses the target stream instead of this loop.
\* A recorded source may insist on its own rate, though under play.py's default
\* --dt it never does.
Configs ==
  {c \in [execution : {"tidybot", "waypoint", "delta"}, recorded : BOOLEAN,
          override : BOOLEAN] :
     /\ c.execution = "tidybot" => c.recorded
     /\ ~c.recorded => c.override}

VARIABLES
  config, predicting, stopEvent, executionHorizon, controlPeriod,
  caller, main,   \* program counters of the player threads and of main
  cursor,         \* RecordedGrootConfiguration.cursor
  startChecked,   \* RecordedGrootConfiguration._start_checked
  loop,           \* program counter of the loop
  queue, chunk, action, period,   \* the loop's locals
  ahead, age,
  held,           \* history: how long the latest action's check held it up
  ops,            \* history: interventions and failures, bounded by MaxOps
  pauses,         \* history: calls of stop_predicting
  queued,         \* history: `pauses' when the present chunk was queued
  passed,         \* history: at the latest pause an action had passed its check
  lastRow,        \* history: the latest row sent to the arm
  touched         \* history: somebody paused or changed the horizon

shared  == <<config, stopEvent, executionHorizon, controlPeriod>>
players == <<caller, main>>
source  == <<cursor, startChecked>>
locals  == <<queue, chunk, action, period>>
time    == <<ahead, age, held>>
past    == <<pauses, queued, passed, lastRow, touched>>
vars    == <<shared, predicting, players, source, loop, locals, time, ops, past>>

AtMost(a, b)  == IF a <= b THEN a ELSE b
AtLeast(a, b) == IF a >= b THEN a ELSE b
Longest == CHOOSE p \in Periods : \A q \in Periods : q <= p
Tidybot == config.execution = "tidybot"

\* d units of time pass.
Elapse(d) ==
  /\ ahead' = AtLeast(ahead - d, -Longest)
  /\ age' = AtMost(age + d, Longest)

Init ==
  /\ config \in Configs
  /\ predicting = TRUE /\ stopEvent = FALSE
  /\ executionHorizon \in Horizons /\ controlPeriod \in Periods /\ period = controlPeriod
  /\ caller = [c \in Callers |-> "idle"] /\ main = "running"
  /\ cursor = 0 /\ startChecked = FALSE
  /\ loop = "polling" /\ queue = <<>> /\ chunk = <<>> /\ action = NoAction
  /\ ahead = 0 /\ age = Longest /\ held = 0
  /\ ops = 0 /\ pauses = 0 /\ queued = 0 /\ passed = FALSE
  /\ lastRow = 0 /\ touched = FALSE

----------------------------------------------------------------------------
(* The loop *)

\* while not self._stop_inference.is_set()
Poll ==
  /\ loop = "polling"
  /\ loop' = IF stopEvent THEN "exiting" ELSE "gating"
  /\ UNCHANGED <<shared, predicting, players, source, locals, time, ops, past>>

\* Faulty variant: a paused loop waits without looking at the stop event.
IdleUnpolled ==
  /\ loop = "gating" /\ ~predicting
  /\ queue' = <<>>
  /\ ahead' = 0 /\ age' = Longest
  /\ UNCHANGED <<shared, predicting, players, source, loop, chunk, action, period, held, ops,
                 past>>

\* Paused: forget the queue, sleep and start the schedule anew.
Idle ==
  /\ loop = "gating" /\ ~predicting
  /\ queue' = <<>>
  /\ ahead' = 0 /\ age' = Longest
  /\ loop' = "polling"
  /\ UNCHANGED <<shared, predicting, players, source, chunk, action, period, held, ops, past>>

\* An empty queue halts the arm and asks for a chunk, another one is continued.
Gate ==
  /\ loop = "gating" /\ predicting
  /\ loop' = IF queue = <<>> THEN "observing" ELSE "taking"
  /\ UNCHANGED <<shared, predicting, players, source, locals, time, ops, past>>

\* get_observation(), then make_prediction() as far as its first wait; a
\* recorded episode that is over ends the loop.
Observe ==
  /\ loop = "observing"
  /\ IF config.recorded /\ cursor >= Frames
     THEN predicting' = FALSE /\ loop' = "exiting"
     ELSE UNCHANGED predicting /\ loop' = "predicting"
  /\ UNCHANGED <<shared, players, source, locals, time, ops, past>>

\* Faulty variant: the last chunk is not cut at the end of the episode.
RowsUncut ==
  [i \in 1..executionHorizon |-> cursor + i]

\* The next rows of the recorded episode, as many as the horizon allows now.
Rows ==
  [i \in 1..(AtMost(cursor + executionHorizon, Frames) - cursor) |-> cursor + i]

\* make_prediction() returns a chunk.
Answer ==
  /\ loop = "predicting"
  /\ \/ config.recorded /\ chunk' = Rows
     \/ /\ ~config.recorded
        /\ \E n \in ChunkLengths : chunk' = [i \in 1..n |-> 0]
  /\ cursor' = IF config.recorded THEN cursor + Len(chunk') ELSE cursor
  /\ \E d \in Durations : Elapse(d)
  /\ loop' = "received"
  /\ UNCHANGED <<shared, predicting, players, startChecked, queue, action, period, held, ops,
                 past>>

\* Faulty variant: the cursor moves on before the rows are decoded.
AnswerFailsLate ==
  /\ loop \in {"observing", "predicting"} /\ ops < MaxOps
  /\ ops' = ops + 1
  /\ cursor' = IF loop = "predicting" /\ config.recorded THEN cursor + Len(Rows) ELSE cursor
  /\ Elapse(Longest)
  /\ loop' = "polling"
  /\ UNCHANGED <<shared, predicting, players, startChecked, locals, held, past>>

\* The observation, the server or the decoder raises, or there is no chunk:
\* half a second later the loop tries again.
AnswerFails ==
  /\ loop \in {"observing", "predicting"} /\ ops < MaxOps
  /\ ops' = ops + 1
  /\ Elapse(Longest)
  /\ loop' = "polling"
  /\ UNCHANGED <<shared, predicting, players, source, locals, held, past>>

\* Faulty variant: streamed targets keep the deadline from before the gap.
EnqueueOnSchedule ==
  /\ loop = "received"
  /\ queue' = SubSeq(chunk, 1, AtMost(executionHorizon, Len(chunk)))
  /\ chunk' = <<>> /\ queued' = pauses
  /\ loop' = "taking"
  /\ UNCHANGED <<shared, predicting, players, source, action, period, time, ops, pauses,
                 passed, lastRow, touched>>

\* chunk.actions[:execution_horizon] replace the queue.
Enqueue ==
  /\ loop = "received"
  /\ queue' = SubSeq(chunk, 1, AtMost(executionHorizon, Len(chunk)))
  /\ chunk' = <<>> /\ queued' = pauses
  /\ ahead' = IF Tidybot THEN 0 ELSE ahead
  /\ loop' = "taking"
  /\ UNCHANGED <<shared, predicting, players, source, action, period, age, held, ops,
                 pauses, passed, lastRow, touched>>

\* action_queue.get() blocks while there is nothing; then the period is read.
Take ==
  /\ loop = "taking" /\ queue # <<>>
  /\ action' = Head(queue) /\ queue' = Tail(queue)
  /\ period' = controlPeriod
  /\ ahead' = IF controlPeriod # period THEN 0 ELSE ahead
  /\ loop' = "checking"
  /\ UNCHANGED <<shared, predicting, players, source, chunk, age, held, ops, past>>

\* Nothing was queued: the loop waits for ever.
Starved == loop = "taking" /\ queue = <<>>

\* check_action: the rate; then, from the state it reads, the start pose, once, and
\* the floor, both left open here.
RateAccepted == config.override \/ controlPeriod = DatasetPeriod

\* Paused since the gate: drop the chunk.
Drop ==
  /\ loop = "checking" /\ ~predicting
  /\ queue' = <<>> /\ action' = NoAction
  /\ loop' = "polling"
  /\ UNCHANGED <<shared, predicting, players, source, chunk, period, time, ops, past>>

\* Its call to the robot holds the action up; a model's action has no check.
HeldUp ==
  \E d \in IF config.recorded THEN Durations ELSE {0} :
    Elapse(d) /\ held' = AtMost(d, Longest)

\* Faulty variant: a pause is noticed at the gate only.
CheckOnly ==
  /\ loop = "checking"
  /\ config.recorded => RateAccepted
  /\ HeldUp
  /\ startChecked' = (startChecked \/ config.recorded)
  /\ loop' = "applying"
  /\ UNCHANGED <<shared, predicting, players, cursor, locals, ops, past>>

\* Not paused; a recorded action passes its checks.
Check ==
  /\ loop = "checking" /\ predicting
  /\ config.recorded => RateAccepted
  /\ HeldUp
  /\ startChecked' = (startChecked \/ config.recorded)
  /\ loop' = "applying"
  /\ UNCHANGED <<shared, predicting, players, cursor, locals, ops, past>>

\* A recorded action is refused, or its state cannot be read: the loop ends.
CheckStops ==
  /\ loop = "checking" /\ predicting /\ config.recorded
  /\ ~RateAccepted \/ ops < MaxOps
  /\ ops' = IF RateAccepted THEN ops + 1 ELSE ops
  /\ predicting' = FALSE
  /\ loop' = "exiting"
  /\ UNCHANGED <<shared, players, source, locals, time, past>>

\* The command leaves for the arm.
Apply ==
  /\ loop = "applying"
  /\ lastRow' = action
  /\ passed' = FALSE
  /\ age' = 0
  /\ loop' = "executing"
  /\ UNCHANGED <<shared, predicting, players, source, locals, ahead, held, ops, pauses,
                 queued, touched>>

\* The call returns, after the motion for a waypoint and at once otherwise.
Applied ==
  /\ loop = "executing"
  /\ \E d \in Durations : Elapse(d)
  /\ action' = NoAction
  /\ loop' = "pacing"
  /\ UNCHANGED <<shared, predicting, players, source, queue, chunk, period, held, ops,
                 past>>

\* The call raises, before or after the arm got the command: streamed and
\* recorded execution ends, otherwise the action is skipped.
ApplyFails ==
  /\ loop \in {"applying", "executing"} /\ ops < MaxOps
  /\ ops' = ops + 1
  /\ action' = NoAction
  /\ predicting' = (predicting /\ ~config.recorded)
  /\ loop' = IF config.recorded THEN "exiting" ELSE "pacing"
  /\ UNCHANGED <<shared, players, source, queue, chunk, period, time, past>>

\* next_tick += period: sleep until then, or start the schedule anew.
Pace ==
  /\ loop = "pacing"
  /\ IF ahead + period > 0
     THEN \E late \in Lates :
            /\ ahead' = -late
            /\ age' = AtMost(age + ahead + period + late, Longest)
     ELSE ahead' = 0 /\ UNCHANGED age
  /\ held' = 0
  /\ loop' = "polling"
  /\ UNCHANGED <<shared, predicting, players, source, locals, ops, past>>

\* After the loop the arm is halted once more.
Exit ==
  /\ loop = "exiting"
  /\ loop' = "exited"
  /\ UNCHANGED <<shared, predicting, players, source, locals, time, ops, past>>

----------------------------------------------------------------------------
(* Players, the page and main *)

\* stop_predicting; Player.pause then halts the arm, which is no step here.
StopPredicting(c) ==
  /\ caller[c] = "idle" /\ ops < MaxOps
  /\ predicting' = FALSE
  /\ ops' = ops + 1 /\ pauses' = pauses + 1 /\ touched' = TRUE
  /\ passed' = IF predicting THEN loop = "applying" ELSE passed
  /\ caller' = [caller EXCEPT ![c] = "paused"]
  /\ UNCHANGED <<shared, main, source, loop, locals, time, queued, lastRow>>

StartPredicting(c) ==
  /\ caller[c] = "paused"
  /\ predicting' = TRUE
  /\ caller' = [caller EXCEPT ![c] = "idle"]
  /\ UNCHANGED <<shared, main, source, loop, locals, time, ops, past>>

\* api_dt and api_execution_horizon.
ChangeSettings ==
  /\ ops < MaxOps
  /\ \/ \E p \in Periods \ {controlPeriod} :
          controlPeriod' = p /\ UNCHANGED <<executionHorizon, touched>>
     \/ \E h \in Horizons \ {executionHorizon} :
          executionHorizon' = h /\ touched' = TRUE /\ UNCHANGED controlPeriod
  /\ ops' = ops + 1
  /\ UNCHANGED <<config, predicting, stopEvent, players, source, loop, locals, time,
                 pauses, queued, passed, lastRow>>

\* play.py's finally block: stop_predicting, then stop_inference_loop.
MainStopPredicting ==
  /\ main = "running"
  /\ predicting' = FALSE
  /\ pauses' = pauses + 1 /\ touched' = TRUE
  /\ passed' = IF predicting THEN loop = "applying" ELSE passed
  /\ main' = "stopping"
  /\ UNCHANGED <<shared, caller, source, loop, locals, time, ops, queued, lastRow>>

MainStopLoop ==
  /\ main = "stopping"
  /\ stopEvent' = TRUE
  /\ main' = "stopped"
  /\ UNCHANGED <<config, executionHorizon, controlPeriod, predicting, caller, source,
                 loop, locals, time, ops, past>>

----------------------------------------------------------------------------
Loop == \/ Poll \/ Idle \/ Gate \/ Observe \/ Answer \/ AnswerFails \/ Enqueue \/ Take
        \/ Drop \/ Check \/ CheckStops \/ Apply \/ Applied \/ ApplyFails \/ Pace \/ Exit

Terminated == (loop = "exited" \/ Starved) /\ main = "stopped" /\ UNCHANGED vars

Next ==
  \/ Loop
  \/ \E c \in Callers : StopPredicting(c) \/ StartPredicting(c)
  \/ ChangeSettings \/ MainStopPredicting \/ MainStopLoop
  \/ Terminated

Spec == Init /\ [][Next]_vars

\* The loop's thread runs; a prediction or an action returns or fails because
\* both have timeouts (timeout_ms, WAYPOINT_TIMEOUT_S); main finishes.
FairSpec == Spec /\ WF_vars(Loop) /\ WF_vars(MainStopLoop)
----------------------------------------------------------------------------
(* Properties *)

Steps == {"polling", "gating", "observing", "predicting", "received", "taking",
          "checking", "applying", "executing", "pacing", "exiting", "exited"}

FlagsOK ==
  /\ predicting \in BOOLEAN /\ stopEvent \in BOOLEAN /\ startChecked \in BOOLEAN
  /\ passed \in BOOLEAN /\ touched \in BOOLEAN

DataOK ==
  /\ config \in Configs
  /\ executionHorizon \in Horizons /\ controlPeriod \in Periods /\ period \in Periods
  /\ caller \in [Callers -> {"idle", "paused"}]
  /\ main \in {"running", "stopping", "stopped"}
  /\ cursor \in 0..Frames /\ loop \in Steps
  /\ queue \in Seq(Action) /\ chunk \in Seq(Action) /\ action \in Action \cup {NoAction}
  /\ action = NoAction => loop \notin {"checking", "applying"}
  /\ ahead \in Int /\ age \in Nat /\ held \in Nat /\ ops \in 0..MaxOps
  /\ pauses \in Nat /\ queued \in Nat /\ lastRow \in 0..Frames

\* Every variable has its type.
TypeOK == FlagsOK /\ DataOK

Sends == loop = "applying" /\ loop' = "executing"

\* Once predicting is withdrawn nothing more is sent until it is granted again,
\* neither the rest of the chunk nor a chunk that arrives meanwhile, except one
\* action that had passed its check: Player.pause does not wait for the loop.
PauseHoldsBack == [][Sends /\ ~predicting => passed]_vars

\* A recorded episode is replayed in order, and as long as nobody pauses or
\* changes the horizon no row is left out, not even when predictions fail and
\* are repeated ("it does not skip frames", README.md:68).
Chronological ==
  [][Sends /\ config.recorded =>
       action > lastRow /\ (~touched => action = lastRow + 1)]_vars

\* Streamed targets come up a period apart, whatever took long before: a prediction
\* ("Prediction latency must not cause streamed targets to catch up to a deadline
\* from before the inference gap"), earlier commands, checks and late wake-ups.  What
\* shortens the distance to the next target is only what held up this one, its own
\* late wake-up and its own state check, which comes after the schedule is set and
\* before the command; such delays never add up.
NoCatchUp ==
  [][Pace /\ Tidybot => \E late \in Lates : age' + held + late >= period]_vars

\* "Pausing clears queued actions, so a mid-chunk pause discards the remaining
\* rows of that chunk and resumes at the next chunk" (README.md:222-223); an
\* action that had passed its check at the pause is sent all the same.
RowsDieWithPause == [][Sends /\ ~passed => queued = pauses]_vars

\* The loop ends after stop_inference_loop, whatever it was waiting for, unless
\* it is starved by a chunk without actions.
LoopEnds == stopEvent ~> (loop = "exited" \/ Starved)

----------------------------------------------------------------------------
(* The inductive invariant *)

\* The action in the loop's hand has yet to be sent.
InHand == loop \in {"checking", "applying"}

\* Only an action that passed its check before the pause is sent during it.
GateInv == loop = "applying" => predicting \/ passed

\* While the loop predicts there is nothing left to send.
EmptyInv ==
  /\ loop \in {"observing", "predicting", "received"} => queue = <<>>
  /\ loop # "received" => chunk = <<>>

\* The rows in the chunk, in the queue and in hand follow one another, after what was
\* sent and up to the cursor.
RowsInv ==
  /\ lastRow + Len(chunk) <= cursor
  /\ \A i \in 1..Len(chunk) : chunk[i] = cursor - Len(chunk) + i
  /\ \A i \in 1..Len(queue) : lastRow < queue[i] /\ queue[i] <= cursor
  /\ \A i, j \in 1..Len(queue) : queue[j] - queue[i] = j - i
  /\ InHand =>
       /\ lastRow < action /\ action <= cursor
       /\ \A i \in 1..Len(queue) : queue[i] = action + i

\* When nobody interferes none of them is missing.
CompleteInv ==
  ~touched /\ loop \notin {"exiting", "exited"} =>
    /\ predicting
    /\ Len(chunk) <= executionHorizon
    /\ InHand => action = lastRow + 1
    /\ lastRow + (IF InHand THEN 1 ELSE 0) + Len(queue) + Len(chunk) = cursor

\* A target is queued or in hand.
ToSend == loop \in {"taking", "checking", "applying"}
          \/ (loop \in {"polling", "gating"} /\ queue # <<>>)

\* A streamed target is at most one late sleep behind its schedule until its check, and
\* the check behind from then on; the arm has been waiting for the rest of it since the
\* previous target.
PaceInv ==
  /\ ToSend /\ loop # "applying" => \E late \in Lates : ahead + late >= 0
  /\ loop = "applying" => \E late \in Lates : ahead + held + late >= 0
  /\ loop \in {"executing", "pacing"} => \E late \in Lates : age + held + ahead + late >= 0

\* The inductive invariant.
IInv ==
  /\ TypeOK /\ GateInv /\ EmptyInv
  /\ config.recorded => RowsInv /\ CompleteInv
  /\ Tidybot => PaceInv
============================================================================
