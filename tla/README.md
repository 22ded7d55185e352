# Formal models of VLAPlayer

VLAPlayer drives a robot arm with a vision-language-action model: a web GUI
starts, pauses and homes the robot, a client asks a GR00T server for chunks of
actions, and a connection sends them to the arm. This directory holds TLA+
specifications of its core, model-checked with TLC on small instances and, where
it matters most, proved with TLAPS for every instance. Line numbers refer to
`src/`.

## The system

| Component | State | Operations | Correct when |
|---|---|---|---|
| Live target stream, `clients/tidybot_stream.py` | lock, `_enabled`, `_generation`, `_period`, `_targets`, `_last_target`, `_pending`, request and result queues, latency, retry time | `tick` (one sample and one command per period), `_receive`, `_predict` (worker), `set_enabled`, `stop`, `run` | a pause that returned holds; nothing from before a pause or rate change is sent; one request in flight; commands continue during slow predictions; shutdown ends both loops |
| GR00T client, `clients/groot.py`, `clients/client.py` | `predicting`, `_target_stream`, `_stop_inference`, loop lock; the serial loop's queue | `start_inference_loop` (live or serial), `stop_inference_loop`, `stop_predicting`, `start_predicting`, `get_observation` | one loop at a time; a pause holds back queued actions; the loop ends when told to |
| GR00T configurations, `groot.py:24` to `684` | training references | `load_reference_files`, `_to_gr00t_request`, `_from_gr00t_response` | a request has the layout and the references of the checkpoint; what is decoded can be executed |
| Recorded source, `groot.py:686` | cursor, start and minimum-Z checks | `make_prediction`, `check_action` | frames in order, at the recorded rate unless overridden |
| Tidybot interface, `clients/tidybot_interface.py` | RPC proxy, `_gripper_target`, lock | `awake`, `state`, `apply_abs_action_tidybot`, `move_to_home` | the remembered gripper target is what the arm was told |
| Kinova connection, `connections/kinova.py` | latest feedback, twist traces, sequence numbers, notification handlers | `awake`, `apply_action`, `apply_action_waypoint`, `move_to_home`, `pause`, feedback threads | one waypoint at a time; every call ends; every twist is traced once; no velocity outlives its sender |
| Cameras, `camera_set.py` | latest frame, history buffer, capture thread | `awake`, `_capture_loop`, `get_vision`, `stop` (which nothing calls) | the history holds the frames asked for and no more |
| GUI session, `gui.py` | status flags, start lock, awake future, threads it spawns | `awake`, `start`, `pause`, `unpause`, `go_home`, `toggle_start_pause` | the arm does what the GUI shows, as far as it shows it; homing excludes the commands of a live stream; a failed start can be repeated |
| Episode recorder, `gui.py:1136` | current recording, directory, start time, flags of styled series | `_begin_episode`, `save_episode`, `report_...` | an episode's metadata describe its own recording; nothing is logged to a closed file |
| Player, `player.py` | bindings | `awake`, `start`, `pause`, `unpause` | the client is bound before it starts |
| Program, `play.py` | arguments | main | options that do not fit are refused before anything moves; shutdown pauses, then stops the loop |
| Stand-alone replay, `replay_episode.py` | records, schedule | `replay` | deltas keep their distance; every exit stops the arm |

The GUI runs `Player.awake/start/pause/unpause` in one new thread per click.
`Player.start` runs the client's inference loop in the calling thread. On the
live Tidybot path this loop is `TidybotTargetStream.run`, which starts a worker
for predictions; the two exchange requests and results through queues. On every
other path it is the serial loop of `groot.py`, which predicts and executes in
turns. Pausing
and resuming threads reach the loop through the unlocked flag `client.predicting`
and the locked `set_enabled`. HTTP handlers write the control period and the
execution horizon without a lock. `play.py`'s main thread shuts everything down.

The behaviours that are hard: overlapping pauses and resumes, predictions that
come back late, commands already under way when a pause is requested, rate
changes with a prediction in flight, failures in the middle of a tick, shutdown
while the model hangs; notifications of one action that reach the call that waits
for another, feedback threads that race the sender of a twist, Ctrl+C in the middle
of the clean-up; an episode saved while the next one begins. `PROJECT.json` lists
them line by line under `hazards`.

## Modules

| Module | Models |
|---|---|
| `TidybotStream` | `tidybot_stream.py`, and the client calls, setting changes and shutdown sequence that act on it |
| `StreamPromise` | what pausing, resuming and stopping a live stream promise, without threads, queues or locks; implemented by `TidybotStream` |
| `MCTidybotStream` | instances of `TidybotStream` for TLC |
| `TidybotStream_proofs` | theorems about `TidybotStream` |
| `TargetTiming` | the same stream in time: when `run` lets ticks happen, which step of a chunk a tick sends, when the next prediction is requested |
| `MCTargetTiming`, `TargetTiming_proofs` | instances for TLC; theorems |
| `GuiSession` | the session control of `gui.py` with the threads it starts, the player's part in them, and the stream reduced to its flag and lock |
| `MCGuiSession`, `GuiSession_proofs` | instances for TLC; theorems |
| `SerialLoop`, `MCSerialLoop`, `SerialLoop_proofs` | the serial loop of `groot.py` with recorded and served chunks, the players, the page and the shutdown that act on it; instances; theorems |
| `KinovaConnection` | the calls of `kinova.py` by the loop, the homing thread and the pausing ones, its feedback threads, the session around them, and the arm |
| `ReplayEpisode`, `MCReplayEpisode`, `ReplayEpisode_proofs` | `KinovaConnection` together with the stand-alone replay that drives it alone; instances; theorems about both |
| `CameraSet` | awakening, capture threads, history buffers |
| `GrootTransforms` | what a checkpoint's configuration does to requests and answers, as operators |
| `Prediction`, `MCPrediction`, `Prediction_proofs` | a launch from its arguments to executed chunks: `CameraSet` and `GrootTransforms` composed; instances; theorems about the three |
| `EpisodeRecorder`, `MCEpisodeRecorder`, `EpisodeRecorder_proofs` | the episode recorder of `gui.py` with the threads that begin, save and report; instances; theorems |

### TidybotStream

One variable per attribute of `TidybotTargetStream` (`pending` is `_pending`,
`backoff` says that `_retry_at` lies ahead), the client's `predicting`, the
settings `controlPeriod` and `executionHorizon`, `stopEvent`, a program counter
per thread, and `arm`, the last command the arm server executed. Three history
variables (`ops`, `pauses`, `held`) bound the run and remember which pauses
returned.

*The control loop* goes through `waiting`, `woken` (the loop saw no stop event and
is about to take the lock), and inside `tick`: `locked`, `rate`, `receiving`,
`observing`, `requesting`, `submitting`. The lock is held exactly in these six
positions (`InTick`). Each read of something another thread writes is a step of
its own: the stop event (`TickBegin`), `predicting` (`TickEnable`), the period
(`TickRate`), each result (`Receive...`), the horizon (`RequestPrediction`). Each
place where the code may raise has a failing action, which closes the stream the
way the `except` block does (`FailTick`).

*The worker* takes a request, checks the stop event, predicts for as long as it
likes and answers with poses, with nothing usable (error, None or empty chunk:
all three keep the plan and delay the retry) or with actions of another type.

*Callers* write `predicting` in one step and pass through `set_enabled` in
another, which needs the lock. Their number is a parameter.

*Abstractions.* A target is the period it was computed for and the number of
pauses that had returned when its observation was taken; poses, logging and
telemetry are left out. Time is not a number here: how many steps elapsed before
a chunk is received and how long a prediction took are arbitrary up to
`MaxElapsed` and within `Latencies`, and a retry delay ends at any moment
between two ticks. This allows more behaviours than the clock does. The body of
`set_enabled` is one step, because it runs under the lock and calls nothing.
A request is identified by its contents; with one request in flight
(`OneInFlight`) no two requests with equal contents ever coexist.
Arm commands that raise may or may not have been executed by the server.
A control period that is not finite and positive is excluded: both the command
line and `api_dt` reject it.

### TargetTiming

Time is a natural number of units that divide every duration. A queued target is
the time it was planned for: step *k* of a chunk belongs to the time of its
observation plus *k* periods (`FreshTargets`). `started`, `deadline` and `pace` are
the locals of `run` (`pace` is its `period`), `period`, `plan`, `latency`, `retryAt`
and `pending` the attributes of the stream. One tick goes through `Wake`, `Prepare`
(flag and period are compared with the client's), `Receive` or `ReceiveNothing`,
`RequestPrediction`, `Submit` or `TickFails`, and `Pace`, which is lines 206 to 216.
A wake-up, an RPC and the rest of the loop are each late by one of `Delays`.

Threads are the other module's subject: here pauses and changes of the period
happen while the loop sleeps, and, as one request is in flight
(`OneInFlight`), its answer and the time it takes are part of the pending request.
The floor division of line 127 is stated by its two inequalities (`Elapsed`), for
the provers. The code's clock is a float; rounding is left out.

### GuiSession

A request is one click with everything that runs on its behalf: the handler in
the HTTP server's thread pool and the thread of `run_player` or
`_go_home_and_resume` that continues it (`at`). The threads of `player.pause` and
`player.unpause` are anonymous and unordered, so they are counted by position
(`calls`). Each `initialize` thread with its future is an entry of `attempts`; a
start remembers the future it captured (`waits`). The six flags of `_status` that
concern the session are variables. The decision of `toggle_start_pause` and the
method it leads to are two steps, since the status lock is released in between;
code under `_start_lock` or `_status_lock` is one. Of the stream, the unlocked flag
`predicting` and the lock remain, which a thread that sets the gate waits for (what
the gate does is in `TidybotStream`), and a tick that commands the arm
(`TickSends`) waits while homing holds the interface lock. `Faults` lets every call
into robot, cameras and file system raise; `Patient` makes the user wait until a
pause, resume or homing is carried out; `Headless` is the constructor's argument.

The thread of `run_player` passes through `awaiting`, `beginning`, `starting` and
`looping`, and leaves the loop in one of two ways. `LoopReturns`: the episode is over or
the loop was told to stop; the thread has nothing left to do, and the page goes on
showing a policy (`returned`). `LoopRaises`: the start is taken back and may be
repeated. A live loop that raised may have left its prediction worker in a request
(`worker`); a start made before the worker has ended (`WorkerEnds`) returns at once
(`RunnerStarts`, `groot.py:827`), with the same page. An initialization may take for
ever, since `test_health` and the gripper are waited for without a bound.

Left out are the event that only `main` waits for, the recording flag of the
cameras, which nothing reads, and all logging.

### SerialLoop

`loop` is the program counter of the one thread that runs `start_inference_loop`
off the live Tidybot path: `Poll` and `Gate` (stop event, `predicting`), `Observe`
and `Answer` (the prediction), `Enqueue`, `Take`, `Check` (`predicting` again, and
`check_action` of a recorded source), `Apply` and `Applied`, `Pace`, `Exit`. Every
read of `predicting`, the horizon, the period or the stop event is a step of its
own, as players, page and main write them without a lock. `AnswerFails`,
`CheckStops` and `ApplyFails` are the handlers of the two `try` statements, with
their different ends: retry, skip, or leave the loop. `cursor` and `startChecked`
are the recorded source's.

An action is its row of the episode, 0 if it comes from a server. Time is relative:
`ahead` is `next_tick` less the present and `age` the time since the latest command.
The floor check may refuse any action. `check_action` asks the robot for its state, so
`Check` takes time (`HeldUp`): it comes after the schedule was reset and before the
command, which is therefore late by as much while the schedule is not. `held` remembers
it, since the next target comes closer by no more than this. `config` is fixed at the
launch; live Tidybot execution is excluded because `TidybotStream` models it. The other
history variables remember pauses and rows for the properties.

### KinovaConnection and ReplayEpisode

Three kinds of threads use the connection at the same time: the one that awakes it and
then runs the loop, the one of `_go_home_and_resume`, and those of `player.pause`
(`Pausers`), any number of them. Nothing orders them: `GoHome` begins homing whatever
the loop's call is, `Pause` halts the arm at any moment, the homing included, and
`Resume` is possible at any moment, so that the loop may apply a waypoint while the arm
is homing. `goingHome` is the page's flag, which only keeps a second homing away; the
pause that goes with Home is a thread like any other. `call[t]` is the step of thread
*t*'s call, `kind[t]` which call it is; a call is cut where another thread or the arm
can come between: before and after each RPC (`SendTwist`, `TraceTwist`, `SendJoints`,
`Grip`, `PrepareWaypoint`, `PrepareHome`, `Execute`) and at the wait for a notification
(`Completed`, `TimesOut`, `HomeTimesOut`). Every RPC may raise, before or after the arm
got it. Each `awake()` starts a feedback thread that nothing ends in a session;
`PublishFeedback` is the code under the lock, `ReportFeedback` what follows without it.

The arm is external, modelled from how the code uses it: it executes one command at a
time (`Command`, `ExecuteAction`), and the END or ABORT of an action is published later,
to every handler subscribed then (`Publish`), because the handlers do not look at which
action a notification is about. The history variable `disturbed` says that a call has
given up an action that it had sent (it timed out, or the RPC raised after the arm had
got it), or that a homing and a waypoint were under way at the same time: from then on a
notification may belong to an action nobody waits for. Poses, limits, gripper positions
and speeds are left out; a waypoint may be refused, reached already or valid.

`ReplayEpisode` adds the steps of `replay()` with its schedule (`ahead`, `age`) and its
`finally` clauses; `Interrupt` is Ctrl+C between any two steps, and the clean-up
may be interrupted as well. Parsing the episode and the mode that only prints it
are left out.

### CameraSet, GrootTransforms and Prediction

A frame is its number in the order of delivery. A capture thread reads
(`ReadFrame`), publishes (`PublishFrame`) and pushes and trims under the buffer's lock
(`PushFrame`); `AwakeBegins` to `AwakeEnds` awaken the cameras in order, fail and start
over, which leaves the threads of the first attempt running, as nothing stops them.

`GrootTransforms` says, for each of the nine configurations, which references it holds,
whether `_build_gr00t_request` and `_from_gr00t_response` succeed, how the pose is laid
out, and which kind of action comes out; play.py's refusals and the connections' type
checks are there as well. Arithmetic is abstracted to what was done: joints wrapped into
which bounds, quaternion aligned or not.

`Prediction` runs one launch: `Launch` or `LaunchFails`, the cameras' awakening,
and then the loop `GetVision` (one camera per step), `BuildRequest`, `Answers`,
`Decode`, `Execute`, each with its failure. A failure only ends the prediction
here, since what the loops do about it is modelled in `SerialLoop` and
`TidybotStream`.

### EpisodeRecorder

An episode is named by the call of `_begin_episode` that makes it. Begins, saves and
reports are threads; the three fields of the episode under way, the global
recording and the flags of styled series are written one at a time, because only
`save_episode` takes the lock. `BeginFails` is a failure of mkdir, sinks or blueprint,
with its different ends in `run_player` and `unpause`.

A report styles several entities under one flag and logs data to several, one `rr.log`
after the other, and not always to the ones it styles: `Styling` and `Logging` say
which, for the state (under "state"), the three kinds of action that have a report which
works ("delta", "relative" and "pose", of which a session has one) and the single series
("depth", "timing", "latency"). `todo` is what a report has yet to style or to log.
`styles` and `data` are the entities the present global recording has styles and data
of, as far as it is an episode's; once another recording is global, an episode's never
is again. The reports of joint actions raise or call a helper that does not exist, and
are left out, as are reports without styles.

## Runs

| Run | Question |
|---|---|
| `stream_pause` | Do pauses hold, with two threads pausing and resuming, three interventions and a shutdown at any moment? |
| `stream_live` | When period and horizon change at any moment and predictions may hang for ever: is the plan at the stream's rate, does the arm keep being commanded, do calls return, does a stopped loop end? And does prediction go on if the server answers or times out? |
| `timing_rate` | Can ticks come in bursts or a target leave early, with late wake-ups, slow RPCs, failures, pauses and two period changes? |
| `timing_prefetch` | When ticks keep within their period, is the plan long enough until the next chunk arrives, with short and long predictions, pauses and failures, and is every target sent in time? |
| `gui_live` | Four clicks by a user who waits, everything may fail: one initialization, one loop, does the page follow the start, does Paused on the page mean paused, is Starting gone once no initialization runs any more, does a pause that stays on the page arrive? |
| `gui_clicks` | violated; see Findings |
| `serial` | Every execution and source, paused, resumed, changed, failing and stopped at any moment: does a pause hold back the chunk, do rows go out in order, do streamed targets keep their distance, but for what their state checks take, does a stopped loop end? |
| `serial_resume` | violated; see Findings |
| `kinova` | Sessions in both executions with Pause, Home and Resume in concurrent threads, and stand-alone replays, interrupted anywhere: does the loop wait for its waypoints until an action is given up or homing overlaps one, is a twist traced once, does the arm come to rest, do calls end? |
| `observe` | Every configuration, execution, source and reference file, two cameras capturing: does what was launched and gets as far as a request or an action fit the checkpoint and the arm, which accepted launches do not, and is an observation the history it claims to be? |
| `observe_branch` | violated; see Findings |
| `recorder` | Two episodes begun, two saves, a reporting thread and failures interleaved: does every save describe one episode, is what a report both styles and logs to styled, is nothing logged to a closed file? |

*Bounds of the stream.* `MaxOps` (three, or one in `stream_live`, where the failing
tick or the initial state is the pause) interventions are enough for the pattern each
property fears: a pause overtaken by a resume overtaken by a pause needs three, a rate
change with a prediction in flight needs one. The chunk is as long as the longest
horizon (2), and up to two steps elapse, so fresh parts of length 2, 1 and 0 occur;
a plan of two targets is longer than one tick and shorter than the prefetch
distance. Two callers overlap in every way with the main thread's own pause.

`timing_rate` takes periods of 2 and 3 units and delays of 0 and 2, so that a tick
may overrun its period, the next wake-up may be late as well, and a change of
period may hit either; `Window` is the number of ticks the rate bound compares
(the theorem is for any). `MaxClock` ends the run after several periods at each
rate. `timing_prefetch` needs a longer clock, to let two chunks follow each other,
and one period, since a new period drops the plan. Its `ChunkLengths` are at least two
latencies long: a chunk that arrives one latency old must still last for another. Its
numbers are on the edge of what `NeverRunsDryHolds` asks for: with chunks of 7 steps
instead of 8, with latencies of 4 and 14 instead of 6 and 14 (four steps are kept after
a short prediction, three are not enough for a long one), or of 6 and 16, TLC finds the
plan run dry. The stream is paused, resumed and fails `MaxChanges` times.

*Of the page.* Four clicks are what the longest scenario needs (start, home, resume,
pause); every place a request can be in is then reached with three others around it.
`gui_clicks` needs three.

*Of the serial loop.* An episode of four rows holds two chunks at the longer horizon
and four at the shorter one, so the cursor crosses chunks, and a horizon that changes
while a chunk is made is among the two interventions (`MaxOps`, which counts failures
too). Served chunks have two actions or none. A call, the state check of a recorded
row among them, takes no time, one unit, or as long as the longer of the two periods, so
schedules are kept and missed.

*Of the Kinova arm.* Three actions: home and two waypoints, or home, a waypoint and
Home by the user. Two numbered twists are in flight at once, from the loop and one
pausing thread (the theorems are for any number of these), two feedback
threads publish them, one RPC fails or one Ctrl+C comes. The replay of two deltas
has the one distance its property is about. Once these bounds are reached the model
stops, hence `CHECK_DEADLOCK FALSE`.

*Of the cameras.* Two attempts to awake, histories of one frame or two, three frames per
camera: the buffer is filled, trimmed and short. It too stops at its bounds.

*Of the launch.* All nine configurations, three executions, every source and every way
to give or leave out the reference files.

*Of the recorder.* A second begin is what makes a save race, and a second save what
makes an episode be closed twice; begins and saves are interchangeable, hence the
symmetry. The one report is that of pose actions, the kind the live path sends, which
has entities styled only, logged only, and both. It stops when begins and saves are used
up.

*Fairness.* The stream's control loop is weakly fair: observation and command RPCs
return or raise (the code gives them no timeout, so a hung RPC would hang the
loop). A thread that waits for the lock is strongly fair: the loop releases the lock
between ticks and sleeps a positive time there. The end of a retry delay is
strongly fair because time passes while the loop sleeps. The worker is fair only
as the premise of `KeepsPredicting`; `GrootN17ServerConfiguration`'s `timeout_ms` bounds
a request.

In `GuiSession` the threads of a click and the first steps of the pausing and resuming
threads run (weak fairness). An initialization, a homing, a loop and a tick may take for
ever. Users owe nothing.

The serial loop is weakly fair, as predictions end by `timeout_ms` and waypoints by
`WAYPOINT_TIMEOUT_S`, and main finishes what it began. The calls of the Kinova
connection and the steps of a replay are weakly fair, because every RPC returns or
raises after the API's timeout; the one wait in the code without a bound, for the
gripper to open before homing (`PrepareHome`), is not. Nothing is assumed of the arm, of
notifications, of feedback, or of clicks. `Prediction` and
`EpisodeRecorder` have safety properties only.

## Findings

Each is a run that TLC finds violated.

- `gui_clicks` (`gui.py:730`): Pause and Resume start a thread each and nothing
  orders the two. Start, then Pause and Home clicked together: the handler of Pause
  does its work after homing has resumed, so the page shows Paused, but the thread
  of the resume comes last and the arm is commanded (so it may after Pause, Resume,
  Pause). README.md:62 promises that "Manual Pause stops all submissions". For a
  user who waits, `gui_live` shows that the promise holds.
- `serial_resume` (`clients/groot.py:844`): the serial loop learns of a pause only where it
  reads `predicting`. A pause and a resume within one waypoint or one prediction
  go unnoticed, and the rest of the chunk is executed. README.md:222 says that
  "pausing clears queued actions, so a mid-chunk pause discards the remaining rows of
  that chunk". What does hold is `PauseHoldsBack`: nothing is sent while paused, but
  for one action that had passed its check.
- `observe_branch` (`play.py:9`): `--joint-branch` has a default, so a launch without the
  option replaces the historical joint bounds of `THREE_TASKS_2_FIXED_LORA` by those
  of another training. README.md:110 says that these configurations "load their
  historical bounds on construction" and that the option is there "to override"
  them.

Noted while modelling, without a run.

Session and page:

- Start, Home, then Resume and Pause while the arm is homing: the end of homing resumes,
  because the page showed no pause at the click on Home (`gui.py:606`).
- When `move_to_home` raises, `going_home` stays set, and the early return for a homing
  "already in progress" (`gui.py:590`) is taken for ever.
- Without a display there is no recording to continue, so every start fails after its
  initialization (`gui.py:1143`); `tests/test_gui_startup.py:95` expects `player.start`
  to be called.
- The documentation says that `awake()` fires when the page's server is up (`gui.py:24`),
  but `_wait_for_serving_then_awake` only waits and nothing but the buttons calls it.
- A prompt sent before the player is awake raises, as there is no client yet
  (`ToggleRefused`, `gui.py:618`), where `tests/test_gui_startup.py:44` expects status 200.
- A recorded episode that is over ends the loop without telling the page (`LoopReturns`,
  `groot.py:863`): the page goes on showing a policy, and Resume a running one, though
  there is no loop. So it does when a live start finds the worker of the loop before
  still in its request (`groot.py:827`). Start is not offered again in either case.
- An initialization need not end: `client.py:46` waits without a bound for the server to
  be well, and `kinova.py:723` for the gripper. The page shows Starting as long.
- A resume whose `_begin_episode` raises leaves the page showing a running policy too
  (`BeginFails`).

Launch:

- `--dt` has a default of 0.02, so `allow_control_period_override` is always true and the
  dataset's period is never the default, unlike README.md:74 and 201 say; the
  default of `--joint-branch` makes the explicit option README.md:111 calls required
  superfluous, and being a relative path it fails from another directory.
- `_eef_6d_rot` does not exist, so every request of `THREE_TASKS_REL_ROT6D_LORA` and
  `ABL7_FULLREL_ROT6D` fails; `ABL7_FULLREL_QUAT` has no case, and no answer of
  `ABS_ROT6D_LORA` can be decoded (`Answerable`, `Decodes`). None of the four is refused at
  the launch; README.md:43 names `THREE_TASKS_REL_ROT6D_LORA` as one of the two
  configurations for Tidybot, and `play.py:39` accepts it.
- The `ABL7` configurations decode to `ObservationRelativeDelta`, which
  `apply_action_waypoint` rejects (`kinova.py:342`); `play.py` does not refuse them with
  `--execution waypoint`. `LaunchFits` names them as exceptions, and `Working` the five
  configurations that ever execute an action.

Serial loop and arm:

- A chunk without actions leaves the loop in `action_queue.get()` for ever (`Starved`,
  `groot.py:882`).
- A horizon that shrinks between the computation of `end` and the slice drops recorded
  rows (`Chronological` excludes a changed horizon for this reason).
- A notification completes whichever waypoint waits: the late ABORT of a waypoint that
  timed out or was cut short ends the next one, and END and ABORT are the same to home
  (`kinova.py:467`). Homing by the page while the loop is still in a waypoint, which
  `Player.pause` does not wait for, crosses the two as well: the waypoint's ABORT ends
  home's wait, and home's END the wait of the loop's next waypoint.
  So does a Resume while the arm is homing, which the page offers: the loop's next waypoint
  takes over from `Retract`. After a timeout the loop goes on, with `Stop` possibly
  failed. `WaitsForCompletion` therefore speaks of a session until a call gives up an
  action it had sent, or a homing and a waypoint are under way together.
- The state check of a recorded row comes between the reset of the schedule and the
  command (`groot.py:769`): when it is slow, the next target follows sooner than a
  period, by as much (`NoCatchUp`).
- Player.pause does not wait for the loop: a delta already past its check is sent after the
  zero twist and the arm coasts on it until the next command. `ComesToRest` says only
  that the loop's own end halts it.
- Feedback sampled just before a twist is sent may complete that twist's trace.
- The replay's log is written only if `tcp_connection.__exit__` succeeds.

Cameras and recorder:

- Nothing calls `CameraConnection.stop`. A second `awake()` after a failed one starts a second
  capture thread for every camera that had opened, and their frames may be pushed out
  of order; `VisionIsHistory` is about cameras with one thread.
- A save that overtakes a begin sends the data of the running episode to the live viewer
  only; two begins at once mix their fields; a resume without a save before leaves an
  episode without metadata; a save racing the first begin raises. The premise of
  `SavesOneEpisode` names these.
- `report_loop_event` logs when the display is on *or* the policy does not run
  (`gui.py:820`), where the reports of series ask for both. The report of
  a `JointDelta` calls a helper that does not exist, and those of joint angles and
  velocities a variable that does not.
- Entities that never are styled although their flag is set: `state/pose/*` (styled is
  `state/target_pose/*`, `gui.py:516` and 567), `inference/action_delta/*` (styled is
  `action_cartesian/*`, 926 and 829) and `inference/gripper` of Cartesian deltas and
  poses (styled are `action_cartesian/gripper` and `action_target_pose/gripper`, 942, 998
  and 842). `StylesFollow` speaks of the entities that a report styles as well as logs to.

## Proofs

`TidybotStream_proofs` proves for all sets of callers, periods, horizons, chunk
lengths and bounds (assumptions `SettingsAssumption`, `BoundsAssumption`,
`AbsenceAssumption`) that

- every state is well typed (`TypeCorrect`),
- one request is in flight (`OneInFlightHolds`),
- the plan is at the stream's rate (`RateConsistency`),
- pauses hold, commands are fresh and a stop is final (`PauseIsEffective`,
  `CommandsAreFresh`, `StopIsFinal`),
- the stream implements `StreamPromise` (`PromiseKept`).

The inductive invariant is `IInv`. Pausing is safe for two reasons that it
connects: a closed stream is empty and everything in flight belongs to an older
generation (`PlanInv`), and only the thread that holds the lock opens the stream
(`TickInv`, `HoldInv`). The generation is what makes `PlanInv` inductive: a request
of the current generation was made since the latest pause and at the current
period, because every closing and every rate change starts a new generation.
`CommandStep` then reads off that the arm is commanded only from an open tick.

`TargetTiming_proofs` proves for all periods, horizons, chunk lengths, latencies,
delays and bounds (`TimingAssumption`, `NoneAssumption`)

- that ticks never come in bursts (`NoBurstHolds`): any *n* + 1 ticks at one rate
  span more than *n* - 1 periods,
- that the loop sleeps for one period at most (`SleepIsBounded`),
- that no target leaves a period or more ahead of its time (`NeverAheadHolds`).

The deadline of the loop is what connects them. `DeadlineInv` says that it lies
behind each tick of the present rate by more than the periods that followed that
tick; a tick at or after the deadline then keeps `NoBurst`. `PlanInv` says that
the *i*-th target of the plan is due before the deadline plus *i* periods or, when it
has just arrived, by the start of this tick plus *i* - 1 periods: sending one target
per deadline therefore never gets ahead. `TickInv` says when the local `period` of
`run` and the stream's differ.

Two more hold if no tick can overrun its period (`TicksFit`: three delays fit into
one period):

- a target leaves less than two periods after its time, whatever predictions take
  and whenever the stream is paused, fails or changes its rate (`NeverBehindHolds`);
- a plan that has begun never runs dry, however often the stream is paused and
  whatever fails (`NeverRunsDryHolds`), if for some *k* any *k* targets outlast every
  prediction and *k* steps of a chunk are left when it arrives (`Outlasts`; the
  instance of `timing_prefetch` satisfies it with *k* = 4; the section on the bounds
  names the smaller numbers at which TLC refutes the property).

`OnTimeInv` says that deadlines are kept but for one delay, and `LagInv` that targets
follow each other as deadlines do. `SupplyInv` says that a request is answered before
the plan has been sent, and that without a request *k* targets are left: which holds
because the prefetch distance of line 172 is at least *k* for every latency
that may have been measured.

`GuiSession_proofs` proves for any set of clicks, with or without a display and failures
(`ModeAssumption` is not even needed), the types and `OneAwake`, `OneRunner`,
`StartsAwake` and `ShownIsTrue`. The inductive invariant adds `FutureInv`: a future
exists before a start captures it, and a start that got past its wait has seen it
succeed; so a further attempt, made only after all others failed, cannot take anything
from it. A runner that has returned keeps its place, so `OneRunner` and `ShownIsTrue`
hold through every end of the loop. Most actions neither touch the attempts nor move a
request into or out of the start; `FrameStep` disposes of them at once.
`PausedMeansPausedHolds` assumes `Patient`, without which `gui_clicks` refutes it. Its
invariant `PauseInv` has three parts: one pause, resume or homing is carried out at a
time (`AloneInv`); it starts with no thread of an earlier one left (`CleanInv`); and
while the page shows Paused no resume is on its way, and whatever still predicts or
ticks is about to be stopped by the thread of the pause itself (`PausedInv`).

`SerialLoop_proofs` proves `TypeOK`, `PauseHoldsBack`, `Chronological` and `NoCatchUp`
for every episode, chunk length, horizon, period, delay and configuration
(`SerialAssumption`, part of which is that there is a longest period: there the
relative clock is capped). The chunk, the queue and the action in hand are consecutive
rows that end at the cursor (`RowsInv`), and none is missing as long as nobody
interferes (`CompleteInv`). `PaceInv` says that a streamed target is behind its
schedule by one late sleep and its own check at most, and that the schedule of the next
one counts from the latest; delays do not add up.

`EpisodeRecorder_proofs` proves `NeverLogsToClosed`, `StylesFollow` and
`SavesOneEpisode` for any number of begins, saves and reports. What a save closes has
been global before and never is again (`RecordingInv`); once an episode has begun, the
entities of a series that counts as logged are styled, all but those the thread that is
just styling it has yet to do (`StyledInv`); and as long as no begin overlaps the save,
the three fields are of one episode (`FieldsInv`, `AloneInv`).

`ReplayEpisode_proofs` proves of `KinovaConnection` and the replay, for any number of
twists, actions, pausing threads, feedback threads and failures, `TypeOK`, `TracedOnce`,
`ComesToRest`, `WaitsForCompletion` and `KeepsDistance`. A trace is in the hands of its
thread, on the table, with the one feedback thread that took it or reported
(`TraceInv`); who may be doing what is `StageInv`, from which the rest of the arm
follows (`RestInv`). `WaitInv`, which holds until the session is disturbed, says that an
action in progress, and its one notification, belong to the thread that waits for them,
and that homing and a waypoint are not under way together, which is where `disturbed`
has its second part from.

`Prediction_proofs` proves `TypeOK`, `LaunchFits` and `VisionIsHistory` for any
histories, frames and numbers of awakenings (`CameraAssumption`). `LaunchInv` and
`RequestInv` carry what was checked at the launch to the request and its answer:
whatever is executed was asked for and decoded, so its configuration is one that can be
both. `FrameInv` says that a frame on its way is a frame. `HistoryInv` says that, while
one thread serves a camera, the frame in its hand is the latest delivered and the buffer
holds the newest pushed frames without a gap, back to the oldest one the history needs:
trimming takes away nothing that an observation names.

In every module the inductive invariant (`IInv`, and the further ones named here) was
checked by TLC on the run's instance before it was proved. Writing the proofs changed
the models in one place: a thread's `action` number, which the code does not have, is
gone from `KinovaConnection`.

What is model-checked only is liveness: `KeepsSubmitting`, `CallsReturn`,
`KeepsPredicting` and `LoopEnds` of the stream, `StartingEnds` and `PauseArrives` of the
page, `LoopEnds` of the serial loop and `CallsEnd` of the connection. They rest on
fairness, which the prover does not reason about (it has no rules for `ENABLED`).
Every other property of a passing run is a theorem.

## Plan

Done: all modules above, and a theorem for every safety property of the passing runs.
Left, in this order:

1. An abstract specification for the serial loop, as `StreamPromise` is for the live
   one: what pausing, resuming and stopping promise there, with the one action that
   has passed its check, implemented by `SerialLoop`.
2. Shorter proofs for `ReplayEpisode` (frame lemmas in place of one step per action).
3. The gripper target `TidybotInterface` remembers.

## Not modelled

`clients/pi.py` does not parse and is not imported. Page layout, the Rerun blueprint,
telemetry polling and the gain are presentation or data. `tally_episodes.py` and
`trajectory_z_extrema.py` are offline scripts, `schemas.py` and `exceptions.py` hold no
state. Of modelled parts are left out: `CameraConnection.stop`, the reports of joint
actions, the gripper target of `TidybotInterface`, and the numbers of
transforms and limits, which are floating-point arithmetic on matrices.
