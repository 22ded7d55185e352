----------------------------- MODULE GuiSession -----------------------------
(***************************************************************************)
(* The session control of gui.py: what the buttons of the page do to the   *)
(* player, through which threads, and what the page shows meanwhile.       *)
(*                                                                         *)
(* A request is one click with everything that runs on its behalf: the     *)
(* handler in the HTTP server's thread pool and the thread of run_player   *)
(* or _go_home_and_resume that continues it.  The threads that run         *)
(* player.pause and player.unpause are anonymous and counted, and each     *)
(* initialize() thread is a pending attempt.  The live target stream is    *)
(* reduced to the tick in progress, which follows the client's flag (its   *)
(* gate is in TidybotStream); the loop ends here as any of them may.       *)
(***************************************************************************)
EXTENDS Integers, Sequences, FiniteSets

CONSTANTS
  Requests,   \* the clicks of a session
  Patient,    \* the user waits for one pause, resume or homing to finish
  Faults,     \* calls into robot, cameras or file system may raise
  Headless    \* GUI(headless=True): no display, so no recording to continue

ASSUME ModeAssumption ==
  Patient \in BOOLEAN /\ Faults \in BOOLEAN /\ Headless \in BOOLEAN

VARIABLES
  at,          \* where each request is
  attempts,    \* result of each call of player.awake(), the futures in order
  waits,       \* the attempt whose future a request to start captured
  wasPaused,   \* whether the page showed a pause when homing was requested
  startFired,
  awake, initializing, starting, started, paused, goingHome,   \* _status
  calls,       \* how many player.pause and player.unpause threads are where
  predicting,  \* the client's flag
  tick,        \* the tick in progress, if any, holds the stream's lock
  worker       \* a loop that has ended left its prediction worker in a request

kept   == <<waits, wasPaused>>
shown  == <<awake, initializing, starting, started, paused, goingHome>>
player == <<calls, predicting, tick, worker>>
vars   == <<at, attempts, kept, startFired, shown, player>>

\* Positions of a request.  A thread of run_player whose loop ended without an
\* error has returned: nothing takes its start back.
Started == {"beginning", "starting", "looping", "returned"}
Runner  == {"awaiting"} \cup Started
Homing  == {"homePausing", "homeFired", "homing", "homed"}
Places  == {"idle", "start", "startFire", "pause", "unpause", "refused", "done"}
           \cup Runner \cup Homing

\* What becomes of a call of player.awake().
Outcomes == {"pending", "ok", "failed"}

\* Positions of a thread in player.pause or player.unpause.
Calls == {"pause", "pauseGate", "unpause", "unpauseGate"}

Some(places) == \E r \in Requests : at[r] \in places
Step(r, from, to) == at[r] = from /\ at' = [at EXCEPT ![r] = to]
Fire(call) == calls' = [calls EXCEPT ![call] = @ + 1]
Move(call, next) ==
  /\ calls[call] > 0
  /\ calls' = IF next = "done" THEN [calls EXCEPT ![call] = @ - 1]
              ELSE [calls EXCEPT ![call] = @ - 1, ![next] = @ + 1]

\* No pause, resume or homing is in progress.
Quiet == (\A c \in Calls : calls[c] = 0) /\ ~Some({"pause", "unpause"} \cup Homing)

\* The player can be awakened once: Player.awake() has bound it to the GUI.
Bound == \E i \in 1..Len(attempts) : attempts[i] = "ok"

Init ==
  /\ at = [r \in Requests |-> "idle"]
  /\ attempts = <<>>
  /\ waits = [r \in Requests |-> 0] /\ wasPaused = [r \in Requests |-> FALSE]
  /\ startFired = FALSE
  /\ awake = FALSE /\ initializing = FALSE /\ starting = FALSE /\ started = FALSE
  /\ paused = FALSE /\ goingHome = FALSE
  /\ calls = [c \in Calls |-> 0]
  /\ predicting = TRUE /\ tick = "none" /\ worker = FALSE

----------------------------------------------------------------------------
(* The page *)

Click(r) == at[r] = "idle" /\ (Patient => Quiet)

\* /api/toggle with a prompt that is new reaches for the client.
ToggleRefused(r) ==
  /\ Click(r) /\ ~Bound
  /\ at' = [at EXCEPT ![r] = "refused"]
  /\ UNCHANGED <<attempts, kept, startFired, shown, player>>

\* /api/toggle: toggle_start_pause reads the status and decides.
Toggle(r) ==
  /\ Click(r)
  /\ at' = [at EXCEPT ![r] = IF ~started THEN "start"
                             ELSE IF paused THEN "unpause" ELSE "pause"]
  /\ UNCHANGED <<attempts, kept, startFired, shown, player>>

\* /api/start: start, whatever the status.
StartClick(r) ==
  /\ Click(r)
  /\ at' = [at EXCEPT ![r] = "start"]
  /\ UNCHANGED <<attempts, kept, startFired, shown, player>>

\* /api/go_home, shown once the session has started: a second click is ignored.
GoHome(r) ==
  /\ Click(r) /\ started
  /\ at' = [at EXCEPT ![r] = IF goingHome THEN "done" ELSE "homePausing"]
  /\ goingHome' = TRUE
  /\ wasPaused' = [wasPaused EXCEPT ![r] = paused]
  /\ UNCHANGED <<attempts, waits, startFired, awake, initializing, starting, started,
                 paused, player>>

----------------------------------------------------------------------------
(* Awake *)

\* Faulty variant: only a pending attempt keeps a second one from being made.
MayAwakeAgain == attempts # <<>> => attempts[Len(attempts)] # "pending"

\* No attempt is under way or has succeeded.
MayAwake == attempts # <<>> => attempts[Len(attempts)] = "failed"

\* _fire_awake, under the start lock.
FireAwake ==
  IF MayAwake
  THEN attempts' = Append(attempts, "pending") /\ initializing' = TRUE
  ELSE UNCHANGED <<attempts, initializing>>

\* /api/awake, and the first half of start().
AwakeClick(r) ==
  /\ Click(r)
  /\ FireAwake
  /\ at' = [at EXCEPT ![r] = "done"]
  /\ UNCHANGED <<kept, startFired, awake, starting, started, paused, goingHome, player>>

StartAwakes(r) ==
  /\ Step(r, "start", "startFire")
  /\ FireAwake
  /\ UNCHANGED <<kept, startFired, awake, starting, started, paused, goingHome, player>>

\* initialize: player.awake() returned or raised.
Initialize(i) ==
  /\ attempts[i] = "pending"
  /\ \/ attempts' = [attempts EXCEPT ![i] = "ok"] /\ awake' = TRUE
     \/ Faults /\ attempts' = [attempts EXCEPT ![i] = "failed"] /\ UNCHANGED awake
  /\ initializing' = FALSE
  /\ UNCHANGED <<at, kept, startFired, starting, started, paused, goingHome, player>>

----------------------------------------------------------------------------
(* Start *)

\* Faulty variant: the page's status is checked instead of _start_fired.
StartFireByStatus(r) ==
  /\ at[r] = "startFire"
  /\ IF started
     THEN at' = [at EXCEPT ![r] = "done"] /\ UNCHANGED <<waits, startFired, starting>>
     ELSE /\ at' = [at EXCEPT ![r] = "awaiting"]
          /\ waits' = [waits EXCEPT ![r] = Len(attempts)]
          /\ startFired' = TRUE /\ starting' = TRUE
  /\ UNCHANGED <<wasPaused, attempts, awake, initializing, started, paused, goingHome,
                 player>>

\* Faulty variant: captures the future of an attempt yet to come.
StartFireEarly(r) ==
  /\ at[r] = "startFire" /\ ~startFired
  /\ at' = [at EXCEPT ![r] = "awaiting"]
  /\ waits' = [waits EXCEPT ![r] = Len(attempts) + 1]
  /\ startFired' = TRUE /\ starting' = TRUE
  /\ UNCHANGED <<wasPaused, attempts, awake, initializing, started, paused, goingHome,
                 player>>

\* start, second half, and _fire_player_start: once, under the start lock.
StartFire(r) ==
  /\ at[r] = "startFire"
  /\ IF startFired
     THEN at' = [at EXCEPT ![r] = "done"] /\ UNCHANGED <<waits, startFired, starting>>
     ELSE /\ at' = [at EXCEPT ![r] = "awaiting"]
          /\ waits' = [waits EXCEPT ![r] = Len(attempts)]
          /\ startFired' = TRUE /\ starting' = TRUE
  /\ UNCHANGED <<wasPaused, attempts, awake, initializing, started, paused, goingHome,
                 player>>

\* Faulty variant: the status is not reset to not paused.
StartFailsPaused(r) ==
  /\ at' = [at EXCEPT ![r] = "done"]
  /\ startFired' = FALSE /\ starting' = FALSE /\ started' = FALSE
  /\ UNCHANGED paused

\* Faulty variant: only a start that got past its initialization is taken back.
StartFailsStarting(r) ==
  /\ at' = [at EXCEPT ![r] = "done"]
  /\ startFired' = FALSE
  /\ started' = FALSE /\ paused' = FALSE
  /\ UNCHANGED starting

\* run_player, when anything in it raised.
StartFails(r) ==
  /\ at' = [at EXCEPT ![r] = "done"]
  /\ startFired' = FALSE
  /\ starting' = FALSE /\ started' = FALSE /\ paused' = FALSE

\* Faulty variant: start does not wait for the attempt to finish.
AwaitedEnough(r) == attempts[waits[r]] # "failed"

Awaited(r) == attempts[waits[r]] = "ok"

\* run_player: awake_future.result() returns or raises.
RunnerAwaits(r) ==
  /\ at[r] = "awaiting"
  /\ \/ /\ Awaited(r)
        /\ at' = [at EXCEPT ![r] = "beginning"]
        /\ starting' = FALSE /\ started' = TRUE
        /\ UNCHANGED <<startFired, paused>>
     \/ attempts[waits[r]] = "failed" /\ StartFails(r)
  /\ UNCHANGED <<attempts, kept, awake, initializing, goingHome, player>>

\* run_player: _begin_episode; without a display there is no recording to join.
RunnerBegins(r) ==
  /\ at[r] = "beginning"
  /\ \/ /\ ~Headless /\ at' = [at EXCEPT ![r] = "starting"]
        /\ UNCHANGED <<startFired, starting, started, paused>>
     \/ (Headless \/ Faults) /\ StartFails(r)
  /\ UNCHANGED <<attempts, kept, awake, initializing, goingHome, player>>

\* run_player: player.start() enters the loop, or returns at once because the
\* worker of an earlier loop is still in its request, or raises.
RunnerStarts(r) ==
  /\ at[r] = "starting"
  /\ \/ /\ at' = [at EXCEPT ![r] = IF worker THEN "returned" ELSE "looping"]
        /\ UNCHANGED <<startFired, starting, started, paused>>
     \/ Faults /\ StartFails(r)
  /\ UNCHANGED <<attempts, kept, awake, initializing, goingHome, player>>

\* The loop ends without an error: its episode is over, or it was told to stop.
\* run_player has nothing left to do, and the page is not told.
LoopReturns(r) ==
  /\ Step(r, "looping", "returned") /\ tick = "none"
  /\ predicting' \in {predicting, FALSE}
  /\ UNCHANGED <<attempts, kept, startFired, shown, calls, tick, worker>>

\* The loop raises, which run_player takes back like a start that failed.  Its
\* prediction worker may be in a request that nobody waits for.
LoopRaises(r) ==
  /\ Faults /\ at[r] = "looping" /\ tick = "none"
  /\ StartFails(r)
  /\ predicting' \in {predicting, FALSE} /\ worker' \in BOOLEAN
  /\ UNCHANGED <<attempts, kept, awake, initializing, goingHome, calls, tick>>

\* That request ends, and with it the worker.
WorkerEnds ==
  /\ worker
  /\ worker' = FALSE
  /\ UNCHANGED <<at, attempts, kept, startFired, shown, calls, predicting, tick>>

----------------------------------------------------------------------------
(* Pause, resume and home *)

Pauses == started /\ ~paused

\* Faulty variant: the player is left alone while the arm is homing.
PauseShownOnly ==
  IF Pauses
  THEN paused' = TRUE /\ IF goingHome THEN UNCHANGED calls ELSE Fire("pause")
  ELSE UNCHANGED <<paused, calls>>

\* pause: the flag, then a thread for player.pause.  Nothing if not running.
PauseShown ==
  IF Pauses THEN paused' = TRUE /\ Fire("pause") ELSE UNCHANGED <<paused, calls>>

Pause(r) ==
  /\ Step(r, "pause", "done")
  /\ PauseShown
  /\ UNCHANGED <<attempts, kept, startFired, awake, initializing, starting, started,
                 goingHome, predicting, tick, worker>>

\* unpause: the flag, the next episode, then a thread for player.unpause.
Unpauses == started /\ paused
UnpauseShown ==
  IF Unpauses
  THEN /\ paused' = FALSE
       /\ \/ ~Headless /\ Fire("unpause")
          \/ (Faults \/ Headless) /\ UNCHANGED calls
  ELSE UNCHANGED <<paused, calls>>

Unpause(r) ==
  /\ Step(r, "unpause", "done")
  /\ UnpauseShown
  /\ UNCHANGED <<attempts, kept, startFired, awake, initializing, starting, started,
                 goingHome, predicting, tick, worker>>

\* go_home: pause(), then the homing thread.
HomePauses(r) ==
  /\ Step(r, "homePausing", "homeFired")
  /\ PauseShown
  /\ UNCHANGED <<attempts, kept, startFired, awake, initializing, starting, started,
                 goingHome, predicting, tick, worker>>

\* move_to_home takes the interface lock, unless it is taken, and resets the arm.
HomeBegins(r) ==
  /\ Step(r, "homeFired", "homing")
  /\ UNCHANGED <<attempts, kept, startFired, shown, player>>

\* _go_home_and_resume: the arm is home; if the reset raised the thread is gone.
HomeEnds(r) ==
  /\ \/ Step(r, "homing", "homed") /\ goingHome' = FALSE
     \/ Faults /\ Step(r, "homing", "done") /\ UNCHANGED goingHome
  /\ UNCHANGED <<attempts, kept, startFired, awake, initializing, starting, started,
                 paused, player>>

\* _go_home_and_resume: resume, unless the page showed a pause at the click.
HomeResumes(r) ==
  /\ Step(r, "homed", "done")
  /\ IF ~wasPaused[r] THEN UnpauseShown ELSE UNCHANGED <<paused, calls>>
  /\ UNCHANGED <<attempts, kept, startFired, awake, initializing, starting, started,
                 goingHome, predicting, tick, worker>>

----------------------------------------------------------------------------
(* The player's threads and the stream *)

\* player.pause: stop_predicting writes the flag ...
PlayerPauses ==
  /\ Move("pause", "pauseGate")
  /\ predicting' = FALSE
  /\ UNCHANGED <<at, attempts, kept, startFired, shown, tick, worker>>

\* ... and closes the stream's gate, which waits until no tick holds the lock.
PlayerPaused ==
  /\ Move("pauseGate", "done") /\ tick = "none"
  /\ UNCHANGED <<at, attempts, kept, startFired, shown, predicting, tick, worker>>

\* player.unpause likewise.
PlayerUnpauses ==
  /\ Move("unpause", "unpauseGate")
  /\ predicting' = TRUE
  /\ UNCHANGED <<at, attempts, kept, startFired, shown, tick, worker>>

PlayerUnpaused ==
  /\ Move("unpauseGate", "done") /\ tick = "none"
  /\ UNCHANGED <<at, attempts, kept, startFired, shown, predicting, tick, worker>>

\* A tick takes the stream's lock and follows the client's flag.
TickBegin ==
  /\ Some({"looping"}) /\ tick = "none" /\ predicting
  /\ tick' = "submitting"
  /\ UNCHANGED <<at, attempts, kept, startFired, shown, calls, predicting, worker>>

\* It commands the arm, waiting for the interface lock while the arm is reset.
TickSends ==
  /\ tick = "submitting" /\ ~Some({"homing"})
  /\ tick' = "none"
  /\ UNCHANGED <<at, attempts, kept, startFired, shown, calls, predicting, worker>>

\* It failed and closes the stream; the page is not told.
TickFails ==
  /\ Faults /\ tick = "submitting"
  /\ tick' = "none" /\ predicting' = FALSE
  /\ UNCHANGED <<at, attempts, kept, startFired, shown, calls, worker>>

----------------------------------------------------------------------------
\* What the threads of a request do next, short of homing the arm.
Continues(r) ==
  \/ StartAwakes(r) \/ StartFire(r) \/ RunnerAwaits(r) \/ RunnerBegins(r) \/ RunnerStarts(r)
  \/ Pause(r) \/ Unpause(r) \/ HomePauses(r) \/ HomeBegins(r) \/ HomeResumes(r)
PlayerThreads == PlayerPauses \/ PlayerPaused \/ PlayerUnpauses \/ PlayerUnpaused
Tick == TickBegin \/ TickSends \/ TickFails

\* All clicks were made and carried out, and no loop runs.
Finished ==
  (\A r \in Requests : at[r] \in {"done", "refused", "returned"}) /\ UNCHANGED vars

Next ==
  \/ \E r \in Requests :
       \/ ToggleRefused(r) \/ Toggle(r) \/ StartClick(r) \/ GoHome(r) \/ AwakeClick(r)
       \/ Continues(r) \/ HomeEnds(r) \/ LoopReturns(r) \/ LoopRaises(r)
  \/ \E i \in 1..Len(attempts) : Initialize(i)
  \/ PlayerThreads \/ Tick \/ WorkerEnds \/ Finished

Spec == Init /\ [][Next]_vars

\* Threads that were started run.  Nothing promises that an initialization or a
\* homing ends: a server that never gets well, or a gripper that never moves, is
\* waited for without a limit.
Fairness ==
  /\ \A r \in Requests : WF_vars(Continues(r))
  /\ WF_vars(PlayerPauses) /\ WF_vars(PlayerUnpauses)
FairSpec == Spec /\ Fairness

----------------------------------------------------------------------------
(* Properties *)

FlagsOK ==
  /\ startFired \in BOOLEAN /\ awake \in BOOLEAN /\ initializing \in BOOLEAN
  /\ starting \in BOOLEAN /\ started \in BOOLEAN /\ paused \in BOOLEAN
  /\ goingHome \in BOOLEAN /\ predicting \in BOOLEAN /\ worker \in BOOLEAN

DataOK ==
  /\ at \in [Requests -> Places]
  /\ attempts \in Seq(Outcomes)
  /\ waits \in [Requests -> 0..Len(attempts)] /\ wasPaused \in [Requests -> BOOLEAN]
  /\ calls \in [Calls -> Nat]
  /\ tick \in {"none", "submitting"}

\* Every variable has its type.
TypeOK == FlagsOK /\ DataOK

\* However often Awake and Start are pressed, one player.awake() at a time is
\* under way, and none after one has succeeded ("each signal fires exactly once").
OneAwake ==
  \A i \in 1..Len(attempts) : i < Len(attempts) => attempts[i] = "failed"

\* At most one thread is on its way into player.start(), in the loop or back from
\* it, retries after failures included ("repeated Start must not launch a second
\* worker").
OneRunner == \A r, s \in Requests : at[r] \in Runner /\ at[s] \in Runner => r = s

\* The loop is entered only after the player's initialization as a whole.
StartsAwake == Some(Started) => Bound /\ awake

\* The page follows the thread of run_player: Starting while it waits for the
\* initialization, then a policy to pause or resume for as long as the thread has
\* not failed, and nothing of it once it has, in the middle of the loop too, so
\* that Start can be pressed again.  A loop that ended without an error is still
\* shown as a policy, as is a start that a late worker turned away.
ShownIsTrue ==
  /\ starting <=> Some({"awaiting"})
  /\ started <=> Some(Started)
  /\ startFired <=> starting \/ started
  /\ paused => started

\* When the page says Paused and no click is being carried out, the arm gets no
\* command ("Manual Pause stops all submissions", README.md:62).
PausedMeansPaused == [][TickSends => ~(paused /\ Quiet)]_vars

\* Once the page no longer shows an initialization, it does not show Starting for
\* ever: an attempt that ends, well or badly, releases the start that waits for it.
\* The initialization itself may take for ever.
StartingEnds == starting /\ ~initializing ~> ~starting

\* A pause that stays on the page reaches the client.
PauseArrives == <>[](paused) => <>[](~predicting)

----------------------------------------------------------------------------
(* The inductive invariant behind the properties of the start *)

\* A future exists before a start captures it, and a start that got past its
\* wait has seen it succeed.
FutureInv ==
  \A r \in Requests :
    /\ at[r] = "startFire" => attempts # <<>>
    /\ at[r] = "awaiting" => waits[r] # 0
    /\ at[r] \in Started => waits[r] # 0 /\ attempts[waits[r]] = "ok"

\* The page shows Awake once an attempt has succeeded.
AwakeInv == awake <=> Bound

IInv == TypeOK /\ OneAwake /\ OneRunner /\ FutureInv /\ AwakeInv /\ ShownIsTrue

(* The inductive invariant behind PausedMeansPaused *)

\* A pause, resume or homing that is carried out.
Carried == {"pause", "unpause"} \cup Homing

\* There is one of them at a time, and it starts with no thread of an earlier one
\* left.
AloneInv == \A r, s \in Requests : at[r] \in Carried /\ at[s] \in Carried => r = s
CleanInv == Some({"pause", "unpause", "homePausing"}) => \A c \in Calls : calls[c] = 0

\* A page that says Paused is not overtaken by a resume: whatever still runs is
\* about to be stopped by the thread of the pause itself.
PausedInv ==
  paused =>
    /\ calls["unpause"] = 0 /\ calls["unpauseGate"] = 0
    /\ predicting => calls["pause"] > 0
    /\ tick # "none" => calls["pause"] + calls["pauseGate"] > 0

\* All this for a user who waits.
PauseInv == AloneInv /\ CleanInv /\ PausedInv
============================================================================
