-------------------------- MODULE KinovaConnection --------------------------
(***************************************************************************)
(* connections/kinova.py as several threads use it at the same time: the  *)
(* one that awakes the connection and then runs the serial loop, the one   *)
(* that sends the arm home for the page, and the threads of player.pause.  *)
(* Nothing orders them: gui.py starts each and waits for none.  Every call *)
(* of the Kortex API may fail, before or after the arm has received it.    *)
(*                                                                         *)
(* The arm is external: it executes one command at a time, a new command   *)
(* takes over, and the end or abort of an action is published some time    *)
(* after it, to whoever is subscribed then.  The code does not look at     *)
(* which action a notification is about.  Actions (waypoints, Retract) are *)
(* numbered in the order in which they are executed, twists by the code.   *)
(***************************************************************************)
EXTENDS Integers

CONSTANTS
  Pausers,     \* threads of player.pause
  Feeds,       \* feedback threads, one for each awake()
  MaxActions,  \* bound: actions executed by the arm
  MaxTwists,   \* bound: twists numbered
  MaxFaults    \* bound: failures of a run

ASSUME KinovaAssumption ==
  /\ Feeds \subseteq Nat /\ MaxActions \in Nat /\ MaxTwists \in Nat /\ MaxFaults \in Nat
  /\ {"loop", "home"} \cap Pausers = {}

Threads == {"loop", "home"} \cup Pausers
Modes == {"waypoint", "delta", "replay"}

VARIABLES
  mode,        \* how actions are executed; replay is replay_episode.py
  session,     \* where the loop's thread is in the life of the session
  predicting,  \* client.predicting
  goingHome,   \* _status["going_home"]
  call,        \* the step of each thread's call of the connection
  kind,        \* what each thread's call is
  error,       \* whether the call has raised, kept after it is over
  twist,       \* the number of each thread's latest twist
  subscribed,  \* whether a handler of the thread's call is subscribed
  outcome,     \* `completed' and outcome["event"] of the thread's call
  numbered,    \* _twist_command_sequence
  pending,     \* the keys of _pending_twist_feedback
  feed,        \* the step of each feedback thread
  completed,   \* its local: the traces it is about to report
  known,       \* _latest_feedback has come from the arm
  killed,      \* kill_the_thread
  motion,      \* external: 0 at rest, n > 0 executes action n, -1 a twist
  executed,    \* external: actions received so far
  events,      \* external: notifications yet to be published
  reports,     \* history: how often each twist's feedback was reported
  disturbed,   \* history: a call gave up an action that it had sent, or a homing
               \* and a waypoint were under way at the same time
  faults       \* history: failures, bounded by MaxFaults

callVars == <<call, kind, error, twist, subscribed, outcome>>
feedVars == <<pending, feed, completed, known, reports>>
armVars  == <<motion, executed, events>>
stage    == <<mode, session, predicting, goingHome, killed>>
connVars == <<stage, callVars, numbered, feedVars, armVars, disturbed, faults>>

Rest == 0
Twisting == -1

ConnectionInit ==
  /\ mode \in Modes
  /\ session = "asleep" /\ predicting = TRUE /\ goingHome = FALSE
  /\ call = [t \in Threads |-> "idle"] /\ kind = [t \in Threads |-> "zero"]
  /\ error = [t \in Threads |-> FALSE]
  /\ twist = [t \in Threads |-> 0]
  /\ subscribed = [t \in Threads |-> FALSE] /\ outcome = [t \in Threads |-> "none"]
  /\ numbered = 0 /\ pending = {}
  /\ feed = [f \in Feeds |-> "none"] /\ completed = [f \in Feeds |-> {}]
  /\ known = FALSE /\ killed = FALSE
  /\ motion = Rest /\ executed = 0 /\ events = {}
  /\ reports = [n \in 1..MaxTwists |-> 0] /\ disturbed = FALSE /\ faults = 0

----------------------------------------------------------------------------
(* The arm *)

\* A command takes over: an action it cuts short is aborted.
Command(m) ==
  /\ motion' = m
  /\ events' = IF motion > 0 THEN events \cup {[action |-> motion, event |-> "abort"]}
               ELSE events

ExecuteAction ==
  /\ executed < MaxActions
  /\ executed' = executed + 1
  /\ Command(executed + 1)

\* An action ends by itself or is aborted by the arm.
ArmEnds ==
  /\ motion > 0
  /\ motion' = Rest
  /\ \E e \in {"end", "abort"} : events' = events \cup {[action |-> motion, event |-> e]}
  /\ UNCHANGED <<stage, callVars, numbered, feedVars, executed, disturbed, faults>>

\* on_action_notification of every handler that is subscribed: an END or an
\* ABORT, of whatever action, completes the call.
Publish ==
  \E e \in events :
    /\ events' = events \ {e}
    /\ outcome' = [t \in Threads |-> IF subscribed[t] THEN e.event ELSE outcome[t]]
    /\ UNCHANGED <<stage, call, kind, error, twist, subscribed, numbered, feedVars,
                   motion, executed, disturbed, faults>>

----------------------------------------------------------------------------
(* Parts of a call *)

\* One more RPC fails.
Fault == faults < MaxFaults /\ faults' = faults + 1

Goto(t, step) == call' = [call EXCEPT ![t] = step]

\* The call returns, or raises, and its locals are gone.
Return(t, failed) ==
  /\ Goto(t, "idle")
  /\ kind' = [kind EXCEPT ![t] = "zero"]
  /\ error' = [error EXCEPT ![t] = failed]

Begin(t, k, step) ==
  /\ call[t] = "idle"
  /\ kind' = [kind EXCEPT ![t] = k]
  /\ error' = [error EXCEPT ![t] = FALSE]
  /\ Goto(t, step)

----------------------------------------------------------------------------
(* _send_twist_command: a delta, or the empty delta that halts the arm *)

BeginTwist(t, k) ==
  /\ numbered < MaxTwists
  /\ numbered' = numbered + 1
  /\ twist' = [twist EXCEPT ![t] = numbered + 1]
  /\ Begin(t, k, "sending")
  /\ UNCHANGED <<subscribed, outcome, feedVars, armVars, disturbed>>

\* An error of SendTwistCommand is remembered; the arm may have got the command.
SendTwist(t) ==
  /\ call[t] = "sending"
  /\ \/ /\ Command(IF kind[t] = "move" THEN Twisting ELSE Rest)
        /\ UNCHANGED <<error, faults>>
     \/ /\ Fault
        /\ error' = [error EXCEPT ![t] = TRUE]
        /\ \/ Command(IF kind[t] = "move" THEN Twisting ELSE Rest)
           \/ UNCHANGED <<motion, events>>
  /\ Goto(t, "tracing")
  /\ UNCHANGED <<stage, kind, twist, subscribed, outcome, numbered, feedVars,
                 executed, disturbed>>

\* Leave a trace for the next feedback, then go on or raise the error.
TraceTwist(t) ==
  /\ call[t] = "tracing"
  /\ pending' = pending \cup {twist[t]}
  /\ IF error[t] \/ kind[t] = "zero"
     THEN Return(t, error[t])
     ELSE Goto(t, "gripping") /\ UNCHANGED <<kind, error>>
  /\ twist' = [twist EXCEPT ![t] = 0]
  /\ UNCHANGED <<stage, subscribed, outcome, numbered, feed, completed, known,
                 reports, armVars, disturbed, faults>>

----------------------------------------------------------------------------
(* The other handlers of apply_action *)

\* handle_joint_angles executes an action and waits for nothing, the joint
\* speeds of handle_joint_deltas and handle_joint_velocities_7dof act like a twist.
SendJoints(t) ==
  /\ call[t] = "jointing"
  /\ \/ /\ \/ ExecuteAction
           \/ Command(Twisting) /\ UNCHANGED executed
        /\ Goto(t, "gripping") /\ UNCHANGED <<kind, error, faults>>
     \/ Fault /\ Return(t, TRUE) /\ UNCHANGED armVars
  /\ UNCHANGED <<stage, twist, subscribed, outcome, numbered, feedVars, disturbed>>

\* handle_gripper_command, if the action says anything of the gripper.
Grip(t) ==
  /\ call[t] = "gripping"
  /\ \/ Return(t, FALSE) /\ UNCHANGED faults
     \/ Fault /\ Return(t, TRUE)
  /\ UNCHANGED <<stage, twist, subscribed, outcome, numbered, feedVars, armVars,
                 disturbed>>

----------------------------------------------------------------------------
(* apply_action_waypoint and move_to_home *)

\* The handler is subscribed, `completed' is a new event.
Subscribe(t) ==
  /\ subscribed' = [subscribed EXCEPT ![t] = TRUE]
  /\ outcome' = [outcome EXCEPT ![t] = "none"]
  /\ Goto(t, "executing")

\* A waypoint's target is computed, refused or reached already; else
\* ValidateWaypointList, up to three times with lower speeds, and subscribe.
PrepareWaypoint(t) ==
  /\ call[t] = "preparing" /\ kind[t] = "waypoint"
  /\ \/ Subscribe(t) /\ UNCHANGED <<kind, error, faults>>
     \/ Fault /\ Return(t, TRUE) /\ UNCHANGED <<subscribed, outcome>>
     \/ Goto(t, "gripping") /\ UNCHANGED <<kind, error, subscribed, outcome, faults>>
  /\ UNCHANGED <<stage, twist, numbered, feedVars, armVars, disturbed>>

\* Clear the faults, wait for the arm to be ready, or three seconds, and without a
\* bound for the gripper to open, look for the action Retract and subscribe.
PrepareHome(t) ==
  /\ call[t] = "preparing" /\ kind[t] = "home"
  /\ \/ Subscribe(t) /\ UNCHANGED <<kind, error, faults>>
     \/ Fault /\ Return(t, TRUE) /\ UNCHANGED <<subscribed, outcome>>
  /\ UNCHANGED <<stage, twist, numbered, feedVars, armVars, disturbed>>

\* ExecuteWaypointTrajectory or ExecuteAction.  After an error a waypoint's
\* handler is taken back, home's is left with nobody to read its event.
Execute(t) ==
  /\ call[t] = "executing"
  /\ \/ /\ ExecuteAction /\ Goto(t, "waiting")
        /\ UNCHANGED <<kind, error, subscribed, outcome, disturbed, faults>>
     \/ /\ Fault /\ Return(t, TRUE)
        /\ \/ ExecuteAction /\ disturbed' = TRUE
           \/ UNCHANGED <<armVars, disturbed>>
        /\ subscribed' = [subscribed EXCEPT ![t] = FALSE]
        /\ outcome' = [outcome EXCEPT ![t] = "none"]
  /\ UNCHANGED <<stage, twist, numbered, feedVars>>

\* completed.wait returns, and the handler is taken back.  An abort is an error
\* of a waypoint and as good as an end for home.
Completed(t) ==
  /\ call[t] = "waiting" /\ outcome[t] # "none"
  /\ subscribed' = [subscribed EXCEPT ![t] = FALSE]
  /\ outcome' = [outcome EXCEPT ![t] = "none"]
  /\ IF kind[t] = "waypoint" /\ outcome[t] = "end"
     THEN Goto(t, "gripping") /\ UNCHANGED <<kind, error>>
     ELSE Return(t, kind[t] = "waypoint")
  /\ UNCHANGED <<stage, twist, numbered, feedVars, armVars, disturbed, faults>>

\* The call gives up, and the handler is taken back.
GiveUp(t, k) ==
  /\ call[t] = "waiting" /\ outcome[t] = "none" /\ kind[t] = k
  /\ subscribed' = [subscribed EXCEPT ![t] = FALSE]
  /\ outcome' = [outcome EXCEPT ![t] = "none"]

\* Faulty variant: a waypoint that was never answered counts as completed.
TimesOutQuietly(t) ==
  /\ GiveUp(t, "waypoint")
  /\ Return(t, FALSE)
  /\ UNCHANGED <<stage, twist, numbered, feedVars, armVars, disturbed, faults>>

\* Faulty variant: the call waits as long as the waypoint takes.
TimesOutNever(t) == FALSE /\ UNCHANGED connVars

\* A waypoint times out and is stopped, if Stop succeeds.
TimesOut(t) ==
  /\ GiveUp(t, "waypoint") /\ Return(t, TRUE) /\ disturbed' = TRUE
  /\ \/ Command(Rest) /\ UNCHANGED faults
     \/ Fault /\ UNCHANGED <<motion, events>>
  /\ UNCHANGED <<stage, twist, numbered, feedVars, executed>>

\* Home times out: the arm goes on moving.
HomeTimesOut(t) ==
  /\ GiveUp(t, "home") /\ Return(t, TRUE) /\ disturbed' = TRUE
  /\ UNCHANGED <<stage, twist, numbered, feedVars, armVars, faults>>

\* All that ends by itself, which the wait for the gripper need not do.
TimedCalls(t) ==
  \/ SendTwist(t) \/ TraceTwist(t) \/ SendJoints(t) \/ Grip(t)
  \/ PrepareWaypoint(t) \/ Execute(t) \/ Completed(t) \/ TimesOut(t) \/ HomeTimesOut(t)
Calls(t) == TimedCalls(t) \/ PrepareHome(t)

----------------------------------------------------------------------------
(* The feedback threads *)

StartFeedback ==
  \E f \in Feeds :
    /\ feed[f] = "none" /\ \A g \in Feeds : g < f => feed[g] # "none"
    /\ feed' = [feed EXCEPT ![f] = "polling"]

\* Faulty variant: the traces are taken off the table only when reported.
PublishFeedbackKeeping(f) ==
  /\ feed[f] = "polling" /\ ~killed
  /\ known' = TRUE
  /\ completed' = [completed EXCEPT ![f] = pending]
  /\ feed' = [feed EXCEPT ![f] = "reporting"]
  /\ UNCHANGED <<stage, callVars, numbered, pending, reports, armVars, disturbed, faults>>

\* RefreshFeedback returns, what it says is left open.  Under the lock: the
\* sequence number that goes up here is above that of every trace on the table,
\* so all of them are completed.
PublishFeedback(f) ==
  /\ feed[f] = "polling" /\ ~killed
  /\ known' = TRUE
  /\ completed' = [completed EXCEPT ![f] = pending]
  /\ pending' = {}
  /\ feed' = [feed EXCEPT ![f] = IF pending = {} THEN "polling" ELSE "reporting"]
  /\ UNCHANGED <<stage, callVars, numbered, reports, armVars, disturbed, faults>>

\* report_twist_feedback for each of them, without the lock.
ReportFeedback(f) ==
  /\ feed[f] = "reporting"
  /\ reports' = [n \in 1..MaxTwists |-> IF n \in completed[f] THEN reports[n] + 1
                                        ELSE reports[n]]
  /\ pending' = pending \ completed[f]
  /\ completed' = [completed EXCEPT ![f] = {}]
  /\ feed' = [feed EXCEPT ![f] = "polling"]
  /\ UNCHANGED <<stage, callVars, numbered, known, armVars, disturbed, faults>>

EndFeedback(f) ==
  /\ feed[f] = "polling" /\ killed
  /\ feed' = [feed EXCEPT ![f] = "ended"]
  /\ UNCHANGED <<stage, callVars, numbered, pending, completed, known, reports, armVars,
                 disturbed, faults>>

Feedback(f) == PublishFeedback(f) \/ ReportFeedback(f) \/ EndFeedback(f)

----------------------------------------------------------------------------
(* The session: Player.awake, the serial loop, Pause, Home and Resume *)

\* awake(home=True)
Awake ==
  /\ session = "asleep" /\ mode # "replay"
  /\ Begin("loop", "home", "preparing")
  /\ session' = "awaking"
  /\ UNCHANGED <<mode, predicting, goingHome, killed, twist, subscribed, outcome,
                 numbered, feedVars, armVars, disturbed, faults>>

\* Home is reached: a feedback thread for each time.  What else Player.awake
\* does may fail, and may then be repeated.
Awoken ==
  /\ session = "awaking" /\ call["loop"] = "idle"
  /\ \/ error["loop"] /\ session' = "asleep" /\ UNCHANGED <<feed, killed, faults>>
     \/ /\ ~error["loop"] /\ StartFeedback /\ killed' = FALSE
        /\ \/ session' = "running" /\ UNCHANGED faults
           \/ session' = "asleep" /\ Fault
  /\ UNCHANGED <<mode, predicting, goingHome, callVars, numbered, pending, completed, known,
                 reports, armVars, disturbed>>

\* The loop finds that it predicts and applies an action; one that raised is
\* skipped.  Nothing keeps it from a waypoint while the arm is sent home.
ApplyAction ==
  /\ session = "running" /\ predicting
  /\ \/ mode = "delta" /\ BeginTwist("loop", "move")
     \/ /\ \/ /\ mode = "waypoint" /\ Begin("loop", "waypoint", "preparing")
              /\ disturbed' = (disturbed \/ kind["home"] = "home")
           \/ /\ mode = "delta" /\ Begin("loop", "joints", "jointing")
              /\ UNCHANGED disturbed
        /\ UNCHANGED <<twist, subscribed, outcome, numbered, feedVars, armVars>>
  /\ UNCHANGED <<stage, faults>>

\* The queue is empty: halt the arm before asking for a chunk.
HaltForChunk ==
  /\ session = "running" /\ predicting
  /\ BeginTwist("loop", "zero")
  /\ UNCHANGED <<stage, faults>>

\* Faulty variant: nothing is sent when the loop ends.
LeaveLoopMoving ==
  /\ session = "running" /\ call["loop"] = "idle"
  /\ session' = "exited"
  /\ UNCHANGED <<mode, predicting, goingHome, killed, callVars, numbered, feedVars, armVars,
                 disturbed, faults>>

\* The loop ends, for a reason of its own or because it is stopped, and halts
\* the arm.
LeaveLoop ==
  /\ session = "running"
  /\ BeginTwist("loop", "zero")
  /\ session' = "exited"
  /\ UNCHANGED <<mode, predicting, goingHome, killed, faults>>

\* Player.pause, in a thread of its own: no more predictions, then halt the arm.
\* The loop's call in progress is not waited for, nor is the homing.
OnPage == session \in {"running", "exited"}

Pause(p) ==
  /\ OnPage
  /\ predicting' = FALSE
  /\ BeginTwist(p, "zero")
  /\ UNCHANGED <<mode, session, goingHome, killed, faults>>

\* go_home starts the thread of _go_home_and_resume, one at a time.  The pause that
\* goes with it is a thread like any other, and may come late.
GoHome ==
  /\ OnPage /\ ~goingHome
  /\ goingHome' = TRUE
  /\ Begin("home", "home", "preparing")
  /\ disturbed' = (disturbed \/ kind["loop"] = "waypoint")
  /\ UNCHANGED <<mode, session, predicting, killed, twist, subscribed, outcome,
                 numbered, feedVars, armVars, faults>>

\* The arm is home.  A homing that raised has taken its thread with it, and the page
\* shows it for ever.
Homed ==
  /\ goingHome /\ call["home"] = "idle" /\ ~error["home"]
  /\ goingHome' = FALSE
  /\ UNCHANGED <<mode, session, predicting, killed, callVars, numbered, feedVars, armVars,
                 disturbed, faults>>

\* Player.unpause, by the user at any time, while the arm is homing too, or after it.
Resume ==
  /\ OnPage
  /\ predicting' = TRUE
  /\ UNCHANGED <<mode, session, goingHome, killed, callVars, numbered, feedVars, armVars,
                 disturbed, faults>>

Arm == ArmEnds \/ Publish
ConnectionNext ==
  \/ \E t \in Threads : Calls(t)
  \/ \E f \in Feeds : Feedback(f)
  \/ Arm
Session ==
  \/ Awake \/ Awoken \/ ApplyAction \/ HaltForChunk \/ LeaveLoop
  \/ (\E p \in Pausers : Pause(p)) \/ GoHome \/ Homed \/ Resume
============================================================================
