--------------------------- MODULE ReplayEpisode ----------------------------
(***************************************************************************)
(* KinovaConnection as a whole: the sessions of play.py, or the stand-     *)
(* alone replay of replay_episode.py, whose one thread is the loop's here. *)
(* An interruption (Ctrl+C) may come between any two steps of the replay,  *)
(* in the steps that clean up as well.                                     *)
(*                                                                         *)
(* Time is relative: `ahead' is next_tick less the present and `age' the   *)
(* time since the latest delta was sent, both cut off at two periods.      *)
(***************************************************************************)
EXTENDS KinovaConnection

CONSTANTS
  Frames,     \* deltas of the episode
  Dt,         \* 1 / fps
  Durations   \* times that sending a delta, or anything else, may take

ASSUME ReplayAssumption == Frames \in Nat \ {0} /\ Dt \in Nat \ {0} /\ Durations \subseteq Nat

VARIABLES
  replay,     \* program counter of replay()
  sent,       \* deltas begun so far: the loop variable `frame'
  records,    \* len(records)
  finished,   \* the body of the try statement came to its end
  stopFailed, \* base.Stop() raised or was interrupted
  closed,     \* sessions closed: udp_connection.__exit__, tcp_connection.__exit__
  logged,     \* the log was written
  ahead, age

replayVars == <<replay, sent, records, finished, stopFailed, closed, logged, ahead, age>>
vars == <<connVars, replayVars>>

AtMost(a, b)  == IF a <= b THEN a ELSE b
AtLeast(a, b) == IF a >= b THEN a ELSE b

Elapse(d) ==
  /\ ahead' = AtLeast(ahead - d, -2 * Dt)
  /\ age' = AtMost(age + d, 2 * Dt)

Init ==
  /\ ConnectionInit
  /\ replay = IF mode = "replay" THEN "awaking" ELSE "none"
  /\ sent = 0 /\ records = 0 /\ finished = FALSE /\ stopFailed = FALSE
  /\ closed = {} /\ logged = FALSE
  /\ ahead = 0 /\ age = 2 * Dt

\* In the try statement: an error or Ctrl+C goes on with base.Stop().
Body == {"awaking", "feedback", "pacing", "sending"}

\* awake(home=False)
ReplayAwakes ==
  /\ replay = "awaking"
  /\ StartFeedback /\ killed' = FALSE
  /\ replay' = "feedback"
  /\ UNCHANGED <<mode, session, predicting, goingHome, callVars, numbered, pending, completed,
                 known, reports, armVars, disturbed, faults, sent, records, finished,
                 stopFailed, closed, logged, ahead, age>>

\* Seven joint angles, near the recorded ones.
ReplayStarts ==
  /\ replay = "feedback" /\ known
  /\ replay' = "pacing"
  /\ ahead' = 0
  /\ UNCHANGED <<connVars, sent, records, finished, stopFailed, closed, logged, age>>

\* No feedback within three seconds, or a start pose that differs.
ReplayRefuses ==
  /\ replay = "feedback"
  /\ replay' = "stopping"
  /\ UNCHANGED <<connVars, sent, records, finished, stopFailed, closed, logged, ahead, age>>

\* The tool is too low, or would be after the next delta.
ReplayTooLow ==
  /\ replay = "pacing" /\ sent < Frames
  /\ replay' = "stopping"
  /\ UNCHANGED <<connVars, sent, records, finished, stopFailed, closed, logged, ahead, age>>

\* Sleep until next_tick, read the state, check the floor, send the delta.
ReplaySends ==
  /\ replay = "pacing" /\ sent < Frames
  /\ BeginTwist("loop", "move")
  /\ sent' = sent + 1
  /\ age' = 0
  /\ \E late \in Durations : ahead' = AtLeast(AtMost(ahead, 0) - late, -2 * Dt)
  /\ replay' = "sending"
  /\ UNCHANGED <<stage, faults, records, finished, stopFailed, closed, logged>>

\* Faulty variant: the schedule is kept after a slow call.
ReplayRecordsCatchingUp ==
  /\ replay = "sending" /\ call["loop"] = "idle" /\ ~error["loop"]
  /\ records' = records + 1
  /\ \E d \in Durations :
       /\ age' = AtMost(age + d, 2 * Dt)
       /\ ahead' = AtLeast(ahead + Dt - d, -2 * Dt)
  /\ replay' = "pacing"
  /\ UNCHANGED <<connVars, sent, finished, stopFailed, closed, logged>>

\* The call took time d.  next_tick = max(next_tick + dt, before + dt), where
\* `before' is never earlier than next_tick.
ReplayRecords ==
  /\ replay = "sending" /\ call["loop"] = "idle" /\ ~error["loop"]
  /\ records' = records + 1
  /\ \E d \in Durations :
       /\ age' = AtMost(age + d, 2 * Dt)
       /\ ahead' = AtLeast(Dt - d, -2 * Dt)
  /\ replay' = "pacing"
  /\ UNCHANGED <<connVars, sent, finished, stopFailed, closed, logged>>

\* Faulty variant: the replay goes on with the next delta.
ReplayFailsOn ==
  /\ replay = "sending" /\ call["loop"] = "idle" /\ error["loop"]
  /\ replay' = "pacing"
  /\ UNCHANGED <<connVars, sent, records, finished, stopFailed, closed, logged, ahead, age>>

ReplayFails ==
  /\ replay = "sending" /\ call["loop"] = "idle" /\ error["loop"]
  /\ replay' = "stopping"
  /\ UNCHANGED <<connVars, sent, records, finished, stopFailed, closed, logged, ahead, age>>

ReplayFinishes ==
  /\ replay = "pacing" /\ sent = Frames
  /\ finished' = TRUE
  /\ replay' = "stopping"
  /\ UNCHANGED <<connVars, sent, records, stopFailed, closed, logged, ahead, age>>

\* Ctrl+C between two steps of the body, wherever its call is.
Interrupt ==
  /\ replay \in Body /\ Fault
  /\ replay' = "stopping"
  /\ Goto("loop", "idle")
  /\ UNCHANGED <<stage, kind, error, twist, subscribed, outcome, numbered, feedVars,
                 armVars, disturbed, sent, records, finished, stopFailed, closed, logged, ahead,
                 age>>

\* finally: Stop, and whatever comes of it ...
ReplayStops ==
  /\ replay = "stopping"
  /\ \/ Command(Rest) /\ UNCHANGED <<stopFailed, faults>>
     \/ Fault /\ stopFailed' = TRUE /\ UNCHANGED <<motion, events>>
  /\ replay' = "killing"
  /\ UNCHANGED <<stage, callVars, numbered, feedVars, executed, disturbed, sent, records,
                 finished, closed, logged, ahead, age>>

\* ... end the feedback thread and wait two seconds for it, ...
ReplayKills ==
  /\ replay = "killing"
  /\ killed' = TRUE
  /\ replay' = "closing"
  /\ UNCHANGED <<mode, session, predicting, goingHome, callVars, numbered, feedVars, armVars,
                 disturbed, faults, sent, records, finished, stopFailed, closed, logged, ahead,
                 age>>

\* ... close the UDP session, whatever comes of it the TCP session, and write
\* the log if that went well.  A second Ctrl+C cuts the rest short.
ReplayCloses ==
  /\ replay = "closing"
  /\ \/ closed' = {"udp", "tcp"} /\ logged' = TRUE /\ UNCHANGED faults
     \/ /\ Fault
        /\ \/ closed' = {"tcp"} /\ logged' = TRUE
           \/ closed' \in {{}, {"udp"}} /\ UNCHANGED logged
  /\ replay' = "done"
  /\ UNCHANGED <<stage, callVars, numbered, feedVars, armVars, disturbed, sent, records,
                 finished, stopFailed, ahead, age>>

Replay ==
  \/ ReplayAwakes \/ ReplayStarts \/ ReplayRefuses \/ ReplayTooLow \/ ReplaySends
  \/ ReplayRecords \/ ReplayFails \/ ReplayFinishes \/ ReplayStops \/ ReplayKills
  \/ ReplayCloses

Next ==
  \/ (ConnectionNext \/ Session) /\ UNCHANGED replayVars
  \/ Replay \/ Interrupt

Spec == Init /\ [][Next]_vars

\* RPCs return, or raise after their timeouts.  Of the arm, its feedback and the gripper
\* that home waits for nothing is assumed.
FairSpec ==
  /\ Spec /\ WF_vars(Replay)
  /\ \A t \in Threads : WF_vars(TimedCalls(t) /\ UNCHANGED replayVars)

----------------------------------------------------------------------------
(* Properties *)

CallSteps == {"idle", "sending", "tracing", "jointing", "gripping", "preparing",
              "executing", "waiting"}

FlagsOK ==
  /\ predicting \in BOOLEAN /\ goingHome \in BOOLEAN /\ known \in BOOLEAN
  /\ killed \in BOOLEAN /\ disturbed \in BOOLEAN
  /\ error \in [Threads -> BOOLEAN] /\ subscribed \in [Threads -> BOOLEAN]
  /\ finished \in BOOLEAN /\ stopFailed \in BOOLEAN /\ logged \in BOOLEAN

DataOK ==
  /\ mode \in Modes /\ session \in {"asleep", "awaking", "running", "exited"}
  /\ call \in [Threads -> CallSteps]
  /\ kind \in [Threads -> {"zero", "move", "home", "waypoint", "joints"}]
  /\ twist \in [Threads -> 0..MaxTwists]
  /\ outcome \in [Threads -> {"none", "end", "abort"}]
  /\ numbered \in 0..MaxTwists /\ pending \subseteq 1..numbered
  /\ feed \in [Feeds -> {"none", "polling", "reporting", "ended"}]
  /\ completed \in [Feeds -> SUBSET (1..numbered)]
  /\ executed \in 0..MaxActions /\ motion \in {Twisting} \cup 0..executed
  /\ events \subseteq [action : 1..executed, event : {"end", "abort"}]
  /\ reports \in [1..MaxTwists -> Nat] /\ faults \in 0..MaxFaults
  /\ replay \in Body \cup {"none", "stopping", "killing", "closing", "done"}
  /\ sent \in 0..Frames /\ records \in {sent, sent - 1} /\ closed \subseteq {"udp", "tcp"}
  /\ ahead \in Int /\ age \in Nat

\* Every variable has its type, and a replay's records lack at most the delta
\* that is being sent or could not be.
TypeOK == FlagsOK /\ DataOK

\* "Each target ... waits for completion before the next one" (README.md:246): no
\* waypoint, nor homing, is executed while an action is under way, though a call takes
\* any notification for its own: after pauses in the middle of a waypoint, aborts,
\* refusals and failures, as long as no call has given up an action that it had sent
\* and no homing has been under way together with a waypoint, which nothing in the code
\* prevents (Home is a thread of its own, and Resume stays available while it runs).
WaitsForCompletion ==
  [][executed' > executed /\ mode = "waypoint" /\ ~disturbed => motion <= Rest]_vars

\* However many threads send twists and however many feedback threads publish,
\* the feedback to a twist is reported once (_send_twist_command: "Send and trace
\* the exact twist, RPC outcome, and next feedback pose").
TracedOnce == \A n \in 1..MaxTwists : reports[n] + (IF n \in pending THEN 1 ELSE 0) <= 1

\* A velocity never outlives its sender: the loop that has ended has halted the
\* arm whoever paused it meanwhile ("make sure the arm isn't left coasting on a
\* stale velocity command"), and a replay leaves it at rest however it ends
\* ("Also stop on Ctrl+C, command failures, or a failed start-pose check"), unless
\* the command to halt itself fails.
ComesToRest ==
  /\ session = "exited" /\ call["loop"] = "idle" /\ ~error["loop"] => motion # Twisting
  /\ replay = "done" /\ ~stopFailed => motion = Rest

\* Deltas are a period apart at least, however late the replay wakes up and
\* however long its calls take ("No catch-up bursts after a slow RPC").
KeepsDistance == [][sent' > sent /\ sent > 0 => age + AtLeast(ahead, 0) >= Dt]_vars

\* No call waits for ever for the end of an action, and a replay comes to its
\* end though the arm may never move and no feedback may come.
CallsEnd ==
  /\ \A t \in Threads : []<>(call[t] # "waiting")
  /\ []<>(mode = "replay" => replay = "done")

----------------------------------------------------------------------------
(* The inductive invariant *)

\* A record for every delta that was sent, before the next one is.
RecordsInv ==
  /\ replay \in {"awaking", "feedback"} => sent = 0
  /\ replay \in {"awaking", "feedback", "pacing"} => records = sent
  /\ replay = "sending" => sent > 0 /\ records = sent - 1

\* The trace of the twist is in the thread's hands.
InHand(t) == call[t] \in {"sending", "tracing"}

\* A trace is at one place: in the hands of its thread, on the table, or with the
\* feedback thread that took it; and it is not reported before it is gone.
TraceInv ==
  /\ \A t \in Threads : InHand(t) =>
       /\ twist[t] \in 1..numbered /\ twist[t] \notin pending /\ reports[twist[t]] = 0
       /\ \A f \in Feeds : twist[t] \notin completed[f]
       /\ \A u \in Threads : InHand(u) /\ twist[u] = twist[t] => u = t
  /\ \A n \in pending : reports[n] = 0 /\ \A f \in Feeds : n \notin completed[f]
  /\ \A f \in Feeds : \A n \in completed[f] :
       reports[n] = 0 /\ \A g \in Feeds : n \in completed[g] => g = f
  /\ \A n \in 1..MaxTwists : reports[n] <= 1 /\ (n > numbered => reports[n] = 0)

\* Who may be doing what: a replay has one thread; the threads of the page come after
\* the session has begun; those that pause only halt the arm, the one that homes does
\* nothing else; and a thread that does nothing has forgotten what its call was.
StageInv ==
  /\ mode = "replay" <=> replay # "none"
  /\ mode = "replay" => session = "asleep" /\ (replay # "sending" => call["loop"] = "idle")
  /\ session \in {"asleep", "awaking"} =>
       ~goingHome /\ \A t \in Threads \ {"loop"} : call[t] = "idle"
  /\ \A p \in Pausers : call[p] \in {"idle", "sending", "tracing"} /\ kind[p] = "zero"
  /\ call["home"] \in {"idle", "preparing", "executing", "waiting"}
  /\ kind["home"] \in {"zero", "home"}
  /\ kind["home"] = "home" => goingHome
  /\ kind["loop"] = "home" => session = "awaking"
  /\ mode = "waypoint" => kind["loop"] \notin {"move", "joints"} /\ call["loop"] # "jointing"
  /\ \A t \in Threads :
       /\ call[t] \in {"preparing", "executing", "waiting"} => kind[t] \in {"home", "waypoint"}
       /\ mode # "replay" /\ call[t] = "idle" => kind[t] = "zero"

\* The loop has ended: all that is left of it is the command that halts the arm.
RestInv ==
  /\ session = "exited" =>
       /\ kind["loop"] = "zero" /\ call["loop"] \in {"idle", "sending", "tracing"}
       /\ call["loop"] # "sending" /\ ~error["loop"] => motion # Twisting
  /\ replay \in {"killing", "closing", "done"} /\ ~stopFailed => motion = Rest

\* An undisturbed action, and its one notification, belong to the thread that waits
\* for them.
WaitInv ==
  /\ kind["loop"] = "waypoint" => kind["home"] # "home"
  /\ motion > Rest => events = {}
  /\ \A e, f \in events : e = f
  /\ motion > Rest \/ events # {} =>
       \E t \in Threads : call[t] = "waiting" /\ outcome[t] = "none"
  /\ \A t \in Threads : call[t] = "executing" => outcome[t] = "none"

\* The next delta is due a period after the latest one at the earliest.
DistanceInv == replay = "pacing" /\ sent > 0 => age + AtLeast(ahead, 0) >= Dt

\* The inductive invariant.
IInv ==
  /\ TypeOK /\ RecordsInv /\ TraceInv /\ StageInv /\ RestInv /\ DistanceInv
  /\ mode = "waypoint" /\ ~disturbed => WaitInv
==============================================================================
