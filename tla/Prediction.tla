----------------------------- MODULE Prediction -----------------------------
(***************************************************************************)
(* One launch of play.py from its arguments to the arm: the configuration  *)
(* and its training references are checked, the cameras are awakened, and  *)
(* the inference loop goes on observing, asking the model server, decoding *)
(* the answer and executing it, while the capture threads go on.  What the *)
(* loop does about pauses, schedules and failures is the subject of        *)
(* SerialLoop and TidybotStream: here a failure just ends the prediction.  *)
(***************************************************************************)
EXTENDS CameraSet, GrootTransforms

VARIABLES
  config, execution, source,   \* the arguments of the launch
  jointBranch, qRef,           \* the references the server configuration holds
  loop,       \* where the launch, later the inference loop, is
  looking,    \* position in CameraOrder while an observation is put together
  views,      \* its vision: images by historical index, <<>> without any
  request,
  kind        \* what kind of action the chunk in execution consists of

launch == <<config, execution, source, jointBranch, qRef>>
vars   == <<cameras, launch, loop, looking, views, request, kind>>

NoView    == <<>>
NoRequest == <<>>
NoViews   == [c \in Cameras |-> NoView]
NoKind    == "none"

Init ==
  /\ CameraInit
  /\ config \in GrootConfig /\ execution \in Executions /\ source \in Sources
  /\ source # "live" => config = "THREE_TASKS_2_FIXED_LORA"
  /\ jointBranch = HistoricalBranch(config) /\ qRef = HistoricalQRef(config)
  /\ loop = "launching" /\ looking = 0 /\ views = NoViews
  /\ request = NoRequest /\ kind = NoKind

----------------------------------------------------------------------------
(* The launch *)

\* --joint-branch defaults to a file of its own, --q-ref to none; a recorded
\* episode loads neither.
Launch ==
  /\ loop = "launching" /\ ~Refused(config, execution, source)
  /\ IF source = "live"
     THEN \E jointFile \in {"default", "given"}, qFile \in {"none", "given"} :
            /\ LoadsReferences(config, jointFile, qFile)
            /\ jointBranch' = JointBranch(config, jointFile)
            /\ qRef' = QRef(config, qFile)
     ELSE UNCHANGED <<jointBranch, qRef>>
  /\ loop' = "waiting"
  /\ UNCHANGED <<cameras, config, execution, source, looking, views, request, kind>>

\* parser.error: before any hardware is touched.
LaunchFails ==
  /\ loop = "launching"
  /\ \/ Refused(config, execution, source)
     \/ /\ source = "live"
        /\ \E jointFile \in {"default", "given", "invalid"},
              qFile \in {"none", "given", "invalid"} :
             ~LoadsReferences(config, jointFile, qFile)
  /\ loop' = "refused"
  /\ UNCHANGED <<cameras, launch, looking, views, request, kind>>

\* The page awakens the player of a program that has been launched.
PlayerAwakes ==
  /\ loop = "waiting" /\ Awakening
  /\ UNCHANGED <<launch, loop, looking, views, request, kind>>

CamerasCapture ==
  /\ Capturing
  /\ UNCHANGED <<launch, loop, looking, views, request, kind>>

\* Player.start: the player is bound.
LoopStarts ==
  /\ loop = "waiting" /\ bound
  /\ loop' = "observing" /\ looking' = 1
  /\ UNCHANGED <<cameras, launch, views, request, kind>>

----------------------------------------------------------------------------
(* The inference loop *)

\* CameraSet.get_vision: one camera after the other, each under its lock.
GetVision ==
  /\ loop = "observing"
  /\ LET c == CameraOrder[looking]
     IN  views' = [views EXCEPT ![c] = IF HasVision(c) THEN ImagesOf(c) ELSE NoView]
  /\ IF looking < Len(CameraOrder)
     THEN looking' = looking + 1 /\ UNCHANGED loop
     ELSE looking' = 0 /\ loop' = IF source = "live" THEN "building" ELSE "decoding"
  /\ UNCHANGED <<cameras, launch, request, kind>>

\* The prediction is over, the loop starts another one.
Again ==
  /\ loop' = "observing" /\ looking' = 1
  /\ views' = NoViews /\ request' = NoRequest /\ kind' = NoKind

\* Both views must be there, and np.stack needs an image in each.
BuildRequest ==
  /\ loop = "building"
  /\ Answerable(config) /\ \A c \in Cameras : views[c] # NoView
  /\ request' = Request(config, jointBranch, qRef)
  /\ loop' = "asking"
  /\ UNCHANGED <<cameras, launch, looking, views, kind>>

BuildFails ==
  /\ loop = "building"
  /\ ~Answerable(config) \/ \E c \in Cameras : views[c] = NoView
  /\ Again /\ UNCHANGED <<cameras, launch>>

\* PolicyClient.get_action; a timeout or an error ends the prediction.
Answers ==
  /\ loop = "asking"
  /\ loop' = "decoding"
  /\ UNCHANGED <<cameras, launch, looking, views, request, kind>>

AnswerFails ==
  /\ loop = "asking"
  /\ Again /\ UNCHANGED <<cameras, launch>>

\* _from_gr00t_response, also for the rows of a recorded episode.
Decode ==
  /\ loop = "decoding"
  /\ source = "live" => Decodes(config)
  /\ kind' = SourceKind(config, source)
  /\ loop' = "executing"
  /\ UNCHANGED <<cameras, launch, looking, views, request>>

DecodeFails ==
  /\ loop = "decoding" /\ source = "live" /\ ~Decodes(config)
  /\ Again /\ UNCHANGED <<cameras, launch>>

\* The connection takes the actions of the chunk one by one, or rejects them.
Execute ==
  /\ loop = "executing"
  /\ Again /\ UNCHANGED <<cameras, launch>>

Finished == loop = "refused" /\ UNCHANGED vars

Next ==
  \/ Launch \/ LaunchFails \/ PlayerAwakes \/ CamerasCapture \/ LoopStarts
  \/ GetVision \/ BuildRequest \/ BuildFails \/ Answers \/ AnswerFails
  \/ Decode \/ DecodeFails \/ Execute \/ Finished

Spec == Init /\ [][Next]_vars

----------------------------------------------------------------------------
(* Properties *)

CamerasOK ==
  /\ historicalIndices \in [Cameras -> Histories]
  /\ awakening \in 0..(Len(CameraOrder) + 1) /\ attempt \in Nat /\ bound \in BOOLEAN
  /\ delivered \in [Cameras -> 0..MaxFrames] /\ latestFrame \in [Cameras -> 0..MaxFrames]
  /\ frameBuffer \in [Cameras -> Seq(1..MaxFrames)]
  /\ \A c \in Cameras : Len(frameBuffer[c]) <= OldestNeeded(c) + 1
  /\ capture \in [Cameras -> [Attempts -> {"none", "reading", "read", "published"}]]
  /\ frame \in [Cameras -> [Attempts -> 0..MaxFrames]]

ViewsOK ==
  /\ DOMAIN views = Cameras
  /\ \A c \in Cameras :
       views[c] = NoView \/ views[c] \in [historicalIndices[c] -> 1..MaxFrames]

LaunchOK ==
  /\ config \in GrootConfig /\ execution \in Executions /\ source \in Sources
  /\ jointBranch \in {"none", "historical", "default", "given"}
  /\ qRef \in {"none", "historical", "given"}
  /\ kind \in {NoKind, "PoseTarget", "CartesianDelta", "ObservationRelativeDelta"}

\* Every variable has its type, and no camera keeps more frames than were asked for,
\* whatever the number of its threads.
TypeOK == CamerasOK /\ ViewsOK /\ LaunchOK

\* The capture threads a camera has.
Threads(c) == {t \in Attempts : capture[c][t] # "none"}

\* The frames that have reached the buffer: all but those on their way.
Pushed(c) ==
  IF \E t \in Attempts : capture[c][t] \in {"read", "published"}
  THEN delivered[c] - 1 ELSE delivered[c]

\* As long as one thread serves a camera, an observation's image for idx is the
\* frame exactly -idx before the newest one pushed, and the first frame ever
\* delivered while there are not so many: neither the trimming nor a capture that
\* goes on meanwhile costs a frame anyone has asked for ("[-15, 0] means keep the
\* most recent frame (0) and the frame from 15 frames ago", camera_set.py:17).
VisionIsHistory ==
  [][\A c \in Cameras :
       views'[c] \notin {NoView, views[c]} /\ (\A t, u \in Threads(c) : t = u) =>
         \A idx \in historicalIndices[c] :
           views'[c][idx] = AtLeast(Pushed(c) + idx, 1)]_vars

\* Whatever options are given, a request keeps the layout the checkpoint was trained on:
\* no quaternion reference replaces the rotation of a configuration without one, and one
\* with a quaternion never asks without fixing its sign.
RequestKeepsLayout ==
  request # NoRequest =>
    /\ request.pose = PoseLayout(config)
    /\ request.aligned <=> config \in UsesQuat
    /\ request.joints # "raw"

\* A launch that was not refused decodes to actions that can be executed in the way that
\* was chosen ("--execution tidybot requires a config that decodes to absolute PoseTarget
\* actions", play.py:42), all but the ABL7 configurations with --execution waypoint,
\* whose kind of action the connection rejects.
ChunkExecutable ==
  loop \notin {"launching", "refused"} =>
    \/ SourceKind(config, source) \in Accepted(execution)
    \/ config \in {"ABL7_FULLREL_QUAT", "ABL7_FULLREL_ROT6D"} /\ execution = "waypoint"

\* The configurations a live launch gets actions from.  The other four are launched, and
\* then fail with every prediction: three of them for want of a request, the last one for
\* want of a decoder.
Working ==
  {"ABL6_EEFSRC_FULLSTATE", "THREE_TASKS_ABS_DELTAS_LORA", "THREE_TASKS_2_ABS_DELTAS_LORA",
   "THREE_TASKS_2_FIXED_LORA", "EEF_ROT6D_ABS_IN_OUT"}

\* What the launch has checked and the code goes by fits together: every accepted launch
\* decodes to what it can execute, but for those named above, also the ones that never
\* get that far; what they ask keeps its layout; and no action is executed but of a
\* configuration that works, and of a kind the connection takes.
LaunchFits ==
  /\ RequestKeepsLayout /\ ChunkExecutable
  /\ loop = "executing" => config \in Working /\ kind \in Accepted(execution)

\* Without a --joint-branch of the user's the quaternion configuration wraps joints
\* into its historical bounds (README.md:105-114: "These configs load their
\* historical bounds on construction", "optionally supply --joint-branch to
\* override its historical joint bounds").
HistoricalBranchKept ==
  request # NoRequest /\ config = "THREE_TASKS_2_FIXED_LORA" =>
    request.joints \in {"historical", "given"}

----------------------------------------------------------------------------
(* The inductive invariant *)

\* A launch that was not refused fits together, and goes on doing so.
LaunchInv ==
  /\ source # "live" => config = "THREE_TASKS_2_FIXED_LORA"
  /\ loop \notin {"launching", "refused"} =>
       /\ ~Refused(config, execution, source)
       /\ source = "live" =>
            jointBranch \in {"default", "given"} /\ (qRef # "none" <=> config \in UsesQuat)
  /\ loop = "decoding" /\ source = "live" => Answerable(config)
  /\ loop = "executing" =>
       /\ kind = SourceKind(config, source)
       /\ source = "live" => Answerable(config) /\ Decodes(config)

\* Only a live launch asks, and only in its own layout.
RequestInv ==
  /\ loop \in {"launching", "waiting", "refused"} => request = NoRequest
  /\ loop \in {"building", "asking"} => source = "live"
  /\ loop = "asking" => Answerable(config)
  /\ request # NoRequest => source = "live" /\ request = Request(config, jointBranch, qRef)

\* The loop looks at a camera.
LookingInv == loop = "observing" => looking \in 1..Len(CameraOrder)

\* An attempt starts at most one thread for each camera.
AttemptInv ==
  /\ \A c \in Cameras, t \in Attempts : t > attempt => capture[c][t] = "none"
  /\ awakening = 1 /\ attempt \in Attempts => capture["external"][attempt] = "none"
  /\ awakening \in {1, 2} /\ attempt \in Attempts => capture["onboard"][attempt] = "none"

\* A frame on its way is a frame.
FrameInv ==
  \A c \in Cameras, t \in Attempts :
    capture[c][t] \in {"read", "published"} => frame[c][t] >= 1

\* One thread serves the camera.
Single(c) == \A t, u \in Threads(c) : t = u

\* The buffer holds the newest of the frames that were pushed, each at its place.
HistoryOf(c) ==
  /\ \A t \in Attempts :
       capture[c][t] \in {"read", "published"} => frame[c][t] = delivered[c]
  /\ Len(frameBuffer[c]) = AtMost(Pushed(c), OldestNeeded(c) + 1)
  /\ \A i \in 1..Len(frameBuffer[c]) : frameBuffer[c][i] = Pushed(c) - i + 1

HistoryInv == \A c \in Cameras : Single(c) => HistoryOf(c)

\* The inductive invariant.
IInv ==
  /\ TypeOK /\ LaunchInv /\ RequestInv /\ LookingInv
  /\ AttemptInv /\ FrameInv /\ HistoryInv
============================================================================
