----------------------------- MODULE CameraSet -----------------------------
(***************************************************************************)
(* The cameras of camera_set.py.  Player.awake() awakens them one after    *)
(* the other; each gets a capture thread that reads frames, publishes the  *)
(* latest one and pushes it to a buffer that is trimmed to the history the *)
(* model was trained on.  The inference loop takes a Vision from each      *)
(* buffer while the threads go on.                                         *)
(*                                                                         *)
(* A frame is its number in the order in which its camera delivered it.    *)
(* When a camera cannot be opened the whole awakening fails, and the next  *)
(* one starts every camera again: nothing stops the threads of the first.  *)
(***************************************************************************)
EXTENDS Integers, Sequences

CONSTANTS
  Attempts,    \* bound: calls of CameraSet.awake(), 1..n
  Depths,      \* how far back the history of a camera may reach
  MaxFrames    \* bound: frames a camera delivers

ASSUME CameraAssumption ==
  /\ Attempts \subseteq Nat /\ MaxFrames \in Nat
  /\ Depths \subseteq Nat

\* play.py's CameraSet, in its order.
CameraOrder == <<"external", "onboard">>
Cameras == {"external", "onboard"}

NoFrame == 0

\* historical_indices: offsets from the newest frame, none of them positive.
Histories == {{-depth, 0} : depth \in Depths}

VARIABLES
  historicalIndices,
  awakening,      \* position in CameraOrder while CameraSet.awake() runs, else 0
  attempt,        \* the latest call of CameraSet.awake()
  bound,          \* Player.awake() got past the cameras
  delivered,      \* frames a camera has delivered
  latestFrame, frameBuffer,
  capture,        \* where the capture thread of each attempt is
  frame           \* its local frame

cameras == <<historicalIndices, awakening, attempt, bound, delivered, latestFrame,
             frameBuffer, capture, frame>>

CameraInit ==
  /\ historicalIndices \in [Cameras -> Histories]
  /\ awakening = 0 /\ attempt = 0 /\ bound = FALSE
  /\ delivered = [c \in Cameras |-> 0]
  /\ latestFrame = [c \in Cameras |-> NoFrame]
  /\ frameBuffer = [c \in Cameras |-> <<>>]
  /\ capture = [c \in Cameras |-> [t \in Attempts |-> "none"]]
  /\ frame = [c \in Cameras |-> [t \in Attempts |-> NoFrame]]

AtMost(a, b)  == IF a <= b THEN a ELSE b
AtLeast(a, b) == IF a >= b THEN a ELSE b

----------------------------------------------------------------------------
(* Player.awake() *)

\* The robot and the client are awake; Player.awake() turns to the cameras.
AwakeBegins ==
  /\ ~bound /\ awakening = 0 /\ attempt + 1 \in Attempts
  /\ attempt' = attempt + 1 /\ awakening' = 1
  /\ UNCHANGED <<historicalIndices, bound, delivered, latestFrame, frameBuffer,
                 capture, frame>>

\* CameraConnection.awake: the stream opens and its thread starts.
CameraAwakes ==
  /\ awakening \in 1..Len(CameraOrder)
  /\ capture' = [capture EXCEPT ![CameraOrder[awakening]][attempt] = "reading"]
  /\ awakening' = awakening + 1
  /\ UNCHANGED <<historicalIndices, attempt, bound, delivered, latestFrame, frameBuffer,
                 frame>>

\* CameraConnection.awake: no device, or the stream does not open.
CameraFails ==
  /\ awakening \in 1..Len(CameraOrder)
  /\ awakening' = 0
  /\ UNCHANGED <<historicalIndices, attempt, bound, delivered, latestFrame, frameBuffer,
                 capture, frame>>

\* Every camera is awake: the set is bound to the client.
AwakeEnds ==
  /\ awakening = Len(CameraOrder) + 1
  /\ awakening' = 0 /\ bound' = TRUE
  /\ UNCHANGED <<historicalIndices, attempt, delivered, latestFrame, frameBuffer, capture,
                 frame>>

----------------------------------------------------------------------------
(* The capture threads *)

\* _read_frame returns a frame.  When it fails the thread just tries again.
ReadFrame(c, t) ==
  /\ capture[c][t] = "reading" /\ delivered[c] < MaxFrames
  /\ delivered' = [delivered EXCEPT ![c] = @ + 1]
  /\ frame' = [frame EXCEPT ![c][t] = delivered[c] + 1]
  /\ capture' = [capture EXCEPT ![c][t] = "read"]
  /\ UNCHANGED <<historicalIndices, awakening, attempt, bound, latestFrame, frameBuffer>>

\* with self._frame_lock
PublishFrame(c, t) ==
  /\ capture[c][t] = "read"
  /\ latestFrame' = [latestFrame EXCEPT ![c] = frame[c][t]]
  /\ capture' = [capture EXCEPT ![c][t] = "published"]
  /\ UNCHANGED <<historicalIndices, awakening, attempt, bound, delivered, frameBuffer, frame>>

\* The furthest frame back anyone has asked for.
OldestNeeded(c) ==
  CHOOSE n \in Depths : /\ -n \in historicalIndices[c]
                        /\ \A idx \in historicalIndices[c] : -n <= idx

\* Faulty variant: keeps as many frames as the offset of the oldest one.
TrimmedShort(c, buffer) ==
  SubSeq(buffer, 1, AtMost(Len(buffer), AtLeast(OldestNeeded(c), 1)))

\* Faulty variant: keeps one frame too many.
TrimmedLong(c, buffer) == SubSeq(buffer, 1, AtMost(Len(buffer), OldestNeeded(c) + 2))

\* The buffer without what is older than that; its first frame has offset 0.
Trimmed(c, buffer) == SubSeq(buffer, 1, AtMost(Len(buffer), OldestNeeded(c) + 1))

\* _push_to_buffer, with self._buffer_lock; then the thread sleeps.
PushFrame(c, t) ==
  /\ capture[c][t] = "published"
  /\ frameBuffer' = [frameBuffer EXCEPT ![c] = Trimmed(c, <<frame[c][t]>> \o @)]
  /\ frame' = [frame EXCEPT ![c][t] = NoFrame]
  /\ capture' = [capture EXCEPT ![c][t] = "reading"]
  /\ UNCHANGED <<historicalIndices, awakening, attempt, bound, delivered, latestFrame>>

Capturing ==
  \E c \in Cameras, t \in Attempts :
    ReadFrame(c, t) \/ PublishFrame(c, t) \/ PushFrame(c, t)

Awakening == AwakeBegins \/ CameraAwakes \/ CameraFails \/ AwakeEnds

----------------------------------------------------------------------------
(* What the loop reads *)

\* get_vision: a frame for each historical index, the oldest one there is when
\* the camera has not delivered that many yet.
ImagesOf(c) ==
  LET buffer == frameBuffer[c]
  IN  [idx \in historicalIndices[c] |-> buffer[AtMost(-idx, Len(buffer) - 1) + 1]]

\* A camera without a frame has no view.
HasVision(c) == frameBuffer[c] # <<>>
============================================================================
