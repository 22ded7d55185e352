-------------------------- MODULE Prediction_proofs --------------------------
(***************************************************************************)
(* Proofs about Prediction for any number of awakenings and frames and any *)
(* histories of the cameras: a launch fits together, and an observation    *)
(* shows the frames it was meant to show.                                  *)
(***************************************************************************)
EXTENDS Prediction, SequenceTheorems, TLAPS

----------------------------------------------------------------------------
(* Operators of the model *)

\* There are two cameras.
LEMMA TwoCameras ==
  /\ Len(CameraOrder) = 2 /\ CameraOrder[1] = "external" /\ CameraOrder[2] = "onboard"
  /\ \A i \in 1..Len(CameraOrder) : CameraOrder[i] \in Cameras
BY DEF CameraOrder, Cameras

\* A camera keeps as many frames as its history is deep.
LEMMA OldestNeededIs ==
  ASSUME historicalIndices \in [Cameras -> Histories], NEW c \in Cameras
  PROVE  /\ OldestNeeded(c) \in Nat
         /\ \A idx \in historicalIndices[c] :
              idx \in Int /\ idx <= 0 /\ -idx <= OldestNeeded(c)
<1>1. PICK d \in Depths : historicalIndices[c] = {-d, 0}
  BY DEF Histories
<1>2. d \in Nat
  BY CameraAssumption
<1>3. -d \in historicalIndices[c] /\ \A idx \in historicalIndices[c] : -d <= idx
  BY <1>1, <1>2
<1>4. /\ OldestNeeded(c) \in Depths
      /\ \A idx \in historicalIndices[c] : -OldestNeeded(c) <= idx
  BY <1>3, Zenon DEF OldestNeeded
<1>5. OldestNeeded(c) \in Nat
  BY <1>4, CameraAssumption
<1>6. ASSUME NEW idx \in historicalIndices[c]
      PROVE  idx \in Int /\ idx <= 0 /\ -idx <= OldestNeeded(c)
  <2>1. idx \in {-d, 0} /\ -OldestNeeded(c) <= idx
    BY <1>1, <1>4
  <2> QED BY <2>1, <1>2, <1>5
<1> QED BY <1>5, <1>6

\* A full buffer stays full, another one grows by a frame.
LEMMA TrimmedLength ==
  ASSUME NEW p \in Int, NEW n \in Int, NEW l \in Int, l = AtMost(p, n + 1)
  PROVE  AtMost(l + 1, n + 1) = AtMost(p + 1, n + 1)
BY DEF AtMost

\* The new frame comes first, the others move on, and what is too old is dropped.
LEMMA TrimmedIs ==
  ASSUME CamerasOK, NEW c \in Cameras, NEW new \in 1..MaxFrames
  PROVE  LET old == frameBuffer[c]
             buffer == Trimmed(c, <<new>> \o old)
         IN  /\ buffer \in Seq(1..MaxFrames)
             /\ Len(old) \in Nat
             /\ Len(buffer) = AtMost(Len(old) + 1, OldestNeeded(c) + 1)
             /\ Len(buffer) <= OldestNeeded(c) + 1
             /\ \A i \in 1..Len(buffer) :
                  /\ i = 1 => buffer[i] = new
                  /\ i > 1 => i - 1 \in 1..Len(old) /\ buffer[i] = old[i - 1]
<1> DEFINE old == frameBuffer[c]
           all == <<new>> \o old
           n == AtMost(Len(all), OldestNeeded(c) + 1)
<1>1. old \in Seq(1..MaxFrames) /\ Len(old) \in Nat
  BY LenProperties DEF CamerasOK
<1>2. <<new>> \in Seq(1..MaxFrames) /\ Len(<<new>>) = 1 /\ <<new>>[1] = new
  OBVIOUS
<1> HIDE DEF old
<1>3. /\ all \in Seq(1..MaxFrames) /\ Len(all) = 1 + Len(old)
      /\ \A i \in 1..Len(all) : all[i] = IF i <= 1 THEN <<new>>[i] ELSE old[i - 1]
  BY <1>1, <1>2, ConcatProperties
<1>4. OldestNeeded(c) \in Nat
  BY OldestNeededIs DEF CamerasOK
<1> HIDE DEF all
<1>5. /\ n \in Nat /\ n <= Len(all) /\ n = AtMost(Len(old) + 1, OldestNeeded(c) + 1) /\ n >= 1
      /\ n <= OldestNeeded(c) + 1
  BY <1>1, <1>3, <1>4 DEF AtMost
<1> HIDE DEF n
<1>6. \A i \in 1..n : all[i] \in 1..MaxFrames
  <2>1. \A i \in 1..Len(all) : all[i] \in 1..MaxFrames
    BY <1>3, ElementOfSeq
  <2>2. n \in Nat /\ Len(all) \in Nat /\ n <= Len(all)
    BY <1>1, <1>3, <1>5
  <2> QED BY <2>1, <2>2
<1>7. /\ SubSeq(all, 1, n) \in Seq(1..MaxFrames) /\ Len(SubSeq(all, 1, n)) = n
      /\ \A i \in 1..n : SubSeq(all, 1, n)[i] = all[i]
  BY <1>5, <1>6, SubSeqProperties
<1>8. \A i \in 1..n : /\ i = 1 => all[i] = new
                      /\ i > 1 => i - 1 \in 1..Len(old) /\ all[i] = old[i - 1]
  BY <1>1, <1>2, <1>3, <1>5
<1>9. Trimmed(c, <<new>> \o old) = SubSeq(all, 1, n)
  BY DEF Trimmed, all, n
<1> QED BY <1>1, <1>5, <1>7, <1>8, <1>9 DEF old

\* A vision is made of frames.
LEMMA ImagesAre ==
  ASSUME CamerasOK, NEW c \in Cameras, HasVision(c)
  PROVE  /\ Len(frameBuffer[c]) \in Nat \ {0}
         /\ ImagesOf(c) \in [historicalIndices[c] -> 1..MaxFrames]
         /\ \A idx \in historicalIndices[c] :
              LET i == AtMost(-idx, Len(frameBuffer[c]) - 1) + 1
              IN  i \in 1..Len(frameBuffer[c]) /\ ImagesOf(c)[idx] = frameBuffer[c][i]
<1>1. frameBuffer[c] \in Seq(1..MaxFrames) /\ frameBuffer[c] # <<>>
  BY DEF CamerasOK, HasVision
<1>2. Len(frameBuffer[c]) \in Nat \ {0}
  BY <1>1, EmptySeq
<1>3. \A idx \in historicalIndices[c] :
        AtMost(-idx, Len(frameBuffer[c]) - 1) + 1 \in 1..Len(frameBuffer[c])
  BY <1>2, OldestNeededIs DEF AtMost, CamerasOK
<1>4. \A i \in 1..Len(frameBuffer[c]) : frameBuffer[c][i] \in 1..MaxFrames
  BY <1>1, ElementOfSeq
<1>5. ImagesOf(c) = [idx \in historicalIndices[c] |->
                       frameBuffer[c][AtMost(-idx, Len(frameBuffer[c]) - 1) + 1]]
  BY DEF ImagesOf
<1> QED BY <1>2, <1>3, <1>4, <1>5

----------------------------------------------------------------------------
(* Types *)

\* A capture thread does its part for good and has nothing to do with awakening.
LEMMA CaptureGoesOn ==
  ASSUME CamerasOK, NEW c \in Cameras, NEW t \in Attempts,
         ReadFrame(c, t) \/ PublishFrame(c, t) \/ PushFrame(c, t)
  PROVE  /\ UNCHANGED <<historicalIndices, awakening, attempt, bound>>
         /\ capture' \in [Cameras -> [Attempts -> {"none", "reading", "read", "published"}]]
         /\ \A d \in Cameras, u \in Attempts : capture'[d][u] = "none" <=> capture[d][u] = "none"
<1>1. capture[c][t] # "none"
  BY DEF ReadFrame, PublishFrame, PushFrame
<1>2. PICK step \in {"reading", "read", "published"} :
        capture' = [capture EXCEPT ![c][t] = step]
  BY DEF ReadFrame, PublishFrame, PushFrame
<1>3. UNCHANGED <<historicalIndices, awakening, attempt, bound>>
  BY DEF ReadFrame, PublishFrame, PushFrame
<1>4. capture \in [Cameras -> [Attempts -> {"none", "reading", "read", "published"}]]
  BY DEF CamerasOK
<1> QED BY <1>1, <1>2, <1>3, <1>4

\* Histories are given once and for all.
LEMMA HistoriesStay == [Next]_vars => UNCHANGED historicalIndices
<1> SUFFICES ASSUME [Next]_vars PROVE UNCHANGED historicalIndices
  OBVIOUS
<1>1. CASE AwakeBegins
  BY <1>1 DEF AwakeBegins
<1>2. CASE CameraAwakes
  BY <1>2 DEF CameraAwakes
<1>3. CASE CameraFails
  BY <1>3 DEF CameraFails
<1>4. CASE AwakeEnds
  BY <1>4 DEF AwakeEnds
<1>5. ASSUME NEW c \in Cameras, NEW t \in Attempts, ReadFrame(c, t)
      PROVE  UNCHANGED historicalIndices
  BY <1>5 DEF ReadFrame
<1>6. ASSUME NEW c \in Cameras, NEW t \in Attempts, PublishFrame(c, t)
      PROVE  UNCHANGED historicalIndices
  BY <1>6 DEF PublishFrame
<1>7. ASSUME NEW c \in Cameras, NEW t \in Attempts, PushFrame(c, t)
      PROVE  UNCHANGED historicalIndices
  BY <1>7 DEF PushFrame
<1>8. CASE UNCHANGED cameras
  BY <1>8 DEF cameras
<1> QED
  BY <1>1, <1>2, <1>3, <1>4, <1>5, <1>6, <1>7, <1>8
  DEF Next, vars, PlayerAwakes, Awakening, CamerasCapture, Capturing, Finished,
    Launch, LaunchFails, LoopStarts, GetVision, BuildRequest, BuildFails, Answers,
    AnswerFails, Decode, DecodeFails, Execute

\* So is how deep they reach.
LEMMA OldestStays ==
  ASSUME [Next]_vars, NEW c \in Cameras
  PROVE  OldestNeeded(c)' = OldestNeeded(c)
BY HistoriesStay DEF OldestNeeded

\* A frame may be delivered as long as there are fewer than the bound.
LEMMA OneFrameMore == \A n \in 0..MaxFrames : n < MaxFrames => n + 1 \in 0..MaxFrames
BY CameraAssumption

\* The cameras keep their types and no more frames than they need.
LEMMA CamerasStep == CamerasOK /\ FrameInv /\ [Next]_vars => CamerasOK'
<1> SUFFICES ASSUME CamerasOK, FrameInv, [Next]_vars PROVE CamerasOK'
  OBVIOUS
<1> USE CameraAssumption, OldestStays, TwoCameras DEF CamerasOK
<1>1. CASE AwakeBegins
  BY <1>1 DEF AwakeBegins
<1>2. CASE CameraAwakes
  <2> DEFINE c == CameraOrder[awakening]
  <2>1. c \in Cameras
    BY <1>2 DEF CameraAwakes
  <2>2. capture' = [capture EXCEPT ![c][attempt] = "reading"]
    BY <1>2 DEF CameraAwakes
  <2> HIDE DEF c
  <2>3. capture' \in [Cameras -> [Attempts -> {"none", "reading", "read", "published"}]]
    BY <2>1, <2>2
  <2>4. /\ UNCHANGED <<historicalIndices, attempt, bound, delivered, latestFrame, frameBuffer,
                       frame>>
        /\ awakening' \in 0..(Len(CameraOrder) + 1)
    BY <1>2 DEF CameraAwakes
  <2>5. \A d \in Cameras : Len(frameBuffer'[d]) <= OldestNeeded(d)' + 1
    BY <2>4
  <2> QED BY <2>3, <2>4, <2>5
<1>3. CASE CameraFails
  BY <1>3 DEF CameraFails
<1>4. CASE AwakeEnds
  BY <1>4 DEF AwakeEnds
<1>5. ASSUME NEW c \in Cameras, NEW t \in Attempts, ReadFrame(c, t) PROVE CamerasOK'
  <2>1. delivered[c] \in 0..MaxFrames /\ delivered[c] + 1 \in 0..MaxFrames
    <3>1. delivered[c] \in 0..MaxFrames /\ delivered[c] < MaxFrames
      BY <1>5 DEF ReadFrame
    <3> QED BY <3>1, OneFrameMore, Zenon
  <2>2. delivered' \in [Cameras -> 0..MaxFrames]
    BY <1>5, <2>1 DEF ReadFrame
  <2>3. frame' \in [Cameras -> [Attempts -> 0..MaxFrames]]
    BY <1>5, <2>1 DEF ReadFrame
  <2>4. capture' \in [Cameras -> [Attempts -> {"none", "reading", "read", "published"}]]
    BY <1>5 DEF ReadFrame
  <2>5. UNCHANGED <<historicalIndices, awakening, attempt, bound, latestFrame, frameBuffer>>
    BY <1>5 DEF ReadFrame
  <2>6. \A d \in Cameras : Len(frameBuffer'[d]) <= OldestNeeded(d)' + 1
    BY <2>5
  <2> QED BY <2>2, <2>3, <2>4, <2>5, <2>6
<1>6. ASSUME NEW c \in Cameras, NEW t \in Attempts, PublishFrame(c, t) PROVE CamerasOK'
  BY <1>6 DEF PublishFrame
<1>7. ASSUME NEW c \in Cameras, NEW t \in Attempts, PushFrame(c, t) PROVE CamerasOK'
  <2>1. frame[c][t] \in 1..MaxFrames
    BY <1>7 DEF PushFrame, FrameInv
  <2> DEFINE buffer == Trimmed(c, <<frame[c][t]>> \o frameBuffer[c])
  <2>2. buffer \in Seq(1..MaxFrames) /\ Len(buffer) <= OldestNeeded(c) + 1
    BY <2>1, TrimmedIs
  <2>3. frameBuffer' = [frameBuffer EXCEPT ![c] = buffer]
    BY <1>7 DEF PushFrame
  <2> HIDE DEF buffer
  <2>4. /\ frameBuffer' \in [Cameras -> Seq(1..MaxFrames)]
        /\ \A d \in Cameras : Len(frameBuffer'[d]) <= OldestNeeded(d) + 1
    BY <2>2, <2>3
  <2>5. \A d \in Cameras : Len(frameBuffer'[d]) <= OldestNeeded(d)' + 1
    BY <2>4
  <2>6. capture' \in [Cameras -> [Attempts -> {"none", "reading", "read", "published"}]]
    BY <1>7 DEF PushFrame
  <2>7. frame' \in [Cameras -> [Attempts -> 0..MaxFrames]]
    <3>1. 0 \in 0..MaxFrames /\ frame' = [frame EXCEPT ![c][t] = 0]
      BY <1>7 DEF PushFrame, NoFrame
    <3> QED BY <3>1
  <2>8. UNCHANGED <<historicalIndices, awakening, attempt, bound, delivered, latestFrame>>
    BY <1>7 DEF PushFrame
  <2> QED BY <2>4, <2>5, <2>6, <2>7, <2>8
<1>8. CASE UNCHANGED cameras
  BY <1>8 DEF cameras
<1> QED
  BY <1>1, <1>2, <1>3, <1>4, <1>5, <1>6, <1>7, <1>8
  DEF Next, vars, PlayerAwakes, Awakening, CamerasCapture, Capturing, Finished,
    Launch, LaunchFails, LoopStarts, GetVision, BuildRequest, BuildFails, Answers,
    AnswerFails, Decode, DecodeFails, Execute

\* An observation consists of frames.
LEMMA ViewsStep == CamerasOK /\ ViewsOK /\ LookingInv /\ [Next]_vars => ViewsOK'
<1> SUFFICES ASSUME CamerasOK, ViewsOK, LookingInv, [Next]_vars PROVE ViewsOK'
  OBVIOUS
<1> USE HistoriesStay DEF ViewsOK, NoViews, Again
<1>1. CASE Launch
  BY <1>1 DEF Launch
<1>2. CASE LaunchFails
  BY <1>2 DEF LaunchFails
<1>3. CASE LoopStarts
  BY <1>3 DEF LoopStarts
<1>4. CASE GetVision
  <2> DEFINE c == CameraOrder[looking]
  <2>1. c \in Cameras
    BY <1>4, TwoCameras DEF GetVision, LookingInv
  <2>2. views' = [views EXCEPT ![c] = IF HasVision(c) THEN ImagesOf(c) ELSE NoView]
    BY <1>4 DEF GetVision
  <2> HIDE DEF c
  <2>3. views'[c] = NoView \/ views'[c] \in [historicalIndices[c] -> 1..MaxFrames]
    BY <2>1, <2>2, ImagesAre
  <2> QED BY <2>1, <2>2, <2>3
<1>5. CASE BuildRequest
  BY <1>5 DEF BuildRequest
<1>6. CASE BuildFails
  BY <1>6 DEF BuildFails
<1>7. CASE Answers
  BY <1>7 DEF Answers
<1>8. CASE AnswerFails
  BY <1>8 DEF AnswerFails
<1>9. CASE Decode
  BY <1>9 DEF Decode
<1>10. CASE DecodeFails
  BY <1>10 DEF DecodeFails
<1>11. CASE Execute
  BY <1>11 DEF Execute
<1>12. CASE UNCHANGED views
  BY <1>12
<1> QED
  BY <1>1, <1>2, <1>3, <1>4, <1>5, <1>6, <1>7, <1>8, <1>9, <1>10, <1>11, <1>12
  DEF Next, vars, launch, PlayerAwakes, CamerasCapture, Finished

\* The launch and what is decoded keep their types.
LEMMA LaunchTypes == LaunchOK /\ [Next]_vars => LaunchOK'
<1> SUFFICES ASSUME LaunchOK, [Next]_vars PROVE LaunchOK'
  OBVIOUS
<1> USE DEF LaunchOK, launch, Again, NoKind
<1>1. CASE Launch
  BY <1>1 DEF Launch, JointBranch, QRef, LoadsReferences, HistoricalBranch, HistoricalQRef
<1>2. CASE LaunchFails
  BY <1>2 DEF LaunchFails
<1>3. CASE LoopStarts
  BY <1>3 DEF LoopStarts
<1>4. CASE GetVision
  BY <1>4 DEF GetVision
<1>5. CASE BuildRequest
  BY <1>5 DEF BuildRequest
<1>6. CASE BuildFails
  BY <1>6 DEF BuildFails
<1>7. CASE Answers
  BY <1>7 DEF Answers
<1>8. CASE AnswerFails
  BY <1>8 DEF AnswerFails
<1>9. CASE Decode
  BY <1>9 DEF Decode, SourceKind, ActionKind
<1>10. CASE DecodeFails
  BY <1>10 DEF DecodeFails
<1>11. CASE Execute
  BY <1>11 DEF Execute
<1>12. CASE UNCHANGED <<launch, kind>>
  BY <1>12
<1> QED
  BY <1>1, <1>2, <1>3, <1>4, <1>5, <1>6, <1>7, <1>8, <1>9, <1>10, <1>11, <1>12
  DEF Next, vars, launch, PlayerAwakes, CamerasCapture, Finished

----------------------------------------------------------------------------
(* The launch *)

\* What the launch has checked goes on to hold, and the server is asked for nothing else.
LEMMA LaunchStep ==
  LaunchOK /\ LaunchInv /\ RequestInv /\ [Next]_vars => LaunchInv' /\ RequestInv'
<1> SUFFICES ASSUME LaunchOK, LaunchInv, RequestInv, [Next]_vars
             PROVE  LaunchInv' /\ RequestInv'
  OBVIOUS
<1> USE DEF LaunchOK, LaunchInv, RequestInv, launch, Again, Sources
<1>1. CASE Launch
  <2>1. /\ loop' = "waiting" /\ request = NoRequest
        /\ UNCHANGED <<config, execution, source, request>>
        /\ ~Refused(config, execution, source)
    BY <1>1 DEF Launch
  <2>2. source = "live" =>
          jointBranch' \in {"default", "given"} /\ (qRef' # "none" <=> config \in UsesQuat)
    BY <1>1 DEF Launch, LoadsReferences, JointBranch, QRef, HistoricalQRef, GrootConfig,
      UsesQuat, UsesRot6d
  <2> QED BY <2>1, <2>2
<1>2. CASE LaunchFails
  BY <1>2 DEF LaunchFails
<1>3. CASE LoopStarts
  BY <1>3 DEF LoopStarts
<1>4. CASE GetVision
  BY <1>4 DEF GetVision
<1>5. CASE BuildRequest
  BY <1>5 DEF BuildRequest
<1>6. CASE BuildFails
  BY <1>6 DEF BuildFails
<1>7. CASE Answers
  BY <1>7 DEF Answers
<1>8. CASE AnswerFails
  BY <1>8 DEF AnswerFails
<1>9. CASE Decode
  BY <1>9 DEF Decode
<1>10. CASE DecodeFails
  BY <1>10 DEF DecodeFails
<1>11. CASE Execute
  BY <1>11 DEF Execute
<1>12. CASE UNCHANGED <<launch, loop, request, kind>>
  BY <1>12
<1> QED
  BY <1>1, <1>2, <1>3, <1>4, <1>5, <1>6, <1>7, <1>8, <1>9, <1>10, <1>11, <1>12
  DEF Next, vars, launch, PlayerAwakes, CamerasCapture, Finished

\* The loop looks at one camera after the other.
LEMMA LookingStep == LookingInv /\ [Next]_vars => LookingInv'
<1> SUFFICES ASSUME LookingInv, [Next]_vars PROVE LookingInv'
  OBVIOUS
<1> USE TwoCameras DEF LookingInv, Again
<1>1. CASE Launch
  BY <1>1 DEF Launch
<1>2. CASE LaunchFails
  BY <1>2 DEF LaunchFails
<1>3. CASE LoopStarts
  BY <1>3 DEF LoopStarts
<1>4. CASE GetVision
  BY <1>4 DEF GetVision
<1>5. CASE BuildRequest
  BY <1>5 DEF BuildRequest
<1>6. CASE BuildFails
  BY <1>6 DEF BuildFails
<1>7. CASE Answers
  BY <1>7 DEF Answers
<1>8. CASE AnswerFails
  BY <1>8 DEF AnswerFails
<1>9. CASE Decode
  BY <1>9 DEF Decode
<1>10. CASE DecodeFails
  BY <1>10 DEF DecodeFails
<1>11. CASE Execute
  BY <1>11 DEF Execute
<1>12. CASE UNCHANGED <<loop, looking>>
  BY <1>12
<1> QED
  BY <1>1, <1>2, <1>3, <1>4, <1>5, <1>6, <1>7, <1>8, <1>9, <1>10, <1>11, <1>12
  DEF Next, vars, launch, PlayerAwakes, CamerasCapture, Finished

----------------------------------------------------------------------------
(* The cameras *)

\* Attempts are numbered, and one of them opens each camera once.
LEMMA AttemptStep == CamerasOK /\ AttemptInv /\ [Next]_vars => AttemptInv'
<1> SUFFICES ASSUME CamerasOK, AttemptInv, [Next]_vars PROVE AttemptInv'
  OBVIOUS
<1> USE CameraAssumption, TwoCameras DEF CamerasOK, AttemptInv, Cameras
<1>1. CASE AwakeBegins
  BY <1>1 DEF AwakeBegins
<1>2. CASE CameraAwakes
  BY <1>2 DEF CameraAwakes
<1>3. CASE CameraFails
  BY <1>3 DEF CameraFails
<1>4. CASE AwakeEnds
  BY <1>4 DEF AwakeEnds
<1>5. ASSUME NEW c \in Cameras, NEW t \in Attempts, ReadFrame(c, t) PROVE AttemptInv'
  <2>1. /\ UNCHANGED <<awakening, attempt>>
        /\ \A d \in Cameras, u \in Attempts : capture'[d][u] = "none" <=> capture[d][u] = "none"
    BY <1>5, CaptureGoesOn
  <2> QED BY <2>1
<1>6. ASSUME NEW c \in Cameras, NEW t \in Attempts, PublishFrame(c, t) PROVE AttemptInv'
  <2>1. /\ UNCHANGED <<awakening, attempt>>
        /\ \A d \in Cameras, u \in Attempts : capture'[d][u] = "none" <=> capture[d][u] = "none"
    BY <1>6, CaptureGoesOn
  <2> QED BY <2>1
<1>7. ASSUME NEW c \in Cameras, NEW t \in Attempts, PushFrame(c, t) PROVE AttemptInv'
  <2>1. /\ UNCHANGED <<awakening, attempt>>
        /\ \A d \in Cameras, u \in Attempts : capture'[d][u] = "none" <=> capture[d][u] = "none"
    BY <1>7, CaptureGoesOn
  <2> QED BY <2>1
<1>8. CASE UNCHANGED cameras
  BY <1>8 DEF cameras
<1> QED
  BY <1>1, <1>2, <1>3, <1>4, <1>5, <1>6, <1>7, <1>8
  DEF Next, vars, PlayerAwakes, Awakening, CamerasCapture, Capturing, Finished,
    Launch, LaunchFails, LoopStarts, GetVision, BuildRequest, BuildFails, Answers,
    AnswerFails, Decode, DecodeFails, Execute

\* A thread has a frame in its hands from reading to pushing it.
LEMMA FrameStep == CamerasOK /\ FrameInv /\ [Next]_vars => FrameInv'
<1> SUFFICES ASSUME CamerasOK, FrameInv, [Next]_vars PROVE FrameInv'
  OBVIOUS
<1> USE CameraAssumption, TwoCameras DEF CamerasOK, FrameInv
<1>1. CASE AwakeBegins
  BY <1>1 DEF AwakeBegins
<1>2. CASE CameraAwakes
  BY <1>2 DEF CameraAwakes
<1>3. CASE CameraFails
  BY <1>3 DEF CameraFails
<1>4. CASE AwakeEnds
  BY <1>4 DEF AwakeEnds
<1>5. ASSUME NEW c \in Cameras, NEW t \in Attempts, ReadFrame(c, t) PROVE FrameInv'
  <2>1. delivered[c] \in Nat /\ delivered[c] + 1 >= 1
    BY <1>5
  <2>2. frame'[c][t] = delivered[c] + 1
    BY <1>5 DEF ReadFrame
  <2>3. \A d \in Cameras, u \in Attempts :
          d # c \/ u # t => frame'[d][u] = frame[d][u] /\ capture'[d][u] = capture[d][u]
    BY <1>5 DEF ReadFrame
  <2>4. ASSUME NEW d \in Cameras, NEW u \in Attempts, capture'[d][u] \in {"read", "published"}
        PROVE  frame'[d][u] >= 1
    <3>1. CASE d = c /\ u = t
      BY <2>1, <2>2, <3>1
    <3>2. CASE d # c \/ u # t
      BY <2>3, <2>4, <3>2
    <3> QED BY <3>1, <3>2
  <2> QED BY <2>4
<1>6. ASSUME NEW c \in Cameras, NEW t \in Attempts, PublishFrame(c, t) PROVE FrameInv'
  BY <1>6 DEF PublishFrame
<1>7. ASSUME NEW c \in Cameras, NEW t \in Attempts, PushFrame(c, t) PROVE FrameInv'
  BY <1>7 DEF PushFrame
<1>8. CASE UNCHANGED cameras
  BY <1>8 DEF cameras
<1> QED
  BY <1>1, <1>2, <1>3, <1>4, <1>5, <1>6, <1>7, <1>8
  DEF Next, vars, PlayerAwakes, Awakening, CamerasCapture, Capturing, Finished,
    Launch, LaunchFails, LoopStarts, GetVision, BuildRequest, BuildFails, Answers,
    AnswerFails, Decode, DecodeFails, Execute

\* What is seen of a camera leaves its history as it is.
LEMMA HistoryKept ==
  ASSUME NEW c \in Cameras, HistoryOf(c), OldestNeeded(c)' = OldestNeeded(c),
         delivered'[c] = delivered[c], frameBuffer'[c] = frameBuffer[c],
         frame'[c] = frame[c],
         \A t \in Attempts : capture'[c][t] \in {"read", "published"}
                               <=> capture[c][t] \in {"read", "published"}
  PROVE  HistoryOf(c)'
<1>1. Pushed(c)' = Pushed(c)
  BY DEF Pushed
<1> QED BY <1>1 DEF HistoryOf

\* No thread ends, so that a camera never has fewer than before.
LEMMA SingleStays ==
  ASSUME CamerasOK, [Next]_vars, NEW d \in Cameras, Single(d)'
  PROVE  Single(d)
<1> SUFFICES \A t \in Attempts : capture[d][t] # "none" => capture'[d][t] # "none"
  BY DEF Single, Threads
<1> USE DEF CamerasOK
<1>1. CASE AwakeBegins
  BY <1>1 DEF AwakeBegins
<1>2. CASE CameraAwakes
  <2> DEFINE c == CameraOrder[awakening]
  <2>1. c \in Cameras /\ capture' = [capture EXCEPT ![c][attempt] = "reading"]
    BY <1>2, TwoCameras DEF CameraAwakes
  <2> HIDE DEF c
  <2> QED BY <2>1
<1>3. CASE CameraFails
  BY <1>3 DEF CameraFails
<1>4. CASE AwakeEnds
  BY <1>4 DEF AwakeEnds
<1>5. ASSUME NEW c \in Cameras, NEW t \in Attempts, ReadFrame(c, t)
      PROVE  \A u \in Attempts : capture[d][u] # "none" => capture'[d][u] # "none"
  BY <1>5, CaptureGoesOn
<1>6. ASSUME NEW c \in Cameras, NEW t \in Attempts, PublishFrame(c, t)
      PROVE  \A u \in Attempts : capture[d][u] # "none" => capture'[d][u] # "none"
  BY <1>6, CaptureGoesOn
<1>7. ASSUME NEW c \in Cameras, NEW t \in Attempts, PushFrame(c, t)
      PROVE  \A u \in Attempts : capture[d][u] # "none" => capture'[d][u] # "none"
  BY <1>7, CaptureGoesOn
<1>8. CASE UNCHANGED cameras
  BY <1>8 DEF cameras
<1> QED
  BY <1>1, <1>2, <1>3, <1>4, <1>5, <1>6, <1>7, <1>8
  DEF Next, vars, PlayerAwakes, Awakening, CamerasCapture, Capturing, Finished,
    Launch, LaunchFails, LoopStarts, GetVision, BuildRequest, BuildFails, Answers,
    AnswerFails, Decode, DecodeFails, Execute

\* With one thread, frames reach the buffer in the order of their delivery.
LEMMA HistoryStep ==
  ASSUME CamerasOK, AttemptInv, FrameInv, HistoryInv, [Next]_vars,
         NEW d \in Cameras, Single(d)'
  PROVE  HistoryOf(d)'
<1> USE CameraAssumption, OldestStays, TwoCameras DEF CamerasOK
<1>a. Single(d) /\ HistoryOf(d)
  BY SingleStays DEF HistoryInv
<1>b. OldestNeeded(d) \in Nat /\ OldestNeeded(d)' = OldestNeeded(d)
  BY OldestNeededIs
<1>1. CASE AwakeBegins
  BY <1>1, <1>a, <1>b, HistoryKept DEF AwakeBegins
<1>2. CASE CameraAwakes
  <2> DEFINE c == CameraOrder[awakening]
  <2>1. c \in Cameras /\ capture' = [capture EXCEPT ![c][attempt] = "reading"]
    BY <1>2 DEF CameraAwakes
  <2>2. attempt \in Attempts => capture[c][attempt] = "none"
    <3>1. /\ awakening = 1 => c = "external"
          /\ awakening = 2 => c = "onboard"
          /\ awakening \in {1, 2}
      BY <1>2 DEF CameraAwakes
    <3> QED BY <3>1 DEF AttemptInv
  <2>3. UNCHANGED <<delivered, frameBuffer, frame>>
    BY <1>2 DEF CameraAwakes
  <2> HIDE DEF c
  <2>4. \A t \in Attempts : capture'[d][t] \in {"read", "published"}
                              <=> capture[d][t] \in {"read", "published"}
    BY <2>1, <2>2
  <2> QED BY <2>3, <2>4, <1>a, <1>b, HistoryKept
<1>3. CASE CameraFails
  BY <1>3, <1>a, <1>b, HistoryKept DEF CameraFails
<1>4. CASE AwakeEnds
  BY <1>4, <1>a, <1>b, HistoryKept DEF AwakeEnds
<1>5. ASSUME NEW c \in Cameras, NEW t \in Attempts, ReadFrame(c, t) PROVE HistoryOf(d)'
  <2>1. CASE c # d
    <3>1. /\ delivered'[d] = delivered[d] /\ frameBuffer'[d] = frameBuffer[d]
          /\ frame'[d] = frame[d] /\ capture'[d] = capture[d]
      BY <1>5, <2>1 DEF ReadFrame
    <3> QED BY <3>1, <1>a, <1>b, HistoryKept
  <2>2. CASE c = d
    <3>1. /\ capture[d][t] = "reading" /\ delivered'[d] = delivered[d] + 1
          /\ capture'[d][t] = "read" /\ frame'[d][t] = delivered[d] + 1
          /\ frameBuffer' = frameBuffer /\ delivered[d] \in Nat
      BY <1>5, <2>2 DEF ReadFrame
    <3>2. \A u \in Attempts : u # t => capture'[d][u] = capture[d][u]
      BY <1>5, <2>2 DEF ReadFrame
    <3>3. \A u \in Attempts : u # t => capture[d][u] = "none"
      BY <1>a, <3>1 DEF Single, Threads
    <3>4. Pushed(d) = delivered[d] /\ Pushed(d)' = delivered'[d] - 1
      BY <3>1, <3>2, <3>3 DEF Pushed
    <3>5. Pushed(d)' = Pushed(d)
      BY <3>1, <3>4
    <3>6. \A u \in Attempts :
            capture'[d][u] \in {"read", "published"} => frame'[d][u] = delivered'[d]
      BY <3>1, <3>2, <3>3
    <3> QED BY <3>1, <3>5, <3>6, <1>a, <1>b DEF HistoryOf
  <2> QED BY <2>1, <2>2
<1>6. ASSUME NEW c \in Cameras, NEW t \in Attempts, PublishFrame(c, t) PROVE HistoryOf(d)'
  <2>1. UNCHANGED <<delivered, frameBuffer, frame>>
    BY <1>6 DEF PublishFrame
  <2>2. \A u \in Attempts : capture'[d][u] \in {"read", "published"}
                              <=> capture[d][u] \in {"read", "published"}
    BY <1>6 DEF PublishFrame
  <2> QED BY <2>1, <2>2, <1>a, <1>b, HistoryKept
<1>7. ASSUME NEW c \in Cameras, NEW t \in Attempts, PushFrame(c, t) PROVE HistoryOf(d)'
  <2>1. CASE c # d
    <3>1. /\ delivered'[d] = delivered[d] /\ frameBuffer'[d] = frameBuffer[d]
          /\ frame'[d] = frame[d] /\ capture'[d] = capture[d]
      BY <1>7, <2>1 DEF PushFrame
    <3> QED BY <3>1, <1>a, <1>b, HistoryKept
  <2>2. CASE c = d
    <3> DEFINE old == frameBuffer[d]
               buffer == Trimmed(d, <<frame[d][t]>> \o old)
    <3>1. /\ capture[d][t] = "published" /\ delivered'[d] = delivered[d]
          /\ capture'[d][t] = "reading" /\ frameBuffer'[d] = buffer
          /\ delivered[d] \in Nat
      BY <1>7, <2>2 DEF PushFrame
    <3>2. \A u \in Attempts : u # t => capture'[d][u] = capture[d][u]
      BY <1>7, <2>2 DEF PushFrame
    <3>3. \A u \in Attempts : u # t => capture[d][u] = "none"
      BY <1>a, <3>1 DEF Single, Threads
    <3>4. Pushed(d) = delivered[d] - 1 /\ Pushed(d)' = delivered[d]
      BY <3>1, <3>2, <3>3 DEF Pushed
    <3>5. frame[d][t] = delivered[d] /\ frame[d][t] \in 1..MaxFrames
      BY <3>1, <1>a DEF HistoryOf, FrameInv
    <3>6. /\ buffer \in Seq(1..MaxFrames)
          /\ Len(old) \in Nat
          /\ Len(buffer) = AtMost(Len(old) + 1, OldestNeeded(d) + 1)
          /\ \A i \in 1..Len(buffer) :
               /\ i = 1 => buffer[i] = frame[d][t]
               /\ i > 1 => i - 1 \in 1..Len(old) /\ buffer[i] = old[i - 1]
      BY <3>5, TrimmedIs
    <3>7. /\ Len(old) = AtMost(Pushed(d), OldestNeeded(d) + 1)
          /\ \A i \in 1..Len(old) : old[i] = Pushed(d) - i + 1
      BY <1>a DEF HistoryOf
    <3> HIDE DEF old, buffer
    <3>8. Len(buffer) = AtMost(Pushed(d)', OldestNeeded(d) + 1)
      <4> HIDE CameraAssumption, OldestStays, TwoCameras DEF CamerasOK
      <4>2. Pushed(d) \in Int /\ Pushed(d)' = Pushed(d) + 1
        BY <3>1, <3>4
      <4> QED BY <4>2, <3>6, <3>7, <1>b, TrimmedLength
    <3>9. \A i \in 1..Len(buffer) : buffer[i] = Pushed(d)' - i + 1
      <4> SUFFICES ASSUME NEW i \in 1..Len(buffer) PROVE buffer[i] = Pushed(d)' - i + 1
        OBVIOUS
      <4>1. i \in Nat /\ i >= 1 /\ delivered[d] \in Nat
        BY <3>1, <3>6
      <4>2. CASE i = 1
        BY <4>1, <4>2, <3>4, <3>5, <3>6
      <4>3. CASE i > 1
        <5>1. i - 1 \in 1..Len(old) /\ buffer[i] = old[i - 1]
          BY <4>3, <3>6
        <5>2. old[i - 1] = Pushed(d) - (i - 1) + 1
          BY <5>1, <3>7
        <5> QED BY <5>1, <5>2, <4>1, <3>4
      <4> QED BY <4>1, <4>2, <4>3
    <3>10. \A u \in Attempts : capture'[d][u] \notin {"read", "published"}
      BY <3>1, <3>2, <3>3
    <3> QED BY <3>1, <3>8, <3>9, <3>10, <1>b DEF HistoryOf
  <2> QED BY <2>1, <2>2
<1>8. CASE UNCHANGED cameras
  BY <1>8, <1>a, <1>b, HistoryKept DEF cameras
<1> QED
  BY <1>1, <1>2, <1>3, <1>4, <1>5, <1>6, <1>7, <1>8
  DEF Next, vars, PlayerAwakes, Awakening, CamerasCapture, Capturing, Finished,
    Launch, LaunchFails, LoopStarts, GetVision, BuildRequest, BuildFails, Answers,
    AnswerFails, Decode, DecodeFails, Execute

\* Only a look at a camera changes what is seen of it.
LEMMA ViewsCome ==
  ASSUME CamerasOK, ViewsOK, LookingInv, [Next]_vars, NEW d \in Cameras,
         views'[d] \notin {NoView, views[d]}
  PROVE  HasVision(d) /\ views'[d] = ImagesOf(d)
<1> USE DEF ViewsOK, NoViews, Again
<1>1. CASE Launch
  BY <1>1 DEF Launch
<1>2. CASE LaunchFails
  BY <1>2 DEF LaunchFails
<1>3. CASE LoopStarts
  BY <1>3 DEF LoopStarts
<1>4. CASE GetVision
  <2> DEFINE c == CameraOrder[looking]
  <2>1. c \in Cameras
    BY <1>4, TwoCameras DEF GetVision, LookingInv
  <2>2. views' = [views EXCEPT ![c] = IF HasVision(c) THEN ImagesOf(c) ELSE NoView]
    BY <1>4 DEF GetVision
  <2> HIDE DEF c
  <2>3. c = d
    BY <2>1, <2>2
  <2> QED BY <2>1, <2>2, <2>3
<1>5. CASE BuildRequest
  BY <1>5 DEF BuildRequest
<1>6. CASE BuildFails
  BY <1>6 DEF BuildFails
<1>7. CASE Answers
  BY <1>7 DEF Answers
<1>8. CASE AnswerFails
  BY <1>8 DEF AnswerFails
<1>9. CASE Decode
  BY <1>9 DEF Decode
<1>10. CASE DecodeFails
  BY <1>10 DEF DecodeFails
<1>11. CASE Execute
  BY <1>11 DEF Execute
<1>12. CASE UNCHANGED views
  BY <1>12
<1> QED
  BY <1>1, <1>2, <1>3, <1>4, <1>5, <1>6, <1>7, <1>8, <1>9, <1>10, <1>11, <1>12
  DEF Next, vars, launch, PlayerAwakes, CamerasCapture, Finished

----------------------------------------------------------------------------
(* The theorems *)

\* The program starts in the invariant.
LEMMA InitInv == Init => IInv
<1> SUFFICES ASSUME Init PROVE IInv
  OBVIOUS
<1> USE CameraAssumption DEF Init, CameraInit
<1>1. historicalIndices \in [Cameras -> Histories]
  OBVIOUS
<1>2. \A c \in Cameras : OldestNeeded(c) \in Nat
  BY <1>1, OldestNeededIs
<1>3. \A c \in Cameras : frameBuffer[c] = <<>> /\ Len(frameBuffer[c]) = 0
  OBVIOUS
<1>4. CamerasOK
  <2>1. frameBuffer \in [Cameras -> Seq(1..MaxFrames)]
    OBVIOUS
  <2>2. \A c \in Cameras : Len(frameBuffer[c]) <= OldestNeeded(c) + 1
    BY <1>2, <1>3
  <2>3. 0 \in 0..MaxFrames /\ awakening \in 0..(Len(CameraOrder) + 1)
    BY TwoCameras
  <2>4. /\ delivered \in [Cameras -> 0..MaxFrames] /\ latestFrame \in [Cameras -> 0..MaxFrames]
        /\ capture \in [Cameras -> [Attempts -> {"none", "reading", "read", "published"}]]
        /\ frame \in [Cameras -> [Attempts -> 0..MaxFrames]]
    BY <2>3 DEF NoFrame
  <2>5. attempt \in Nat /\ bound \in BOOLEAN
    OBVIOUS
  <2> QED BY <1>1, <2>1, <2>2, <2>3, <2>4, <2>5 DEF CamerasOK
<1>5. ViewsOK
  BY DEF ViewsOK, NoViews
<1>6. LaunchOK
  BY DEF LaunchOK, NoKind, HistoricalBranch, HistoricalQRef
<1>7. LaunchInv /\ RequestInv /\ LookingInv
  BY DEF LaunchInv, RequestInv, LookingInv
<1>8. \A c \in Cameras, t \in Attempts : capture[c][t] = "none"
  OBVIOUS
<1>9. AttemptInv /\ FrameInv
  BY <1>8 DEF AttemptInv, FrameInv, Cameras
<1>10. \A c \in Cameras : HistoryOf(c)
  <2> SUFFICES ASSUME NEW c \in Cameras PROVE HistoryOf(c)
    OBVIOUS
  <2>1. Pushed(c) = 0
    BY <1>8 DEF Pushed
  <2>2. AtMost(Pushed(c), OldestNeeded(c) + 1) = 0
    BY <2>1, <1>2 DEF AtMost
  <2> QED BY <1>3, <1>8, <2>2 DEF HistoryOf
<1> QED BY <1>4, <1>5, <1>6, <1>7, <1>9, <1>10 DEF IInv, TypeOK, HistoryInv

\* Every step keeps it.
LEMMA StepInv == IInv /\ [Next]_vars => IInv'
<1> SUFFICES ASSUME IInv, [Next]_vars PROVE IInv'
  OBVIOUS
<1>1. /\ CamerasOK /\ ViewsOK /\ LaunchOK /\ LaunchInv /\ RequestInv /\ LookingInv
      /\ AttemptInv /\ FrameInv /\ HistoryInv
  BY DEF IInv, TypeOK
<1>2. CamerasOK' /\ ViewsOK' /\ LaunchOK'
  BY <1>1, CamerasStep, ViewsStep, LaunchTypes
<1>3. LaunchInv' /\ RequestInv' /\ LookingInv'
  BY <1>1, LaunchStep, LookingStep
<1>4. AttemptInv' /\ FrameInv'
  BY <1>1, AttemptStep, FrameStep
<1>5. HistoryInv'
  BY <1>1, HistoryStep DEF HistoryInv
<1> QED BY <1>2, <1>3, <1>4, <1>5 DEF IInv, TypeOK

\* The inductive invariant holds: what the launch has checked goes on to hold, and
\* every camera with one thread keeps the newest of its frames in their order.
THEOREM Invariance == Spec => []IInv
BY InitInv, StepInv, PTL DEF Spec

\* TypeOK: whatever the number of awakenings, no camera keeps more frames than were
\* asked for.
THEOREM TypeCorrect == Spec => []TypeOK
<1>1. IInv => TypeOK
  BY DEF IInv
<1> QED BY <1>1, Invariance, PTL

\* LaunchFits: play.py, the decoder and the connections agree on every accepted launch,
\* but for the ones it names, and only the configurations it names get as far as an action.
THEOREM LaunchFitsHolds == Spec => []LaunchFits
<1>1. IInv => LaunchFits
  <2> SUFFICES ASSUME IInv PROVE LaunchFits
    OBVIOUS
  <2>1. LaunchOK /\ LaunchInv /\ RequestInv
    BY DEF IInv, TypeOK
  <2>2. RequestKeepsLayout
    <3> SUFFICES ASSUME request # NoRequest
                 PROVE  /\ request.pose = PoseLayout(config)
                        /\ request.aligned <=> config \in UsesQuat
                        /\ request.joints # "raw"
      BY DEF RequestKeepsLayout
    <3>1. /\ request = Request(config, jointBranch, qRef)
          /\ jointBranch \in {"default", "given"} /\ (qRef # "none" <=> config \in UsesQuat)
      BY <2>1 DEF LaunchInv, RequestInv
    <3>2. config \in UsesQuat => PoseLayout(config) = "arm_quat"
      BY DEF PoseLayout
    <3>3. request.joints = jointBranch /\ request.aligned = (qRef # "none")
      BY <3>1 DEF Request
    <3>4. request.pose = PoseLayout(config)
      BY <3>1, <3>2 DEF Request
    <3> QED BY <3>1, <3>3, <3>4
  <2>3. ChunkExecutable
    <3> SUFFICES ASSUME loop \notin {"launching", "refused"},
                        config \notin {"ABL7_FULLREL_QUAT", "ABL7_FULLREL_ROT6D"}
                          \/ execution # "waypoint"
                 PROVE  SourceKind(config, source) \in Accepted(execution)
      BY DEF ChunkExecutable
    <3>1. /\ ~Refused(config, execution, source)
          /\ source # "live" => config = "THREE_TASKS_2_FIXED_LORA"
      BY <2>1 DEF LaunchInv
    <3>2. execution \in Executions /\ source \in Sources /\ config \in GrootConfig
      BY <2>1 DEF LaunchOK
    <3> QED BY <3>1, <3>2 DEF SourceKind, ActionKind, Refused, Accepted, Executions,
              Sources, GrootConfig
  <2>4. ASSUME loop = "executing" PROVE config \in Working /\ kind \in Accepted(execution)
    <3>1. /\ kind = SourceKind(config, source)
          /\ source = "live" => Answerable(config) /\ Decodes(config)
          /\ source # "live" => config = "THREE_TASKS_2_FIXED_LORA"
      BY <2>1, <2>4 DEF LaunchInv
    <3>2. config \in Working
      BY <2>1, <3>1 DEF LaunchOK, Answerable, Decodes, Working, GrootConfig
    <3> QED BY <2>3, <2>4, <3>1, <3>2 DEF ChunkExecutable, Working
  <2> QED BY <2>2, <2>3, <2>4 DEF LaunchFits
<1> QED BY <1>1, Invariance, PTL

\* VisionIsHistory: the model is shown the frames its history asks for.
THEOREM VisionIsHistoryHolds == Spec => VisionIsHistory
<1> DEFINE Seen == \A c \in Cameras :
              views'[c] \notin {NoView, views[c]} /\ (\A t, u \in Threads(c) : t = u) =>
                \A idx \in historicalIndices[c] :
                  views'[c][idx] = AtLeast(Pushed(c) + idx, 1)
<1>1. IInv /\ [Next]_vars => Seen
  <2> SUFFICES ASSUME IInv, [Next]_vars, NEW c \in Cameras,
                      views'[c] \notin {NoView, views[c]}, Single(c),
                      NEW idx \in historicalIndices[c]
               PROVE  views'[c][idx] = AtLeast(Pushed(c) + idx, 1)
    BY DEF Single
  <2>1. CamerasOK /\ ViewsOK /\ LookingInv /\ HistoryInv
    BY DEF IInv, TypeOK
  <2>2. HasVision(c) /\ views'[c] = ImagesOf(c)
    BY <2>1, ViewsCome
  <2> DEFINE n == Len(frameBuffer[c])
             i == AtMost(-idx, n - 1) + 1
  <2>3. n \in Nat \ {0} /\ i \in 1..n /\ ImagesOf(c)[idx] = frameBuffer[c][i]
    BY <2>1, <2>2, ImagesAre
  <2>4. n = AtMost(Pushed(c), OldestNeeded(c) + 1) /\ frameBuffer[c][i] = Pushed(c) - i + 1
    BY <2>1, <2>3 DEF HistoryInv, HistoryOf
  <2>5. idx \in Int /\ idx <= 0 /\ -idx <= OldestNeeded(c) /\ OldestNeeded(c) \in Nat
    BY <2>1, OldestNeededIs DEF CamerasOK
  <2>6. Pushed(c) \in Int
    BY <2>1 DEF Pushed, CamerasOK
  <2>7. i = AtMost(-idx, n - 1) + 1
    OBVIOUS
  <2> HIDE DEF n, i
  <2>8. Pushed(c) - i + 1 = AtLeast(Pushed(c) + idx, 1)
    BY <2>3, <2>4, <2>5, <2>6, <2>7 DEF AtMost, AtLeast
  <2> QED BY <2>2, <2>3, <2>4, <2>8
<1> HIDE DEF Seen
<1>2. [][Seen]_vars => VisionIsHistory
  BY PTL DEF VisionIsHistory, Seen
<1> QED BY <1>1, <1>2, Invariance, PTL DEF Spec
==============================================================================
