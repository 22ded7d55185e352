------------------------ MODULE TidybotStream_proofs ------------------------
(***************************************************************************)
(* Proofs about TidybotStream for every set of callers, every choice of    *)
(* settings and every bound.                                               *)
(***************************************************************************)
EXTENDS TidybotStream, TLAPS

----------------------------------------------------------------------------
(* Types *)

\* Slicing a chunk yields a sequence of targets.
LEMMA FreshTargetsType ==
  ASSUME NEW request \in Request, NEW count \in Nat
  PROVE  FreshTargets(request, count) \in Seq(Target)
BY DEF FreshTargets, Request, Target

\* The number of fresh targets is a natural number.
LEMMA FreshCountType ==
  ASSUME NEW length \in Nat, NEW elapsed \in Nat, NEW horizon \in Nat
  PROVE  FreshCount(length, elapsed, horizon) \in Nat
BY DEF FreshCount, AtMost, AtLeast

\* What set_enabled leaves behind has its type.
LEMMA SetEnabledData ==
  ASSUME DataOK, NEW on, SetEnabled(on)
  PROVE  /\ generation' \in Nat /\ targets' \in Seq(Target)
         /\ lastTarget' \in Target \cup {NoTarget}
<1>1. CASE on = enabled
  BY <1>1 DEF SetEnabled, DataOK, gate, stream
<1>2. CASE on # enabled
  BY <1>2 DEF SetEnabled, Invalidate, DataOK
<1> QED BY <1>1, <1>2

\* Likewise what a failed tick leaves behind.
LEMMA FailTickData ==
  ASSUME DataOK, FailTick
  PROVE  /\ generation' \in Nat /\ targets' \in Seq(Target)
         /\ lastTarget' \in Target \cup {NoTarget} /\ control' = "waiting"
BY SetEnabledData DEF FailTick

\* What a tick submits is a target, if there is one.
LEMMA NextTargetType ==
  ASSUME DataOK, NextTarget # NoTarget
  PROVE  NextTarget \in Target
BY DEF DataOK, NextTarget

\* Every step keeps the flags Boolean.
LEMMA FlagsStep == FlagsOK /\ [Next]_vars => FlagsOK'
<1> SUFFICES ASSUME FlagsOK, [Next]_vars PROVE FlagsOK'
  OBVIOUS
<1> USE DEF FlagsOK
<1>1. CASE Wake
  BY <1>1, Zenon DEF Wake, gate, inference, users, settings, stream, outside
<1>2. CASE TickBegin
  BY <1>2, Zenon DEF TickBegin, gate, inference, users, settings, stream, outside
<1>3. CASE TickEnable
  BY <1>3, Zenon DEF TickEnable, SetEnabled, Invalidate, gate, inference, users, settings,
    stream, outside
<1>4. CASE TickRate
  BY <1>4, Zenon DEF TickRate, Invalidate, gate, inference, users, settings, stream, outside
<1>5. CASE ReceiveStale
  BY <1>5, Zenon DEF ReceiveStale, gate, inference, users, settings, stream, outside
<1>6. CASE ReceiveNone
  BY <1>6, Zenon DEF Receive, ReceiveNone, gate, inference, users, settings, stream, outside
<1>7. CASE ReceiveDeltas
  BY <1>7, Zenon DEF Receive, ReceiveDeltas, SetEnabled, Invalidate, FailTick, gate, inference,
    users, settings, stream, outside
<1>8. CASE ReceivePoses
  BY <1>8, Zenon DEF Receive, ReceivePoses, gate, inference, users, settings, stream, outside
<1>9. CASE ReceiveDone
  BY <1>9, Zenon DEF ReceiveDone, gate, inference, users, settings, stream, outside
<1>10. CASE Observe
  BY <1>10, Zenon DEF Observe, gate, inference, users, settings, stream, outside
<1>11. CASE ObserveFails
  BY <1>11, Zenon DEF ObserveFails, SetEnabled, Invalidate, FailTick, gate, inference, users,
    settings, stream, outside
<1>12. CASE RequestPrediction
  BY <1>12, Zenon DEF RequestPrediction, SetEnabled, Invalidate, FailTick, gate, inference,
    users, settings, stream, outside
<1>13. CASE Submit
  BY <1>13, Zenon DEF Submit, gate, inference, users, settings, stream, outside
<1>14. CASE SubmitFails
  BY <1>14, Zenon DEF SubmitFails, SetEnabled, Invalidate, FailTick, gate, inference, users,
    settings, stream, outside
<1>15. CASE ControlExit
  BY <1>15, Zenon DEF ControlExit, SetEnabled, Invalidate, gate, inference, users, settings,
    stream, outside
<1>16. CASE RetryElapsed
  BY <1>16, Zenon DEF RetryElapsed, gate, inference, users, settings, stream, outside
<1>17. CASE WorkerTake
  BY <1>17, Zenon DEF WorkerTake, gate, inference, users, settings, stream, outside
<1>18. CASE WorkerBegin
  BY <1>18, Zenon DEF WorkerBegin, gate, inference, users, settings, stream, outside
<1>19. CASE WorkerAnswer
  BY <1>19, Zenon DEF WorkerAnswer, gate, inference, users, settings, stream, outside
<1>20. CASE WorkerExit
  BY <1>20, Zenon DEF WorkerExit, gate, inference, users, settings, stream, outside
<1>21. ASSUME NEW c \in Callers, StopPredicting(c) PROVE FlagsOK'
  BY <1>21, Zenon DEF StopPredicting, gate, inference, users, settings, stream, outside
<1>22. ASSUME NEW c \in Callers, StopReturns(c) PROVE FlagsOK'
  BY <1>22, Zenon DEF StopReturns, SetEnabled, Invalidate, gate, inference, users, settings,
    stream, outside
<1>23. ASSUME NEW c \in Callers, StartPredicting(c) PROVE FlagsOK'
  BY <1>23, Zenon DEF StartPredicting, gate, inference, users, settings, stream, outside
<1>24. ASSUME NEW c \in Callers, StartReturns(c) PROVE FlagsOK'
  BY <1>24, Zenon DEF StartReturns, SetEnabled, Invalidate, gate, inference, users, settings,
    stream, outside
<1>25. CASE ChangeSettings
  BY <1>25, Zenon DEF ChangeSettings, gate, inference, users, settings, stream, outside
<1>26. CASE MainStopPredicting
  BY <1>26, Zenon DEF MainStopPredicting, gate, inference, users, settings, stream, outside
<1>27. CASE MainStopReturns
  BY <1>27, Zenon DEF MainStopReturns, SetEnabled, Invalidate, gate, inference, users,
     settings,
    stream, outside
<1>28. CASE MainStopLoop
  BY <1>28, Zenon DEF MainStopLoop, gate, inference, users, settings, stream, outside
<1>29. CASE MainLoopStopped
  BY <1>29, Zenon DEF MainLoopStopped, SetEnabled, Invalidate, gate, inference, users,
     settings,
    stream, outside
<1>30. CASE UNCHANGED vars
  BY <1>30, Zenon DEF vars, gate, inference, users, settings, stream, outside
<1> QED
  BY <1>1, <1>2, <1>3, <1>4, <1>5, <1>6, <1>7, <1>8, <1>9, <1>10, <1>11, <1>12, <1>13, <1>14,
    <1>15, <1>16, <1>17, <1>18, <1>19, <1>20, <1>21, <1>22, <1>23, <1>24, <1>25, <1>26, <1>27,
    <1>28, <1>29, <1>30
  DEF Next, Control, Tick, Worker, Returns, Main, Terminated

\* Every step keeps the other variables in their types.
LEMMA DataStep == DataOK /\ WorkerInv /\ [Next]_vars => DataOK'
<1> SUFFICES ASSUME DataOK, WorkerInv, [Next]_vars PROVE DataOK'
  OBVIOUS
<1> USE SettingsAssumption, BoundsAssumption DEF DataOK, InTick
<1>1. CASE Wake
  BY <1>1 DEF Wake, gate, inference, users, settings, stream, outside
<1>2. CASE TickBegin
  BY <1>2 DEF TickBegin, gate, inference, users, settings, stream, outside
<1>3. CASE TickEnable
  BY <1>3, SetEnabledData DEF TickEnable, gate, inference, users, settings, stream, outside
<1>4. CASE TickRate
  <2>1. CASE controlPeriod = period
    BY <1>4, <2>1 DEF TickRate, gate, inference, users, settings, stream, outside
  <2>2. CASE controlPeriod # period
    BY <1>4, <2>2 DEF TickRate, Invalidate, gate, inference, users, settings, stream, outside
  <2> QED BY <2>1, <2>2
<1>5. CASE ReceiveStale
  BY <1>5 DEF ReceiveStale, Answer, gate, inference, users, settings, stream, outside
<1>6. CASE ReceiveNone
  BY <1>6 DEF Receive, ReceiveNone, Answer, gate, inference, users, settings, stream, outside
<1>7. CASE ReceiveDeltas
  BY <1>7, FailTickData DEF Receive, ReceiveDeltas, Answer, gate, inference, users, settings,
    stream, outside
<1>8. CASE ReceivePoses
  <2>1. pending \in Request
    <3>1. Answer \in Result
      BY <1>8 DEF Receive, ReceivePoses, Answer
    <3> QED BY <1>8, <3>1 DEF Receive, ReceivePoses, Current, Result
  <2>2. targets' \in Seq(Target)
    <3>1. PICK length \in ChunkLengths, elapsed \in 0..MaxElapsed :
            LET count == FreshCount(length, elapsed, pending.horizon)
            IN  targets' = IF count > 0 THEN FreshTargets(pending, count) ELSE targets
      BY <1>8 DEF Receive, ReceivePoses
    <3> DEFINE count == FreshCount(length, elapsed, pending.horizon)
    <3>2. length \in Nat /\ elapsed \in Nat /\ pending.horizon \in Nat
      <4>1. length \in Nat
        BY BoundsAssumption
      <4>2. elapsed \in Nat
        BY BoundsAssumption
      <4>3. pending.horizon \in Nat
        BY <2>1, SettingsAssumption DEF Request
      <4> QED BY <4>1, <4>2, <4>3
    <3>3. count \in Nat
      BY <3>2, FreshCountType
    <3>4. FreshTargets(pending, count) \in Seq(Target)
      BY <2>1, <3>3, FreshTargetsType
    <3> HIDE DEF count
    <3>5. targets' = IF count > 0 THEN FreshTargets(pending, count) ELSE targets
      BY <3>1 DEF count
    <3> QED BY <3>4, <3>5
  <2>3. results' \in Seq(Result) /\ latency' \in Nat
    BY <1>8 DEF Receive, ReceivePoses
  <2> QED BY <1>8, <2>2, <2>3 DEF Receive, ReceivePoses, gate, inference, users, settings,
    stream, outside
<1>9. CASE ReceiveDone
  BY <1>9 DEF ReceiveDone, gate, inference, users, settings, stream, outside
<1>10. CASE Observe
  BY <1>10 DEF Observe, Target, gate, inference, users, settings, stream, outside
<1>11. CASE ObserveFails
  BY <1>11, FailTickData DEF ObserveFails, gate, inference, users, settings, stream, outside
<1>12. CASE RequestPrediction
  <2>1. CASE WantsPrediction /\ requests # <<>>
    BY <1>12, <2>1, FailTickData DEF RequestPrediction, gate, inference, users, settings,
      stream, outside
  <2>2. CASE WantsPrediction /\ requests = <<>>
    <3> DEFINE request == [generation |-> generation, period |-> period,
                           horizon |-> executionHorizon, pauses |-> pauses]
    <3>1. request \in Request
      BY DEF Request
    <3>2. pending' = request /\ requests' = Append(requests, request)
      BY <1>12, <2>2 DEF RequestPrediction
    <3>3. pending' \in Request /\ requests' \in Seq(Request)
      BY <3>1, <3>2
    <3> QED BY <1>12, <2>2, <3>3 DEF RequestPrediction, gate, inference, users, settings,
      stream, outside
  <2>3. CASE ~WantsPrediction
    BY <1>12, <2>3 DEF RequestPrediction, gate, inference, users, settings, stream, outside
  <2> QED BY <2>1, <2>2, <2>3
<1>13. CASE Submit
  BY <1>13 DEF Submit, Command, NextTarget, gate, inference, users, settings, stream, outside
<1>14. CASE SubmitFails
  <2>1. arm' \in [beat : {0, 1}, target : Target \cup {NoTarget}]
    BY <1>14, NextTargetType DEF SubmitFails, Command
  <2> QED BY <1>14, <2>1, FailTickData DEF SubmitFails, gate, inference, users, settings,
    stream, outside
<1>15. CASE ControlExit
  BY <1>15, SetEnabledData DEF ControlExit, gate, inference, users, settings, stream, outside
<1>16. CASE RetryElapsed
  BY <1>16 DEF RetryElapsed, gate, inference, users, settings, stream, outside
<1>17. CASE WorkerTake
  BY <1>17 DEF WorkerTake, gate, inference, users, settings, stream, outside
<1>18. CASE WorkerBegin
  BY <1>18 DEF WorkerBegin, gate, inference, users, settings, stream, outside
<1>19. CASE WorkerAnswer
  <2>1. working \in Request
    BY <1>19 DEF WorkerAnswer, WorkerInv
  <2>2. results' \in Seq(Result)
    BY <1>19, <2>1 DEF WorkerAnswer, Result
  <2> QED BY <1>19, <2>2 DEF WorkerAnswer, gate, inference, users, settings, stream, outside
<1>20. CASE WorkerExit
  BY <1>20 DEF WorkerExit, gate, inference, users, settings, stream, outside
<1>21. ASSUME NEW c \in Callers, StopPredicting(c) PROVE DataOK'
  BY <1>21 DEF StopPredicting, gate, inference, users, settings, stream, outside
<1>22. ASSUME NEW c \in Callers, StopReturns(c) PROVE DataOK'
  <2>1. generation' \in Nat /\ targets' \in Seq(Target) /\ lastTarget' \in Target \cup {NoTarget}
    BY <1>22, SetEnabledData DEF StopReturns
  <2> QED BY <1>22, <2>1 DEF StopReturns, gate, inference, users, settings, stream, outside
<1>23. ASSUME NEW c \in Callers, StartPredicting(c) PROVE DataOK'
  BY <1>23 DEF StartPredicting, gate, inference, users, settings, stream, outside
<1>24. ASSUME NEW c \in Callers, StartReturns(c) PROVE DataOK'
  <2>1. generation' \in Nat /\ targets' \in Seq(Target) /\ lastTarget' \in Target \cup {NoTarget}
    BY <1>24, SetEnabledData DEF StartReturns
  <2> QED BY <1>24, <2>1 DEF StartReturns, gate, inference, users, settings, stream, outside
<1>25. CASE ChangeSettings
  BY <1>25 DEF ChangeSettings, gate, inference, users, settings, stream, outside
<1>26. CASE MainStopPredicting
  BY <1>26 DEF MainStopPredicting, gate, inference, users, settings, stream, outside
<1>27. CASE MainStopReturns
  <2>1. generation' \in Nat /\ targets' \in Seq(Target) /\ lastTarget' \in Target \cup {NoTarget}
    BY <1>27, SetEnabledData DEF MainStopReturns
  <2> QED BY <1>27, <2>1 DEF MainStopReturns, gate, inference, users, settings, stream, outside
<1>28. CASE MainStopLoop
  BY <1>28 DEF MainStopLoop, gate, inference, users, settings, stream, outside
<1>29. CASE MainLoopStopped
  <2>1. generation' \in Nat /\ targets' \in Seq(Target) /\ lastTarget' \in Target \cup {NoTarget}
    BY <1>29, SetEnabledData DEF MainLoopStopped
  <2> QED
    BY <1>29, <2>1 DEF MainLoopStopped, gate, inference, users, settings, stream, outside
<1>30. CASE UNCHANGED vars
  BY <1>30 DEF vars, gate, inference, users, settings, stream, outside
<1> QED
  BY <1>1, <1>2, <1>3, <1>4, <1>5, <1>6, <1>7, <1>8, <1>9, <1>10, <1>11, <1>12, <1>13, <1>14,
    <1>15, <1>16, <1>17, <1>18, <1>19, <1>20, <1>21, <1>22, <1>23, <1>24, <1>25, <1>26, <1>27,
    <1>28, <1>29, <1>30
  DEF Next, Control, Tick, Worker, Returns, Main, Terminated

\* Every step keeps the worker's request and position together.
LEMMA WorkerStep == DataOK /\ WorkerInv /\ [Next]_vars => WorkerInv'
<1> SUFFICES ASSUME DataOK, WorkerInv, [Next]_vars PROVE WorkerInv'
  OBVIOUS
<1> USE AbsenceAssumption DEF WorkerInv
<1>1. CASE WorkerTake
  BY <1>1 DEF WorkerTake, DataOK
<1>2. CASE WorkerBegin
  BY <1>2 DEF WorkerBegin
<1>3. CASE WorkerAnswer
  BY <1>3 DEF WorkerAnswer
<1>4. CASE WorkerExit
  BY <1>4 DEF WorkerExit
<1>5. UNCHANGED <<worker, working>> => WorkerInv'
  OBVIOUS
<1>6. CASE Control \/ RetryElapsed
  BY <1>5, <1>6 DEF Control, Tick, Wake, TickBegin, TickEnable, TickRate, ReceiveStale,
     Receive, ReceiveNone, ReceiveDeltas, ReceivePoses, ReceiveDone, Observe, ObserveFails,
     RequestPrediction, Submit, SubmitFails, ControlExit, RetryElapsed, inference
<1>7. ASSUME NEW c \in Callers, StopPredicting(c) \/ StartPredicting(c) \/ Returns(c)
      PROVE  WorkerInv'
  BY <1>5, <1>7 DEF StopPredicting, StartPredicting, Returns, StopReturns, StartReturns,
     inference
<1>8. CASE ChangeSettings \/ MainStopPredicting \/ Main \/ UNCHANGED vars
  BY <1>5, <1>8 DEF ChangeSettings, MainStopPredicting, Main, MainStopReturns, MainStopLoop,
     MainLoopStopped, vars, inference
<1> QED
  BY <1>1, <1>2, <1>3, <1>4, <1>6, <1>7, <1>8 DEF Next, Worker, Terminated

\* Every behaviour of the stream is type correct.
THEOREM TypeCorrect == Spec => []TypeOK
<1>1. Init => FlagsOK
  BY Zenon DEF Init, FlagsOK
<1>2. Init => DataOK
  BY SettingsAssumption, BoundsAssumption DEF Init, DataOK, InTick
<1>3. Init => WorkerInv
  BY DEF Init, WorkerInv
<1>4. TypeOK <=> FlagsOK /\ DataOK
  BY DEF TypeOK
<1> QED BY <1>1, <1>2, <1>3, <1>4, FlagsStep, DataStep, WorkerStep, PTL DEF Spec

----------------------------------------------------------------------------
(* One request in flight *)

\* A sequence of at most one element is emptied by taking its head.
LEMMA Singleton ==
  ASSUME NEW S, NEW s \in Seq(S), s # <<>>, Len(s) <= 1
  PROVE  Len(s) = 1 /\ Head(s) = s[1] /\ Tail(s) = <<>> /\ Head(s) \in S
<1>1. Len(s) = 1
  <2>1. Len(s) \in Nat /\ Len(s) # 0
    OBVIOUS
  <2> QED BY <2>1
<1>2. Tail(s) \in Seq(S) /\ Len(Tail(s)) = 0
  BY <1>1
<1>3. Tail(s) = <<>>
  BY <1>2
<1>4. Head(s) = s[1] /\ Head(s) \in S
  BY <1>1
<1> QED BY <1>1, <1>3, <1>4

\* Of two lengths that add up to at most one, a positive one leaves the other zero.
LEMMA OneOfTwo ==
  ASSUME NEW a \in Nat, NEW b \in Nat, a + b <= 1, b # 0
  PROVE  a = 0 /\ b = 1
OBVIOUS

\* Receiving a result of any kind takes the only request out of flight.
LEMMA ReceiveInFlight ==
  ASSUME DataOK, OneInFlight, results # <<>>, results' = Tail(results),
         UNCHANGED <<requests, working>>,
         pending' = NoRequest \/ pending' = (IF Answer.request = pending THEN NoRequest ELSE pending)
  PROVE  OneInFlight'
<1>1. Len(results) = 1 /\ Answer = results[1] /\ results' = <<>> /\ requests = <<>> /\ working = NoRequest
  <2>1. Len(requests) \in Nat /\ Len(results) \in Nat /\ Len(results) # 0
    BY DEF DataOK
  <2>2. Len(requests) = 0 /\ Len(results) = 1
    <3>1. Len(requests) + Len(results) <= 1
      BY DEF OneInFlight
    <3> QED BY <2>1, <3>1, OneOfTwo
  <2>4. working = NoRequest
    BY DEF OneInFlight
  <2>3. Answer = results[1] /\ Tail(results) = <<>>
    BY <2>2, Singleton DEF DataOK, Answer
  <2> QED BY <2>2, <2>3, <2>4 DEF DataOK
<1>2. pending' = NoRequest
  <2>1. Answer.request = pending
    BY <1>1 DEF OneInFlight
  <2> QED BY <2>1
<1>3. requests' = <<>> /\ working' = NoRequest /\ results' = <<>>
  BY <1>1
<1> QED BY <1>2, <1>3 DEF OneInFlight

\* A new request enters an empty circuit.
LEMMA RequestInFlight ==
  ASSUME DataOK, OneInFlight, RequestPrediction
  PROVE  OneInFlight'
<1>1. CASE WantsPrediction /\ requests # <<>>
  BY <1>1 DEF RequestPrediction, OneInFlight, outside
<1>2. CASE WantsPrediction /\ requests = <<>>
  <2>1. PICK request \in Request : pending' = request /\ requests' = Append(requests, request)
    BY <1>2 DEF RequestPrediction, Request, DataOK
  <2>2. pending = NoRequest
    BY <1>2 DEF WantsPrediction
  <2>3. results = <<>>
    <3>1. ASSUME results # <<>> PROVE FALSE
      <4>1. Len(results) \in Nat /\ Len(results) > 0 /\ results[1] \in Result
        BY <3>1 DEF DataOK
      <4>2. results[1].request = NoRequest
        BY <4>1, <2>2 DEF OneInFlight
      <4> QED BY <4>1, <4>2, AbsenceAssumption DEF Result
    <3> QED BY <3>1
  <2>4. working = NoRequest
    BY <2>2 DEF OneInFlight
  <2>5. Len(requests') = 1 /\ requests'[1] = request /\ requests' # <<>>
    BY <1>2, <2>1
  <2>6. UNCHANGED <<results, working, stopEvent>>
    BY DEF RequestPrediction, outside
  <2> QED BY <2>1, <2>3, <2>4, <2>5, <2>6 DEF OneInFlight
<1>3. CASE ~WantsPrediction
  BY <1>3 DEF RequestPrediction, OneInFlight, outside
<1> QED BY <1>1, <1>2, <1>3

\* Every step keeps exactly one request on its way, or none.
LEMMA InFlightStep ==
  DataOK /\ WorkerInv /\ OneInFlight /\ [Next]_vars => OneInFlight'
<1> SUFFICES ASSUME DataOK, WorkerInv, OneInFlight, [Next]_vars PROVE OneInFlight'
  OBVIOUS
<1>1. CASE ReceiveStale
  BY <1>1, ReceiveInFlight DEF ReceiveStale
<1>2. CASE ReceiveNone \/ ReceiveDeltas \/ ReceivePoses
  BY <1>2, ReceiveInFlight DEF Receive, ReceiveNone, ReceiveDeltas, ReceivePoses
<1>3. CASE RequestPrediction
  BY <1>3, RequestInFlight
<1>4. CASE WorkerTake
  <2>1. working = NoRequest
    BY <1>4 DEF WorkerTake, WorkerInv
  <2>2. Len(requests) = 1 /\ Head(requests) = requests[1] /\ Tail(requests) = <<>>
        /\ Len(results) = 0 /\ Head(requests) \in Request
    <3>1. Len(requests) \in Nat /\ Len(results) \in Nat /\ Len(requests) # 0
      BY <1>4 DEF DataOK, WorkerTake
    <3>2. Len(results) + Len(requests) <= 1
      BY <3>1 DEF OneInFlight
    <3>3. Len(requests) = 1 /\ Len(results) = 0
      BY <3>1, <3>2, OneOfTwo
    <3>4. requests # <<>> /\ Len(requests) <= 1
      BY <1>4, <3>3 DEF WorkerTake
    <3> QED BY <3>3, <3>4, Singleton DEF DataOK
  <2>3. working' = pending /\ requests' = <<>> /\ UNCHANGED <<results, pending, stopEvent>>
    BY <1>4, <2>2 DEF WorkerTake, OneInFlight, stream, outside
  <2>4. pending # NoRequest
    <3>1. requests[1] = pending
      BY <2>2 DEF OneInFlight
    <3> QED BY <2>2, <3>1, AbsenceAssumption
  <2> QED BY <2>2, <2>3, <2>4 DEF OneInFlight
<1>5. CASE WorkerBegin
  BY <1>5 DEF WorkerBegin, OneInFlight, DataOK, stream, outside
<1>6. CASE WorkerAnswer
  <2>1. working # NoRequest
    BY <1>6 DEF WorkerAnswer, WorkerInv
  <2>2. results = <<>> /\ requests = <<>> /\ working = pending
    BY <2>1 DEF OneInFlight, DataOK
  <2>3. PICK outcome \in Outcomes : results' = Append(results, [request |-> working, outcome |-> outcome])
    BY <1>6 DEF WorkerAnswer
  <2>4. Len(results') = 1 /\ results'[1].request = pending /\ results' # <<>>
    BY <2>2, <2>3
  <2>5. working' = NoRequest /\ UNCHANGED <<requests, pending, stopEvent>>
    BY <1>6 DEF WorkerAnswer, stream, outside
  <2> QED BY <2>2, <2>4, <2>5 DEF OneInFlight
<1>7. CASE MainStopLoop
  BY <1>7 DEF MainStopLoop, OneInFlight, stream, outside, inference
<1>8. UNCHANGED <<requests, results, working, pending, stopEvent>> => OneInFlight'
  BY DEF OneInFlight
<1>9. CASE Wake \/ TickBegin \/ TickEnable \/ TickRate \/ ReceiveDone \/ Observe
           \/ ObserveFails \/ Submit \/ SubmitFails \/ ControlExit \/ RetryElapsed
  BY <1>8, <1>9 DEF Wake, TickBegin, TickEnable, TickRate, ReceiveDone, Observe,
     ObserveFails, Submit, SubmitFails, ControlExit, RetryElapsed, stream, outside, inference
<1>10. ASSUME NEW c \in Callers, StopPredicting(c) \/ StartPredicting(c) \/ Returns(c)
       PROVE  OneInFlight'
  BY <1>8, <1>10 DEF StopPredicting, StartPredicting, Returns, StopReturns, StartReturns,
    stream, outside, inference
<1>11. CASE WorkerExit \/ ChangeSettings \/ MainStopPredicting \/ MainStopReturns
            \/ MainLoopStopped \/ UNCHANGED vars
  BY <1>8, <1>11 DEF WorkerExit, ChangeSettings, MainStopPredicting, MainStopReturns,
     MainLoopStopped, vars, stream, outside, inference
<1> QED
  BY <1>1, <1>2, <1>3, <1>4, <1>5, <1>6, <1>7, <1>9, <1>10, <1>11
  DEF Next, Control, Tick, Worker, Main, Terminated

\* One prediction request at a time makes the round trip, whatever the users do.
THEOREM OneInFlightHolds == Spec => []OneInFlight
<1>1. Init => DataOK /\ WorkerInv
  BY SettingsAssumption, BoundsAssumption DEF Init, DataOK, InTick, WorkerInv
<1>2. Init => OneInFlight
  BY DEF Init, OneInFlight
<1> QED BY <1>1, <1>2, DataStep, WorkerStep, InFlightStep, PTL DEF Spec

----------------------------------------------------------------------------
(* The plan, and what may be submitted *)

\* Opening or closing the stream keeps PlanInv, and closing it keeps PlanInv
\* even if one more pause is counted.
LEMMA SetEnabledPlan ==
  ASSUME FlagsOK, DataOK, PlanInv, NEW on \in BOOLEAN, SetEnabled(on),
         UNCHANGED <<period, pending>>, on => pauses' = pauses
  PROVE  PlanInv'
<1>1. CASE on = enabled
  <2>1. UNCHANGED <<enabled, generation, targets, lastTarget>>
    BY <1>1 DEF SetEnabled, gate, stream
  <2>2. CASE on
    <3>1. enabled /\ pauses' = pauses
      BY <1>1, <2>2
    <3> QED BY <2>1, <3>1 DEF PlanInv
  <2>3. CASE ~on
    <3>1. ~enabled
      BY <1>1, <2>3
    <3>2. targets = <<>> /\ lastTarget = NoTarget
          /\ (pending # NoRequest => pending.generation # generation)
      BY <3>1 DEF PlanInv
    <3> QED BY <2>1, <3>1, <3>2 DEF PlanInv
  <2> QED BY <2>2, <2>3
<1>2. CASE on # enabled
  <2>1. generation' = generation + 1 /\ targets' = <<>> /\ lastTarget' = NoTarget
    BY <1>2 DEF SetEnabled, Invalidate
  <2>2. pending # NoRequest => pending.generation \in Nat /\ pending.generation <= generation
    BY DEF PlanInv, DataOK, Request
  <2>3. pending' # NoRequest => pending'.generation <= generation' /\ pending'.generation # generation'
    BY <2>1, <2>2 DEF DataOK
  <2> QED BY <2>1, <2>3 DEF PlanInv
<1> QED BY <1>1, <1>2

\* A failed tick closes the stream.
LEMMA FailTickPlan ==
  ASSUME FlagsOK, DataOK, PlanInv, FailTick, UNCHANGED <<period, pending, pauses>>
  PROVE  PlanInv'
BY SetEnabledPlan DEF FailTick

\* Dropping the pending request keeps PlanInv.
LEMMA AnswerPlan ==
  ASSUME PlanInv, UNCHANGED <<enabled, generation, targets, lastTarget, period, pauses>>,
         pending' = pending \/ pending' = NoRequest
  PROVE  PlanInv'
BY DEF PlanInv

\* A failed tick that first dropped its request closes the stream all the same.
LEMMA FailAfterAnswerPlan ==
  ASSUME FlagsOK, DataOK, PlanInv, FailTick, pending' = NoRequest, UNCHANGED <<period, pauses>>
  PROVE  PlanInv'
<1>1. CASE enabled
  <2>1. targets' = <<>> /\ lastTarget' = NoTarget
    BY <1>1 DEF FailTick, SetEnabled, Invalidate
  <2> QED BY <2>1 DEF PlanInv
<1>2. CASE ~enabled
  <2>1. UNCHANGED <<enabled, targets, lastTarget>>
    BY <1>2 DEF FailTick, SetEnabled, Invalidate, gate, stream, FlagsOK
  <2> QED BY <2>1, <1>2 DEF PlanInv
<1> QED BY <1>1, <1>2

\* A new plan comes from a request of this generation, hence of this rate and
\* of the time since the latest pause.
LEMMA ReceivePosesPlan ==
  ASSUME DataOK, PlanInv, ReceivePoses
  PROVE  PlanInv'
<1>1. Answer \in Result
  BY DEF Receive, ReceivePoses, Answer, DataOK
<1>2. pending \in Request /\ pending # NoRequest /\ pending.generation = generation /\ enabled
  BY <1>1, AbsenceAssumption DEF Receive, ReceivePoses, Current, Result
<1>3. pending.period = period /\ pending.pauses = pauses
  BY <1>2 DEF PlanInv
<1>4. PICK length \in ChunkLengths, elapsed \in 0..MaxElapsed :
        LET count == FreshCount(length, elapsed, pending.horizon)
        IN  targets' = IF count > 0 THEN FreshTargets(pending, count) ELSE targets
  BY DEF Receive, ReceivePoses
<1> DEFINE count == FreshCount(length, elapsed, pending.horizon)
<1>5. count \in Nat
  <2>1. length \in Nat
    BY BoundsAssumption
  <2>2. elapsed \in Nat
    BY BoundsAssumption
  <2>3. pending.horizon \in Nat
    BY <1>2, SettingsAssumption DEF Request
  <2> QED BY <2>1, <2>2, <2>3, FreshCountType
<1>6. targets' = IF count > 0 THEN FreshTargets(pending, count) ELSE targets
  BY <1>4
<1> HIDE DEF count
<1>7. \A i \in 1..Len(targets') : targets'[i].period = period /\ targets'[i].pauses = pauses
  <2>1. CASE count > 0
    <3>1. targets' = FreshTargets(pending, count)
      BY <1>6, <2>1
    <3>2. Len(targets') = count
      BY <1>5, <3>1 DEF FreshTargets
    <3> QED BY <1>3, <1>5, <3>1, <3>2 DEF FreshTargets
  <2>2. CASE ~(count > 0)
    BY <1>6, <2>2 DEF PlanInv
  <2> QED BY <2>1, <2>2
<1>8. UNCHANGED <<enabled, generation, lastTarget, period, pauses>> /\ pending' = NoRequest
  BY DEF Receive, ReceivePoses, users, outside
<1> QED BY <1>2, <1>7, <1>8 DEF PlanInv

\* A tick that is open and submits keeps the plan's origin.
LEMMA SubmitPlan ==
  ASSUME DataOK, PlanInv, TickInv, Submit
  PROVE  PlanInv'
<1>1. enabled /\ lastTarget # NoTarget
  BY DEF TickInv, Submit
<1>2. UNCHANGED <<enabled, generation, period, pending, pauses>>
  BY DEF Submit, users, outside
<1>3. CASE targets = <<>>
  <2>1. targets' = targets /\ lastTarget' = lastTarget
    BY <1>3 DEF Submit, NextTarget
  <2> QED BY <1>2, <2>1 DEF PlanInv
<1>4. CASE targets # <<>>
  <2>1. targets' = Tail(targets) /\ lastTarget' = Head(targets)
    BY <1>4 DEF Submit, NextTarget
  <2>2. Len(targets) \in Nat /\ Len(targets) # 0 /\ Head(targets) = targets[1]
    BY <1>4 DEF DataOK
  <2>3. lastTarget'.pauses = pauses
    BY <2>1, <2>2 DEF PlanInv
  <2>4. Len(Tail(targets)) = Len(targets) - 1
        /\ \A i \in 1..Len(Tail(targets)) : Tail(targets)[i] = targets[i + 1]
    BY <1>4 DEF DataOK
  <2>5. \A i \in 1..Len(targets') : targets'[i].period = period /\ targets'[i].pauses = pauses
    BY <2>1, <2>2, <2>4 DEF PlanInv
  <2> QED BY <1>1, <1>2, <2>3, <2>5 DEF PlanInv
<1> QED BY <1>3, <1>4

\* Every step keeps the plan fresh.
LEMMA PlanStep ==
  FlagsOK /\ DataOK /\ PlanInv /\ TickInv /\ [Next]_vars => PlanInv'
<1> SUFFICES ASSUME FlagsOK, DataOK, PlanInv, TickInv, [Next]_vars PROVE PlanInv'
  OBVIOUS
<1>1. UNCHANGED <<enabled, generation, targets, lastTarget, period, pending, pauses>> => PlanInv'
  BY DEF PlanInv
<1>2. CASE Wake \/ TickBegin \/ ReceiveDone \/ RetryElapsed
  BY <1>1, <1>2 DEF Wake, TickBegin, ReceiveDone, RetryElapsed, gate, stream, users, outside
<1>3. CASE TickEnable
  <2>1. predicting \in BOOLEAN
    BY DEF FlagsOK
  <2>2. SetEnabled(predicting) /\ UNCHANGED <<period, pending, pauses>>
    BY <1>3 DEF TickEnable, users, outside
  <2> QED BY <2>1, <2>2, SetEnabledPlan
<1>4. CASE TickRate
  <2>1. CASE controlPeriod = period
    BY <1>1, <1>4, <2>1 DEF TickRate, gate, stream, users, outside
  <2>2. CASE controlPeriod # period
    <3>1. /\ generation' = generation + 1 /\ targets' = <<>>
          /\ UNCHANGED <<enabled, lastTarget, pending, pauses>>
      BY <1>4, <2>2 DEF TickRate, Invalidate, users, outside
    <3>2. pending # NoRequest => pending.generation \in Nat /\ pending.generation <= generation
      BY DEF PlanInv, DataOK, Request
    <3>3. pending' # NoRequest => pending'.generation <= generation' /\ pending'.generation # generation'
      BY <3>1, <3>2 DEF DataOK
    <3> QED BY <3>1, <3>3 DEF PlanInv
  <2> QED BY <2>1, <2>2
<1>5. CASE ReceiveStale
  BY <1>5, AnswerPlan DEF ReceiveStale, gate, stream, users, outside
<1>6. CASE ReceiveNone
  BY <1>6, AnswerPlan DEF Receive, ReceiveNone, users, outside
<1>7. CASE ReceiveDeltas
  BY <1>7, FailAfterAnswerPlan DEF Receive, ReceiveDeltas, users, outside
<1>8. CASE ReceivePoses
  BY <1>8, ReceivePosesPlan
<1>9. CASE Observe
  <2>1. enabled
    BY <1>9 DEF Observe, TickInv
  <2>2. lastTarget'.pauses = pauses \/ lastTarget' = NoTarget
    BY <1>9 DEF Observe, PlanInv
  <2>3. UNCHANGED <<enabled, generation, targets, period, pending, pauses>>
    BY <1>9 DEF Observe, users, outside
  <2> QED BY <2>1, <2>2, <2>3 DEF PlanInv
<1>10. CASE ObserveFails
  BY <1>10, FailTickPlan DEF ObserveFails, users, outside
<1>11. CASE RequestPrediction
  <2>1. CASE WantsPrediction /\ requests # <<>>
    BY <1>11, <2>1, FailTickPlan DEF RequestPrediction, users, outside
  <2>2. CASE WantsPrediction /\ requests = <<>>
    <3>1. enabled
      BY <1>11 DEF RequestPrediction, TickInv
    <3>2. /\ pending'.generation = generation /\ pending'.period = period /\ pending'.pauses = pauses
          /\ UNCHANGED <<enabled, generation, targets, lastTarget, period, pauses>>
      BY <1>11, <2>2 DEF RequestPrediction, gate, stream, users, outside
    <3> QED BY <3>1, <3>2 DEF PlanInv, DataOK
  <2>3. CASE ~WantsPrediction
    BY <1>1, <1>11, <2>3 DEF RequestPrediction, gate, stream, users, outside
  <2> QED BY <2>1, <2>2, <2>3
<1>12. CASE Submit
  BY <1>12, SubmitPlan
<1>13. CASE SubmitFails
  BY <1>13, FailTickPlan DEF SubmitFails, users, outside
<1>14. CASE ControlExit
  BY <1>14, SetEnabledPlan DEF ControlExit, users, outside
<1>15. CASE Worker
  BY <1>1, <1>15 DEF Worker, WorkerTake, WorkerBegin, WorkerAnswer, WorkerExit, gate, stream,
    users, outside
<1>16. ASSUME NEW c \in Callers, StopPredicting(c) \/ StartPredicting(c) PROVE PlanInv'
  BY <1>1, <1>16 DEF StopPredicting, StartPredicting, gate, stream
<1>17. ASSUME NEW c \in Callers, StopReturns(c) PROVE PlanInv'
  BY <1>17, SetEnabledPlan DEF StopReturns
<1>18. ASSUME NEW c \in Callers, StartReturns(c) PROVE PlanInv'
  BY <1>18, SetEnabledPlan DEF StartReturns
<1>19. CASE ChangeSettings \/ MainStopPredicting \/ MainStopLoop \/ UNCHANGED vars
  BY <1>1, <1>19 DEF ChangeSettings, MainStopPredicting, MainStopLoop, vars, gate, stream,
    users, outside
<1>20. CASE MainStopReturns
  BY <1>20, SetEnabledPlan DEF MainStopReturns
<1>21. CASE MainLoopStopped
  BY <1>21, SetEnabledPlan DEF MainLoopStopped
<1> QED
  BY <1>2, <1>3, <1>4, <1>5, <1>6, <1>7, <1>8, <1>9, <1>10, <1>11, <1>12, <1>13, <1>14,
     <1>15, <1>16, <1>17, <1>18, <1>19, <1>20, <1>21
  DEF Next, Control, Tick, Returns, Main, Terminated

\* Every step keeps what a tick has established: only the tick itself opens or
\* closes the stream while it holds the lock.
LEMMA TickStep == FlagsOK /\ DataOK /\ TickInv /\ [Next]_vars => TickInv'
<1> SUFFICES ASSUME FlagsOK, DataOK, TickInv, [Next]_vars PROVE TickInv'
  OBVIOUS
<1> USE DEF InTick
<1>1. UNCHANGED <<control, enabled, lastTarget>> => TickInv'
  BY DEF TickInv
<1>2. control' \in {"waiting", "woken", "locked", "rate", "receiving", "exited"} => TickInv'
  BY DEF TickInv
<1>3. CASE Wake \/ TickBegin \/ TickEnable \/ TickRate
  BY <1>2, <1>3 DEF Wake, TickBegin, TickEnable, TickRate
<1>4. CASE ReceiveStale \/ ReceiveNone \/ ReceivePoses
  BY <1>1, <1>4 DEF Receive, ReceiveStale, ReceiveNone, ReceivePoses, gate, stream
<1>5. CASE ReceiveDeltas \/ ObserveFails \/ SubmitFails
  BY <1>2, <1>5 DEF Receive, ReceiveDeltas, ObserveFails, SubmitFails, FailTick
<1>6. CASE ReceiveDone
  BY <1>6 DEF ReceiveDone, TickInv, gate, stream
<1>7. CASE Observe
  <2>1. lastTarget' # NoTarget
    BY <1>7, AbsenceAssumption DEF Observe, Target, DataOK
  <2>2. enabled' /\ control' = "requesting"
    BY <1>7 DEF Observe, TickInv
  <2> QED BY <2>1, <2>2 DEF TickInv
<1>8. CASE RequestPrediction
  BY <1>2, <1>8 DEF RequestPrediction, FailTick, TickInv, gate, stream
<1>9. CASE Submit \/ ControlExit
  BY <1>2, <1>9 DEF Submit, ControlExit
<1>10. CASE RetryElapsed \/ Worker
  BY <1>1, <1>10 DEF RetryElapsed, Worker, WorkerTake, WorkerBegin, WorkerAnswer, WorkerExit,
    gate, stream
<1>11. ASSUME NEW c \in Callers, StopPredicting(c) \/ StartPredicting(c) PROVE TickInv'
  BY <1>1, <1>11 DEF StopPredicting, StartPredicting, gate, stream
<1>12. LockFree /\ UNCHANGED control => TickInv'
  BY DEF LockFree, TickInv
<1>13. ASSUME NEW c \in Callers, Returns(c) PROVE TickInv'
  BY <1>12, <1>13 DEF Returns, StopReturns, StartReturns
<1>14. CASE MainStopReturns \/ MainLoopStopped
  BY <1>12, <1>14 DEF MainStopReturns, MainLoopStopped
<1>15. CASE ChangeSettings \/ MainStopPredicting \/ MainStopLoop \/ UNCHANGED vars
  BY <1>1, <1>15 DEF ChangeSettings, MainStopPredicting, MainStopLoop, vars, gate, stream
<1> QED
  BY <1>3, <1>4, <1>5, <1>6, <1>7, <1>8, <1>9, <1>10, <1>11, <1>13, <1>14, <1>15
  DEF Next, Control, Tick, Main, Terminated

\* Every step keeps the stream closed while a pause is in force.
LEMMA HoldStep == FlagsOK /\ DataOK /\ HoldInv /\ [Next]_vars => HoldInv'
<1> SUFFICES ASSUME FlagsOK, DataOK, HoldInv, [Next]_vars PROVE HoldInv'
  OBVIOUS
<1> USE DEF InTick
<1>1. UNCHANGED <<held, predicting, control, enabled>> => HoldInv'
  BY DEF HoldInv
<1>2. control' \in {"waiting", "woken", "locked", "exited"} /\ UNCHANGED <<held,
    predicting>> => HoldInv'
  BY DEF HoldInv
<1>3. CASE Wake \/ TickBegin \/ Submit \/ ControlExit
  BY <1>2, <1>3 DEF Wake, TickBegin, Submit, ControlExit, users, outside
<1>4. CASE TickEnable
  <2>1. enabled' = predicting /\ UNCHANGED <<held, predicting>>
    BY <1>4 DEF TickEnable, SetEnabled, gate, stream, users, outside
  <2> QED BY <2>1 DEF HoldInv
<1>5. CASE TickRate \/ ReceiveDone \/ Observe
  BY <1>5 DEF TickRate, ReceiveDone, Observe, HoldInv, gate, stream, users, outside
<1>6. CASE ReceiveStale \/ ReceiveNone \/ ReceivePoses
  BY <1>1, <1>6 DEF Receive, ReceiveStale, ReceiveNone, ReceivePoses, gate, stream, users,
     outside
<1>7. CASE FailTick /\ UNCHANGED held
  BY <1>7 DEF FailTick, HoldInv
<1>8. CASE ReceiveDeltas \/ ObserveFails \/ SubmitFails
  BY <1>7, <1>8 DEF Receive, ReceiveDeltas, ObserveFails, SubmitFails, users, outside
<1>9. CASE RequestPrediction
  BY <1>7, <1>9 DEF RequestPrediction, HoldInv, gate, stream, users, outside
<1>10. CASE RetryElapsed \/ Worker
  BY <1>1, <1>10 DEF RetryElapsed, Worker, WorkerTake, WorkerBegin, WorkerAnswer, WorkerExit,
    gate, stream,
     users, outside
<1>11. ASSUME NEW c \in Callers, StopPredicting(c) PROVE HoldInv'
  BY <1>11 DEF StopPredicting, HoldInv, gate, stream
<1>12. ASSUME NEW c \in Callers, StartPredicting(c) PROVE HoldInv'
  BY <1>12 DEF StartPredicting, HoldInv
<1>13. LockFree /\ UNCHANGED <<control, predicting>> /\ (held' => ~predicting) => HoldInv'
  BY DEF LockFree, HoldInv
<1>14. ASSUME NEW c \in Callers, Returns(c) PROVE HoldInv'
  BY <1>13, <1>14 DEF Returns, StopReturns, StartReturns, HoldInv
<1>15. CASE MainStopReturns \/ MainLoopStopped
  BY <1>13, <1>15 DEF MainStopReturns, MainLoopStopped, HoldInv
<1>16. CASE MainStopPredicting
  BY <1>16 DEF MainStopPredicting, HoldInv, gate, stream
<1>17. CASE ChangeSettings \/ MainStopLoop \/ UNCHANGED vars
  BY <1>1, <1>17 DEF ChangeSettings, MainStopLoop, vars, gate, stream, users, outside
<1> QED
  BY <1>3, <1>4, <1>5, <1>6, <1>8, <1>9, <1>10, <1>11, <1>12, <1>14, <1>15, <1>16, <1>17
  DEF Next, Control, Tick, Main, Terminated

\* Every step keeps a stopped stream from starting another tick.
LEMMA StopStep == FlagsOK /\ DataOK /\ StopInv /\ [Next]_vars => StopInv'
<1> SUFFICES ASSUME FlagsOK, DataOK, StopInv, [Next]_vars PROVE StopInv'
  OBVIOUS
<1> USE DEF InTick, LockFree
<1>1. UNCHANGED <<main, stopEvent, control>> => StopInv'
  BY DEF StopInv
<1>2. UNCHANGED <<main, stopEvent>> /\ (control \in InTick \/ control' \notin InTick) => StopInv'
  BY DEF StopInv
<1>3. CASE TickBegin
  BY <1>3 DEF TickBegin, StopInv, users, outside
<1>4. CASE Wake \/ TickEnable \/ TickRate \/ ReceiveDone \/ Observe \/ RequestPrediction \/ Submit \/ ControlExit
  BY <1>2, <1>4 DEF Wake, TickEnable, TickRate, ReceiveDone, Observe, RequestPrediction,
     Submit, ControlExit, users, outside
<1>5. CASE ReceiveStale \/ ReceiveNone \/ ReceivePoses \/ RetryElapsed \/ Worker
  BY <1>1, <1>5 DEF Receive, ReceiveStale, ReceiveNone, ReceivePoses, RetryElapsed, Worker,
    WorkerTake,
     WorkerBegin, WorkerAnswer, WorkerExit, users, outside
<1>6. CASE ReceiveDeltas \/ ObserveFails \/ SubmitFails
  BY <1>2, <1>6 DEF Receive, ReceiveDeltas, ObserveFails, SubmitFails, FailTick, users, outside
<1>7. ASSUME NEW c \in Callers, StopPredicting(c) \/ StartPredicting(c) \/ Returns(c)
      PROVE  StopInv'
  BY <1>1, <1>7 DEF StopPredicting, StartPredicting, Returns, StopReturns, StartReturns
<1>8. CASE MainStopPredicting \/ MainStopReturns
  BY <1>8 DEF MainStopPredicting, MainStopReturns, StopInv
<1>9. CASE MainStopLoop
  BY <1>9 DEF MainStopLoop, StopInv
<1>10. CASE MainLoopStopped
  BY <1>10 DEF MainLoopStopped, StopInv
<1>11. CASE ChangeSettings \/ UNCHANGED vars
  BY <1>1, <1>11 DEF ChangeSettings, vars, users, outside
<1> QED
  BY <1>3, <1>4, <1>5, <1>6, <1>7, <1>8, <1>9, <1>10, <1>11
  DEF Next, Control, Tick, Main, Terminated

----------------------------------------------------------------------------
(* The theorems *)

\* The inductive invariant holds in every reachable state.
THEOREM Invariance == Spec => []IInv
<1>1. Init => FlagsOK
  BY Zenon DEF Init, FlagsOK
<1>2. Init => DataOK /\ WorkerInv /\ OneInFlight
  BY SettingsAssumption, BoundsAssumption DEF Init, DataOK, InTick, WorkerInv, OneInFlight
<1>3. Init => PlanInv /\ TickInv
  BY DEF Init, PlanInv, TickInv
<1>4. Init => HoldInv /\ StopInv
  <2>1. ASSUME Init PROVE (held => ~predicting) /\ control = "waiting" /\ main = "running"
    BY <2>1, Zenon DEF Init
  <2> QED BY <2>1 DEF HoldInv, StopInv, InTick
<1>5. IInv <=> /\ FlagsOK /\ DataOK /\ WorkerInv /\ OneInFlight
               /\ PlanInv /\ TickInv /\ HoldInv /\ StopInv
  BY DEF IInv, TypeOK
<1> QED
  BY <1>1, <1>2, <1>3, <1>4, <1>5, FlagsStep, DataStep, WorkerStep, InFlightStep,
     PlanStep, TickStep, HoldStep, StopStep, PTL DEF Spec

\* No target computed for another control period is left in the plan.
THEOREM RateConsistency == Spec => []RateConsistent
<1>1. IInv => RateConsistent
  BY DEF IInv, PlanInv, RateConsistent
<1> QED BY <1>1, Invariance, PTL

\* The arm is commanded by the last step of an open tick and by nothing else,
\* with a target observed since the latest pause.
LEMMA CommandStep ==
  ASSUME IInv, [Next]_vars, arm' # arm
  PROVE  /\ ~held /\ main # "stopped"
         /\ arm'.beat = 1 - arm.beat /\ arm'.target # NoTarget /\ arm'.target.pauses = pauses
         /\ UNCHANGED <<held, main, pauses>>
<1>1. CASE Submit \/ SubmitFails
  <2>1. control = "submitting" /\ Command(NextTarget) /\ UNCHANGED <<held, main, pauses>>
    BY <1>1 DEF Submit, SubmitFails, users, outside
  <2>2. ~held
    BY <2>1 DEF IInv, TickInv, HoldInv, InTick
  <2>3. main # "stopped"
    BY <2>1 DEF IInv, StopInv, LockFree, InTick
  <2>4. lastTarget # NoTarget /\ lastTarget.pauses = pauses
    BY <2>1 DEF IInv, TickInv, PlanInv
  <2>5. NextTarget # NoTarget /\ NextTarget.pauses = pauses
    <3>1. CASE targets = <<>>
      BY <3>1, <2>4 DEF NextTarget
    <3>2. CASE targets # <<>>
      <4>1. targets \in Seq(Target)
        BY DEF IInv, TypeOK, DataOK
      <4>2. Len(targets) \in Nat /\ Len(targets) # 0 /\ Head(targets) = targets[1] /\ Head(targets) \in Target
        BY <3>2, <4>1
      <4>3. targets[1].pauses = pauses
        BY <4>2 DEF IInv, PlanInv
      <4> QED BY <3>2, <4>2, <4>3, AbsenceAssumption DEF NextTarget
    <3> QED BY <3>1, <3>2
  <2> QED BY <2>1, <2>2, <2>3, <2>5 DEF Command
<1>2. CASE ~(Submit \/ SubmitFails)
  <2>1. ASSUME NEW c \in Callers, StopPredicting(c) \/ StartPredicting(c) \/ Returns(c)
        PROVE  arm' = arm
    BY <2>1 DEF StopPredicting, StartPredicting, Returns, StopReturns, StartReturns
  <2>2. CASE Control \/ RetryElapsed \/ Worker
    BY <1>2, <2>2 DEF Control, Tick, Wake, TickBegin, TickEnable, TickRate, ReceiveStale,
       Receive, ReceiveNone, ReceiveDeltas, ReceivePoses, ReceiveDone, Observe, ObserveFails,
       RequestPrediction, ControlExit, RetryElapsed, Worker, WorkerTake, WorkerBegin,
       WorkerAnswer, WorkerExit
  <2>3. CASE ChangeSettings \/ MainStopPredicting \/ Main \/ UNCHANGED vars
    BY <2>3 DEF ChangeSettings, MainStopPredicting, Main, MainStopReturns, MainStopLoop,
       MainLoopStopped, vars
  <2> QED BY <2>1, <2>2, <2>3 DEF Next, Terminated
<1> QED BY <1>1, <1>2

\* While a pause is in force the arm is not commanded.
THEOREM PauseIsEffective == Spec => PauseHolds
<1>1. IInv /\ [Next]_vars => [arm' # arm => ~held]_vars
  BY CommandStep
<1> QED BY <1>1, Invariance, PTL DEF Spec, PauseHolds

\* No command is decided from an observation made before the latest pause.
THEOREM CommandsAreFresh == Spec => FreshAfterPause
<1>1. IInv /\ [Next]_vars => [arm' # arm => arm'.target.pauses = pauses]_vars
  BY CommandStep
<1> QED BY <1>1, Invariance, PTL DEF Spec, FreshAfterPause

\* A stopped stream never commands the arm again.
THEOREM StopIsFinal == Spec => StoppedForGood
<1>1. IInv /\ [Next]_vars => [arm' # arm => main # "stopped"]_vars
  BY CommandStep
<1> QED BY <1>1, Invariance, PTL DEF Spec, StoppedForGood

\* Steps that touch none of what is promised are stuttering steps of it.
LEMMA PromiseStutter ==
  UNCHANGED <<held, main, pauses, arm>> => UNCHANGED Promise!promised
BY DEF Promise!promised

\* A command of the stream is a command of the promise.
LEMMA PromiseCommand ==
  ASSUME IInv, [Next]_vars, arm' # arm
  PROVE  Promise!Command
BY CommandStep DEF Promise!Command

\* Every step of the stream is a step its promise allows, or invisible.
LEMMA PromiseStep ==
  ASSUME IInv, [Next]_vars
  PROVE  [Promise!Next]_(Promise!promised)
<1>1. CASE arm' # arm
  BY <1>1, PromiseCommand DEF Promise!Next
<1>2. CASE arm' = arm
  <2>1. CASE UNCHANGED <<held, main, pauses>>
    BY <1>2, <2>1, PromiseStutter
  <2>2. ASSUME NEW c \in Callers, StopReturns(c) PROVE Promise!Pause
    <3>1. held' \in BOOLEAN
      BY <2>2, Zenon DEF StopReturns, IInv, TypeOK, FlagsOK
    <3> QED BY <2>2, <3>1 DEF StopReturns, Promise!Pause
  <2>3. ASSUME NEW c \in Callers, StartPredicting(c) PROVE Promise!Resume
    BY <2>3 DEF StartPredicting, Promise!Resume
  <2>4. CASE MainStopReturns
    <3>1. held' \in BOOLEAN
      BY <2>4, Zenon DEF MainStopReturns, IInv, TypeOK, FlagsOK
    <3>2. Promise!Pause
      BY <2>4, <3>1 DEF MainStopReturns, Promise!Pause
    <3> QED BY <3>2 DEF Promise!Next
  <2>5. CASE MainLoopStopped
    BY <2>5 DEF MainLoopStopped, Promise!Stop, Promise!Next
  <2>6. CASE MainStopPredicting \/ MainStopLoop
    BY <2>6 DEF MainStopPredicting, MainStopLoop, Promise!promised
  <2>7. ASSUME NEW c \in Callers, StopPredicting(c) \/ StartReturns(c)
        PROVE  UNCHANGED <<held, main, pauses>>
    BY <2>7 DEF StopPredicting, StartReturns
  <2>8. CASE Control \/ RetryElapsed \/ Worker \/ ChangeSettings \/ UNCHANGED vars
    <3>1. UNCHANGED <<held, main, pauses>>
      BY <2>8 DEF Control, Tick, Wake, TickBegin, TickEnable, TickRate, ReceiveStale,
         Receive, ReceiveNone, ReceiveDeltas, ReceivePoses, ReceiveDone, Observe, ObserveFails,
         RequestPrediction, Submit, SubmitFails, ControlExit, RetryElapsed, Worker, WorkerTake,
         WorkerBegin, WorkerAnswer, WorkerExit, ChangeSettings, vars, users, outside
    <3> QED BY <2>1, <3>1
  <2> QED
    BY <2>1, <2>2, <2>3, <2>4, <2>5, <2>6, <2>7, <2>8
    DEF Next, Returns, Main, Terminated, Promise!Next
<1> QED BY <1>1, <1>2

\* The stream implements its promise.
THEOREM PromiseKept == Spec => KeepsPromise
<1>1. Init => Promise!Init
  BY DEF Init, Promise!Init
<1>2. IInv /\ [Next]_vars => [Promise!Next]_(Promise!promised)
  BY PromiseStep
<1> QED BY <1>1, <1>2, Invariance, PTL DEF Spec, KeepsPromise, Promise!Spec
============================================================================
