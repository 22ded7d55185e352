-------------------------- MODULE SerialLoop_proofs --------------------------
(***************************************************************************)
(* Proofs about SerialLoop for any episode, horizons, chunks, periods and  *)
(* delays, and any number of players, pauses, failures and changed         *)
(* settings.                                                               *)
(***************************************************************************)
EXTENDS SerialLoop, SequenceTheorems, TLAPS

----------------------------------------------------------------------------
(* Operators of the model *)

\* The longest period is one of the periods, and none is longer.
LEMMA LongestPeriod ==
  Longest \in Periods /\ Longest \in Nat /\ \A q \in Periods : q <= Longest
<1>1. \E p \in Periods : \A q \in Periods : q <= p
  BY SerialAssumption
<1>2. Longest \in Periods /\ \A q \in Periods : q <= Longest
  BY <1>1, Zenon DEF Longest
<1> QED BY <1>2, SerialAssumption

\* Time that passes leaves times.
LEMMA ElapseTypes ==
  ASSUME ahead \in Int, age \in Nat, NEW d \in Nat, Elapse(d)
  PROVE  ahead' \in Int /\ age' \in Nat
BY LongestPeriod DEF Elapse, AtMost, AtLeast

\* The next rows of the episode follow the cursor, are rows of the episode and no more
\* than the horizon allows.
LEMMA RowsFollow ==
  ASSUME executionHorizon \in Nat, cursor \in 0..Frames
  PROVE  /\ Rows \in Seq(Action)
         /\ Len(Rows) <= executionHorizon /\ cursor + Len(Rows) <= Frames
         /\ \A i \in 1..Len(Rows) : Rows[i] = cursor + i
<1> DEFINE n == AtMost(cursor + executionHorizon, Frames) - cursor
<1>1. n \in Nat /\ n <= executionHorizon /\ cursor + n <= Frames
  BY SerialAssumption DEF AtMost
<1>2. \A i \in 1..n : cursor + i \in Action
  BY <1>1, SerialAssumption DEF Action
<1>3. Rows = [i \in 1..n |-> cursor + i]
  BY DEF Rows
<1> HIDE DEF n
<1>4. Rows \in [1..n -> Action]
  BY <1>2, <1>3
<1>5. Rows \in Seq(Action) /\ Len(Rows) = n
  BY <1>1, <1>4, SeqDef, LenProperties
<1> QED BY <1>1, <1>3, <1>5

\* A model's chunk consists of actions that are no rows.
LEMMA ZerosChunk ==
  ASSUME NEW n \in Nat
  PROVE  [i \in 1..n |-> 0] \in Seq(Action)
<1>1. [i \in 1..n |-> 0] \in [1..n -> Action]
  BY SerialAssumption DEF Action
<1> QED BY <1>1, SeqDef

\* What is queued is the beginning of the chunk, all of it if the horizon allows.
LEMMA Queued ==
  ASSUME chunk \in Seq(Action), executionHorizon \in Nat
  PROVE  LET q == SubSeq(chunk, 1, AtMost(executionHorizon, Len(chunk)))
         IN  /\ q \in Seq(Action) /\ Len(q) = AtMost(executionHorizon, Len(chunk))
             /\ \A i \in 1..Len(q) : q[i] = chunk[i]
<1> DEFINE n == AtMost(executionHorizon, Len(chunk))
<1>1. Len(chunk) \in Nat
  BY LenProperties
<1>2. n \in Nat /\ n <= Len(chunk) /\ 1..n \subseteq 1..Len(chunk)
  BY <1>1 DEF AtMost
<1> HIDE DEF n
<1>3. 1 \in 1..Len(chunk)+1 /\ n \in (1-1)..Len(chunk)
  BY <1>1, <1>2
<1>4. /\ SubSeq(chunk, 1, n) \in Seq(Action)
      /\ Len(SubSeq(chunk, 1, n)) = IF 1 <= n THEN n-1+1 ELSE 0
      /\ \A i \in 1..n : SubSeq(chunk, 1, n)[i] = chunk[i]
  BY <1>1, <1>2, <1>3, SubSeqProperties
<1> QED BY <1>2, <1>4 DEF n

----------------------------------------------------------------------------
(* Types *)

\* Every step keeps the flags Boolean.
LEMMA FlagsStep == FlagsOK /\ [Next]_vars => FlagsOK'
<1> SUFFICES ASSUME FlagsOK, [Next]_vars PROVE FlagsOK'
  OBVIOUS
<1> USE DEF FlagsOK, shared, players, source, locals, time, past
<1>1. CASE Poll BY <1>1, Zenon DEF Poll
<1>2. CASE Idle BY <1>2, Zenon DEF Idle
<1>3. CASE Gate BY <1>3, Zenon DEF Gate
<1>4. CASE Observe BY <1>4, Zenon DEF Observe
<1>5. CASE Answer BY <1>5, Zenon DEF Answer
<1>6. CASE AnswerFails BY <1>6, Zenon DEF AnswerFails
<1>7. CASE Enqueue BY <1>7, Zenon DEF Enqueue
<1>8. CASE Take BY <1>8, Zenon DEF Take
<1>9. CASE Drop BY <1>9, Zenon DEF Drop
<1>10. CASE Check BY <1>10, Zenon DEF Check
<1>11. CASE CheckStops BY <1>11, Zenon DEF CheckStops
<1>12. CASE Apply BY <1>12, Zenon DEF Apply
<1>13. CASE Applied BY <1>13, Zenon DEF Applied
<1>14. CASE ApplyFails BY <1>14, Zenon DEF ApplyFails
<1>15. CASE Pace BY <1>15, Zenon DEF Pace
<1>16. CASE Exit BY <1>16, Zenon DEF Exit
<1>17. ASSUME NEW c \in Callers, StopPredicting(c) PROVE FlagsOK'
  BY <1>17, Zenon DEF StopPredicting
<1>18. ASSUME NEW c \in Callers, StartPredicting(c) PROVE FlagsOK'
  BY <1>18, Zenon DEF StartPredicting
<1>19. CASE ChangeSettings BY <1>19, Zenon DEF ChangeSettings
<1>20. CASE MainStopPredicting BY <1>20, Zenon DEF MainStopPredicting
<1>21. CASE MainStopLoop BY <1>21, Zenon DEF MainStopLoop
<1>22. CASE UNCHANGED vars BY <1>22, Zenon DEF vars
<1> QED
  BY <1>1, <1>2, <1>3, <1>4, <1>5, <1>6, <1>7, <1>8, <1>9, <1>10, <1>11, <1>12, <1>13,
    <1>14, <1>15, <1>16, <1>17, <1>18, <1>19, <1>20, <1>21, <1>22
  DEF Next, Loop, Terminated

\* Every step keeps the data typed.
LEMMA DataStep == DataOK /\ [Next]_vars => DataOK'
<1> SUFFICES ASSUME DataOK, [Next]_vars PROVE DataOK'
  OBVIOUS
<1> USE SerialAssumption DEF DataOK, shared, players, source, locals, time, past, Steps
<1>1. CASE Poll BY <1>1 DEF Poll
<1>2. CASE Idle
  <2>1. queue' \in Seq(Action) BY <1>2 DEF Idle
  <2> QED BY <1>2, <2>1, LongestPeriod DEF Idle
<1>3. CASE Gate BY <1>3 DEF Gate
<1>4. CASE Observe BY <1>4 DEF Observe
<1>5. CASE Answer
  <2>1. chunk' \in Seq(Action) /\ cursor' \in 0..Frames
    <3>1. CASE config.recorded
      <4>1. chunk' = Rows /\ cursor' = cursor + Len(chunk')
        BY <1>5, <3>1 DEF Answer
      <4> QED BY <4>1, RowsFollow, LenProperties
    <3>2. CASE ~config.recorded
      <4>1. PICK n \in ChunkLengths : chunk' = [i \in 1..n |-> 0]
        BY <1>5, <3>2 DEF Answer
      <4> QED BY <1>5, <3>2, <4>1, ZerosChunk DEF Answer
    <3> QED BY <3>1, <3>2
  <2>2. ahead' \in Int /\ age' \in Nat
    BY <1>5, ElapseTypes DEF Answer
  <2> QED BY <1>5, <2>1, <2>2 DEF Answer
<1>6. CASE AnswerFails
  <2>1. ahead' \in Int /\ age' \in Nat
    BY <1>6, ElapseTypes, LongestPeriod DEF AnswerFails
  <2> QED BY <1>6, <2>1 DEF AnswerFails
<1>7. CASE Enqueue
  <2>1. queue' \in Seq(Action) /\ chunk' \in Seq(Action)
    BY <1>7, Queued DEF Enqueue
  <2> QED BY <1>7, <2>1 DEF Enqueue
<1>8. CASE Take
  <2>1. action' \in Action /\ queue' \in Seq(Action)
    BY <1>8, HeadTailProperties DEF Take
  <2> QED BY <1>8, <2>1 DEF Take, Action, NoAction
<1>9. CASE Drop
  <2>1. queue' \in Seq(Action) BY <1>9 DEF Drop
  <2> QED BY <1>9, <2>1 DEF Drop
<1>10. CASE Check
  <2>1. ahead' \in Int /\ age' \in Nat /\ held' \in Nat
    <3>1. PICK d \in Nat : Elapse(d) /\ held' = AtMost(d, Longest)
      BY <1>10 DEF Check, HeldUp
    <3> QED BY <3>1, ElapseTypes, LongestPeriod DEF AtMost
  <2> QED BY <1>10, <2>1 DEF Check
<1>11. CASE CheckStops BY <1>11 DEF CheckStops
<1>12. CASE Apply BY <1>12 DEF Apply, Action, NoAction
<1>13. CASE Applied
  <2>1. ahead' \in Int /\ age' \in Nat
    BY <1>13, ElapseTypes DEF Applied
  <2> QED BY <1>13, <2>1 DEF Applied
<1>14. CASE ApplyFails BY <1>14 DEF ApplyFails
<1>15. CASE Pace BY <1>15, LongestPeriod DEF Pace, AtMost
<1>16. CASE Exit BY <1>16 DEF Exit
<1>17. ASSUME NEW c \in Callers, StopPredicting(c) PROVE DataOK'
  BY <1>17 DEF StopPredicting
<1>18. ASSUME NEW c \in Callers, StartPredicting(c) PROVE DataOK'
  BY <1>18 DEF StartPredicting
<1>19. CASE ChangeSettings BY <1>19 DEF ChangeSettings
<1>20. CASE MainStopPredicting BY <1>20 DEF MainStopPredicting
<1>21. CASE MainStopLoop BY <1>21 DEF MainStopLoop
<1>22. CASE UNCHANGED vars BY <1>22 DEF vars
<1> QED
  BY <1>1, <1>2, <1>3, <1>4, <1>5, <1>6, <1>7, <1>8, <1>9, <1>10, <1>11, <1>12, <1>13,
    <1>14, <1>15, <1>16, <1>17, <1>18, <1>19, <1>20, <1>21, <1>22
  DEF Next, Loop, Terminated

----------------------------------------------------------------------------
(* The inductive invariant *)

\* What has passed the check is sent although somebody pauses, and nothing else is.
LEMMA GateStep == FlagsOK /\ GateInv /\ [Next]_vars => GateInv'
<1> SUFFICES ASSUME FlagsOK, GateInv, [Next]_vars PROVE GateInv'
  OBVIOUS
<1> USE DEF FlagsOK, GateInv, shared, players, source, locals, time, past
<1>1. CASE Poll
  <2>1. loop' # "applying"
    BY <1>1 DEF Poll
  <2> QED BY <2>1
<1>2. CASE Idle
  BY <1>2, Zenon DEF Idle
<1>3. CASE Gate
  <2>1. loop' # "applying"
    BY <1>3 DEF Gate
  <2> QED BY <2>1
<1>4. CASE Observe
  <2>1. loop' # "applying"
    BY <1>4 DEF Observe
  <2> QED BY <2>1
<1>5. CASE Answer
  BY <1>5, Zenon DEF Answer
<1>6. CASE AnswerFails
  BY <1>6, Zenon DEF AnswerFails
<1>7. CASE Enqueue
  BY <1>7, Zenon DEF Enqueue
<1>8. CASE Take
  BY <1>8, Zenon DEF Take
<1>9. CASE Drop
  BY <1>9, Zenon DEF Drop
<1>10. CASE Check
  BY <1>10, Zenon DEF Check
<1>11. CASE CheckStops
  BY <1>11, Zenon DEF CheckStops
<1>12. CASE Apply
  BY <1>12, Zenon DEF Apply
<1>13. CASE Applied
  BY <1>13, Zenon DEF Applied
<1>14. CASE ApplyFails
  <2>1. loop' # "applying"
    BY <1>14 DEF ApplyFails
  <2> QED BY <2>1
<1>15. CASE Pace
  BY <1>15, Zenon DEF Pace
<1>16. CASE Exit
  BY <1>16, Zenon DEF Exit
<1>17. ASSUME NEW c \in Callers, StopPredicting(c) PROVE GateInv'
  BY <1>17, Zenon DEF StopPredicting
<1>18. ASSUME NEW c \in Callers, StartPredicting(c) PROVE GateInv'
  BY <1>18, Zenon DEF StartPredicting
<1>19. CASE ChangeSettings
  BY <1>19, Zenon DEF ChangeSettings
<1>20. CASE MainStopPredicting
  BY <1>20, Zenon DEF MainStopPredicting
<1>21. CASE MainStopLoop
  BY <1>21, Zenon DEF MainStopLoop
<1>22. CASE UNCHANGED vars
  BY <1>22, Zenon DEF vars
<1> QED
  BY <1>1, <1>2, <1>3, <1>4, <1>5, <1>6, <1>7, <1>8, <1>9, <1>10, <1>11, <1>12, <1>13,
    <1>14, <1>15, <1>16, <1>17, <1>18, <1>19, <1>20, <1>21, <1>22
  DEF Next, Loop, Terminated

\* The loop asks for a chunk when the queue is empty, and queues it at once.
LEMMA EmptyStep == EmptyInv /\ [Next]_vars => EmptyInv'
<1> SUFFICES ASSUME EmptyInv, [Next]_vars PROVE EmptyInv'
  OBVIOUS
<1> USE DEF EmptyInv, shared, players, source, locals, time, past
<1>1. CASE Poll
  BY <1>1 DEF Poll
<1>2. CASE Idle
  BY <1>2 DEF Idle
<1>3. CASE Gate
  BY <1>3 DEF Gate
<1>4. CASE Observe
  BY <1>4 DEF Observe
<1>5. CASE Answer
  BY <1>5 DEF Answer
<1>6. CASE AnswerFails
  BY <1>6 DEF AnswerFails
<1>7. CASE Enqueue
  BY <1>7 DEF Enqueue
<1>8. CASE Take
  BY <1>8 DEF Take
<1>9. CASE Drop
  BY <1>9 DEF Drop
<1>10. CASE Check
  BY <1>10 DEF Check
<1>11. CASE CheckStops
  BY <1>11 DEF CheckStops
<1>12. CASE Apply
  BY <1>12 DEF Apply
<1>13. CASE Applied
  BY <1>13 DEF Applied
<1>14. CASE ApplyFails
  BY <1>14 DEF ApplyFails
<1>15. CASE Pace
  BY <1>15 DEF Pace
<1>16. CASE Exit
  BY <1>16 DEF Exit
<1>17. ASSUME NEW c \in Callers, StopPredicting(c) PROVE EmptyInv'
  BY <1>17 DEF StopPredicting
<1>18. ASSUME NEW c \in Callers, StartPredicting(c) PROVE EmptyInv'
  BY <1>18 DEF StartPredicting
<1>19. CASE ChangeSettings
  BY <1>19 DEF ChangeSettings
<1>20. CASE MainStopPredicting
  BY <1>20 DEF MainStopPredicting
<1>21. CASE MainStopLoop
  BY <1>21 DEF MainStopLoop
<1>22. CASE UNCHANGED vars
  BY <1>22 DEF vars
<1> QED
  BY <1>1, <1>2, <1>3, <1>4, <1>5, <1>6, <1>7, <1>8, <1>9, <1>10, <1>11, <1>12, <1>13,
    <1>14, <1>15, <1>16, <1>17, <1>18, <1>19, <1>20, <1>21, <1>22
  DEF Next, Loop, Terminated

\* What a recorded loop has to do, it does in the configuration it began with.
LEMMA ConfigKept == [Next]_vars => config' = config
<1> SUFFICES ASSUME [Next]_vars PROVE config' = config
  OBVIOUS
<1> USE DEF shared, players, source, locals, time, past
<1>1. CASE Poll
  BY <1>1 DEF Poll
<1>2. CASE Idle
  BY <1>2 DEF Idle
<1>3. CASE Gate
  BY <1>3 DEF Gate
<1>4. CASE Observe
  BY <1>4 DEF Observe
<1>5. CASE Answer
  BY <1>5 DEF Answer
<1>6. CASE AnswerFails
  BY <1>6 DEF AnswerFails
<1>7. CASE Enqueue
  BY <1>7 DEF Enqueue
<1>8. CASE Take
  BY <1>8 DEF Take
<1>9. CASE Drop
  BY <1>9 DEF Drop
<1>10. CASE Check
  BY <1>10 DEF Check
<1>11. CASE CheckStops
  BY <1>11 DEF CheckStops
<1>12. CASE Apply
  BY <1>12 DEF Apply
<1>13. CASE Applied
  BY <1>13 DEF Applied
<1>14. CASE ApplyFails
  BY <1>14 DEF ApplyFails
<1>15. CASE Pace
  BY <1>15 DEF Pace
<1>16. CASE Exit
  BY <1>16 DEF Exit
<1>17. ASSUME NEW c \in Callers, StopPredicting(c) PROVE config' = config
  BY <1>17 DEF StopPredicting
<1>18. ASSUME NEW c \in Callers, StartPredicting(c) PROVE config' = config
  BY <1>18 DEF StartPredicting
<1>19. CASE ChangeSettings
  BY <1>19 DEF ChangeSettings
<1>20. CASE MainStopPredicting
  BY <1>20 DEF MainStopPredicting
<1>21. CASE MainStopLoop
  BY <1>21 DEF MainStopLoop
<1>22. CASE UNCHANGED vars
  BY <1>22 DEF vars
<1> QED
  BY <1>1, <1>2, <1>3, <1>4, <1>5, <1>6, <1>7, <1>8, <1>9, <1>10, <1>11, <1>12, <1>13,
    <1>14, <1>15, <1>16, <1>17, <1>18, <1>19, <1>20, <1>21, <1>22
  DEF Next, Loop, Terminated

\* The numbers of the invariant are numbers.
LEMMA Numbers ==
  ASSUME DataOK
  PROVE  /\ Len(queue) \in Nat /\ Len(chunk) \in Nat /\ cursor \in Nat /\ lastRow \in Nat
         /\ executionHorizon \in Nat \ {0} /\ controlPeriod \in Nat \ {0}
         /\ period \in Nat \ {0} /\ action \in Int
         /\ \A i \in 1..Len(queue) : queue[i] \in Nat
         /\ \A i \in 1..Len(chunk) : chunk[i] \in Nat
<1>1. /\ queue \in Seq(Action) /\ chunk \in Seq(Action) /\ Action \subseteq Nat
      /\ action \in Action \cup {NoAction}
  BY SerialAssumption DEF DataOK, Action
<1>2. /\ Len(queue) \in Nat /\ Len(chunk) \in Nat
      /\ \A i \in 1..Len(queue) : queue[i] \in Nat
      /\ \A i \in 1..Len(chunk) : chunk[i] \in Nat
  BY <1>1, LenProperties, ElementOfSeq
<1>3. action \in Int
  BY <1>1 DEF NoAction
<1> QED BY <1>2, <1>3, SerialAssumption DEF DataOK

\* A sleep may always end late.
LEMMA SomeLate == \E late \in Lates : late >= 0
<1>1. PICK late : late \in Lates
  BY SerialAssumption
<1>2. late \in Nat
  BY <1>1, SerialAssumption
<1> QED BY <1>1, <1>2

\* The next action is the queue's first, the others keep their order.
LEMMA TakeQueue ==
  ASSUME DataOK, Take
  PROVE  /\ Len(queue) \in Nat \ {0} /\ action' = queue[1] /\ action' \in Nat
         /\ Len(queue') = Len(queue) - 1
         /\ \A i \in 1..Len(queue') : queue'[i] = queue[i + 1]
<1>1. queue \in Seq(Action) /\ queue # <<>> /\ action' = Head(queue) /\ queue' = Tail(queue)
  BY DEF Take, DataOK
<1>2. Len(queue) \in Nat \ {0}
  BY <1>1, EmptySeq
<1>3. 1 \in 1..Len(queue)
  BY <1>2
<1>4. queue[1] \in Nat
  BY <1>3, Numbers
<1>5. Head(queue) = queue[1]
  BY <1>1
<1> QED BY <1>1, <1>2, <1>4, <1>5, HeadTailProperties

\* The loop queues as much of its chunk as the horizon allows.
LEMMA EnqueueQueue ==
  ASSUME DataOK, Enqueue
  PROVE  /\ Len(queue') = AtMost(executionHorizon, Len(chunk)) /\ Len(queue') <= Len(chunk)
         /\ \A i \in 1..Len(queue') : queue'[i] = chunk[i]
         /\ chunk' = <<>> /\ Len(chunk') = 0
<1>1. chunk \in Seq(Action) /\ executionHorizon \in Nat
  BY SerialAssumption DEF DataOK
<1>2. /\ Len(queue') = AtMost(executionHorizon, Len(chunk))
      /\ \A i \in 1..Len(queue') : queue'[i] = chunk[i]
      /\ chunk' = <<>>
  BY <1>1, Queued DEF Enqueue
<1> QED BY <1>1, <1>2, Numbers DEF AtMost

\* A recorded answer is the rows that follow the cursor.
LEMMA AnswerRows ==
  ASSUME DataOK, Answer, config.recorded
  PROVE  /\ Len(chunk') \in Nat /\ Len(chunk') <= executionHorizon
         /\ cursor' = cursor + Len(chunk')
         /\ \A i \in 1..Len(chunk') : chunk'[i] = cursor + i
<1>1. chunk' = Rows /\ cursor' = cursor + Len(chunk')
  BY DEF Answer
<1>2. executionHorizon \in Nat /\ cursor \in 0..Frames
  BY Numbers DEF DataOK
<1> QED BY <1>1, <1>2, RowsFollow, LenProperties

\* Rows are predicted, queued, taken and sent in their order, each of them once.
LEMMA RowsStep ==
  DataOK /\ EmptyInv /\ config.recorded /\ RowsInv /\ [Next]_vars => RowsInv'
<1> SUFFICES ASSUME DataOK, EmptyInv, config.recorded, RowsInv, [Next]_vars PROVE RowsInv'
  OBVIOUS
<1> USE Numbers DEF RowsInv, InHand, shared, players, source, locals, time, past
<1>1. CASE Poll
  BY <1>1 DEF Poll
<1>2. CASE Idle
  <2>1. queue' = <<>> /\ Len(queue') = 0
    BY <1>2 DEF Idle
  <2> QED BY <1>2, <2>1 DEF Idle
<1>3. CASE Gate
  BY <1>3 DEF Gate
<1>4. CASE Observe
  BY <1>4 DEF Observe
<1>5. CASE Answer
  <2>1. queue = <<>> /\ Len(queue) = 0 /\ chunk = <<>> /\ Len(chunk) = 0
    BY <1>5 DEF Answer, EmptyInv
  <2>2. UNCHANGED <<queue, lastRow, action>> /\ loop' = "received"
    BY <1>5 DEF Answer
  <2> QED BY <1>5, <2>1, <2>2, AnswerRows
<1>6. CASE AnswerFails
  BY <1>6 DEF AnswerFails
<1>7. CASE Enqueue
  <2>1. UNCHANGED <<cursor, lastRow, action>> /\ loop' = "taking"
    BY <1>7 DEF Enqueue
  <2>2. queue = <<>> /\ Len(chunk) \in Nat /\ Len(queue') \in Nat
    BY <1>7, EnqueueQueue DEF Enqueue, EmptyInv, AtMost
  <2>3. /\ Len(queue') <= Len(chunk) /\ Len(chunk') = 0
        /\ \A i \in 1..Len(queue') : queue'[i] = cursor - Len(chunk) + i
    BY <1>7, EnqueueQueue DEF RowsInv
  <2> HIDE DEF RowsInv
  <2>4. lastRow + Len(chunk) <= cursor
    BY DEF RowsInv
  <2>5. \A i \in 1..Len(queue') : lastRow < queue'[i] /\ queue'[i] <= cursor
    BY <2>3, <2>4, SMTT(20)
  <2>6. \A i, j \in 1..Len(queue') : queue'[j] - queue'[i] = j - i
    BY <2>3
  <2> QED BY <2>1, <2>3, <2>4, <2>5, <2>6 DEF RowsInv
<1>8. CASE Take
  <2>1. UNCHANGED <<cursor, lastRow, chunk>>
    BY <1>8 DEF Take
  <2>2. /\ Len(queue) \in Nat \ {0} /\ action' = queue[1] /\ action' \in Nat
        /\ Len(queue') = Len(queue) - 1
        /\ \A i \in 1..Len(queue') : queue'[i] = queue[i + 1] /\ i + 1 \in 1..Len(queue)
    BY <1>8, TakeQueue
  <2>3. \A i \in 1..Len(queue) : lastRow < queue[i] /\ queue[i] <= cursor
    OBVIOUS
  <2>4. \A i, j \in 1..Len(queue) : queue[j] - queue[i] = j - i
    OBVIOUS
  <2>5. \A i \in 1..Len(queue') : queue'[i] \in Nat
    BY <2>2
  <2>6. 1 \in 1..Len(queue)
    BY <2>2
  <2>7. \A i \in 1..Len(queue') : lastRow < queue'[i] /\ queue'[i] <= cursor
    BY <2>2, <2>3
  <2>8. \A i, j \in 1..Len(queue') : queue'[j] - queue'[i] = j - i
    <3> SUFFICES ASSUME NEW i \in 1..Len(queue'), NEW j \in 1..Len(queue')
                 PROVE  queue'[j] - queue'[i] = j - i
      OBVIOUS
    <3>1. queue[j + 1] - queue[i + 1] = (j + 1) - (i + 1)
      BY <2>2, <2>4
    <3> QED BY <2>2, <3>1
  <2>9. \A i \in 1..Len(queue') : queue'[i] = action' + i
    <3> SUFFICES ASSUME NEW i \in 1..Len(queue') PROVE queue'[i] = action' + i
      OBVIOUS
    <3>1. queue[i + 1] - queue[1] = (i + 1) - 1
      BY <2>2, <2>4, <2>6
    <3>2. queue'[i] = queue[i + 1] /\ action' = queue[1] /\ queue'[i] \in Nat /\ action' \in Nat
      BY <2>2, <2>5
    <3> HIDE Numbers DEF RowsInv
    <3> QED BY <3>1, <3>2
  <2>10. lastRow < action' /\ action' <= cursor
    BY <2>2, <2>3, <2>6
  <2> QED BY <2>1, <2>7, <2>8, <2>9, <2>10
<1>9. CASE Drop
  <2>1. queue' = <<>> /\ Len(queue') = 0
    BY <1>9 DEF Drop
  <2> QED BY <1>9, <2>1 DEF Drop
<1>10. CASE Check
  BY <1>10 DEF Check
<1>11. CASE CheckStops
  BY <1>11 DEF CheckStops
<1>12. CASE Apply
  <2>1. UNCHANGED <<cursor, queue, chunk>> /\ lastRow' = action /\ loop' = "executing"
    BY <1>12 DEF Apply
  <2>2. lastRow < action /\ action <= cursor /\ Len(chunk) = 0 /\ chunk = <<>>
    BY <1>12 DEF Apply, EmptyInv
  <2>3. \A i \in 1..Len(queue) : queue[i] = action + i
    BY <1>12 DEF Apply
  <2> QED BY <2>1, <2>2, <2>3
<1>13. CASE Applied
  BY <1>13 DEF Applied
<1>14. CASE ApplyFails
  BY <1>14 DEF ApplyFails
<1>15. CASE Pace
  BY <1>15 DEF Pace
<1>16. CASE Exit
  BY <1>16 DEF Exit
<1>17. ASSUME NEW c \in Callers, StopPredicting(c) PROVE RowsInv'
  BY <1>17 DEF StopPredicting
<1>18. ASSUME NEW c \in Callers, StartPredicting(c) PROVE RowsInv'
  BY <1>18 DEF StartPredicting
<1>19. CASE ChangeSettings
  BY <1>19 DEF ChangeSettings
<1>20. CASE MainStopPredicting
  BY <1>20 DEF MainStopPredicting
<1>21. CASE MainStopLoop
  BY <1>21 DEF MainStopLoop
<1>22. CASE UNCHANGED vars
  BY <1>22 DEF vars
<1> QED
  BY <1>1, <1>2, <1>3, <1>4, <1>5, <1>6, <1>7, <1>8, <1>9, <1>10, <1>11, <1>12, <1>13,
    <1>14, <1>15, <1>16, <1>17, <1>18, <1>19, <1>20, <1>21, <1>22
  DEF Next, Loop, Terminated

\* As long as nobody pauses or changes the horizon, what was predicted is sent, queued or
\* in hand.
LEMMA CompleteStep ==
  /\ FlagsOK /\ DataOK /\ EmptyInv /\ config.recorded /\ RowsInv /\ CompleteInv
  /\ [Next]_vars
  => CompleteInv'
<1> SUFFICES ASSUME FlagsOK, DataOK, EmptyInv, config.recorded, RowsInv, CompleteInv,
                    [Next]_vars
             PROVE  CompleteInv'
  OBVIOUS
<1> USE Numbers DEF CompleteInv, InHand, shared, players, source, locals, time, past
<1>1. CASE Poll
  BY <1>1 DEF Poll
<1>2. CASE Idle
  <2>1. ~(~touched /\ loop \notin {"exiting", "exited"}) /\ touched' = touched
    BY <1>2, Zenon DEF Idle, CompleteInv
  <2> QED BY <1>2, <2>1 DEF Idle
<1>3. CASE Gate
  BY <1>3 DEF Gate
<1>4. CASE Observe
  BY <1>4 DEF Observe
<1>5. CASE Answer
  <2>1. queue = <<>> /\ Len(queue) = 0 /\ chunk = <<>> /\ Len(chunk) = 0
    BY <1>5 DEF Answer, EmptyInv
  <2>2. UNCHANGED <<queue, lastRow, action, predicting, touched, executionHorizon>>
    BY <1>5 DEF Answer
  <2>3. loop = "predicting" /\ loop' = "received"
    BY <1>5 DEF Answer
  <2> QED BY <1>5, <2>1, <2>2, <2>3, AnswerRows
<1>6. CASE AnswerFails
  BY <1>6 DEF AnswerFails
<1>7. CASE Enqueue
  <2>1. queue = <<>> /\ Len(queue) = 0
    BY <1>7 DEF Enqueue, EmptyInv
  <2>2. UNCHANGED <<cursor, lastRow, action, predicting, touched, executionHorizon>>
    BY <1>7 DEF Enqueue
  <2>3. loop = "received" /\ loop' = "taking"
    BY <1>7 DEF Enqueue
  <2> QED BY <1>7, <2>1, <2>2, <2>3, EnqueueQueue DEF AtMost
<1>8. CASE Take
  <2>1. UNCHANGED <<cursor, lastRow, chunk, predicting, touched, executionHorizon>>
    BY <1>8 DEF Take
  <2>2. loop = "taking" /\ loop' = "checking" /\ chunk = <<>> /\ Len(chunk) = 0
    BY <1>8 DEF Take, EmptyInv
  <2>3. /\ Len(queue) \in Nat \ {0} /\ action' = queue[1] /\ Len(queue') = Len(queue) - 1
    BY <1>8, TakeQueue
  <2>4. lastRow < queue[1] /\ queue[Len(queue)] <= cursor
        /\ queue[Len(queue)] - queue[1] = Len(queue) - 1
    <3>1. 1 \in 1..Len(queue) /\ Len(queue) \in 1..Len(queue)
      BY <2>3
    <3> QED BY <3>1 DEF RowsInv
  <2>5. CASE ~touched
    <3>1. lastRow + Len(queue) = cursor /\ predicting
      BY <2>2, <2>5
    <3>2. /\ queue[1] \in Nat /\ queue[Len(queue)] \in Nat
          /\ lastRow \in Nat /\ cursor \in Nat
      BY <2>3
    <3>3. queue[1] = lastRow + 1
      <4> HIDE Numbers DEF CompleteInv
      <4> QED BY <2>3, <2>4, <3>1, <3>2
    <3> QED BY <2>1, <2>2, <2>3, <3>1, <3>3
  <2>6. CASE touched
    BY <2>1, <2>6
  <2> QED BY <2>5, <2>6
<1>9. CASE Drop
  BY <1>9 DEF Drop
<1>10. CASE Check
  BY <1>10 DEF Check
<1>11. CASE CheckStops
  BY <1>11 DEF CheckStops
<1>12. CASE Apply
  BY <1>12 DEF Apply
<1>13. CASE Applied
  BY <1>13 DEF Applied
<1>14. CASE ApplyFails
  BY <1>14 DEF ApplyFails
<1>15. CASE Pace
  BY <1>15 DEF Pace
<1>16. CASE Exit
  BY <1>16 DEF Exit
<1>17. ASSUME NEW c \in Callers, StopPredicting(c) PROVE CompleteInv'
  BY <1>17 DEF StopPredicting
<1>18. ASSUME NEW c \in Callers, StartPredicting(c) PROVE CompleteInv'
  BY <1>18 DEF StartPredicting
<1>19. CASE ChangeSettings
  BY <1>19 DEF ChangeSettings
<1>20. CASE MainStopPredicting
  BY <1>20 DEF MainStopPredicting
<1>21. CASE MainStopLoop
  BY <1>21 DEF MainStopLoop
<1>22. CASE UNCHANGED vars
  BY <1>22 DEF vars
<1> QED
  BY <1>1, <1>2, <1>3, <1>4, <1>5, <1>6, <1>7, <1>8, <1>9, <1>10, <1>11, <1>12, <1>13,
    <1>14, <1>15, <1>16, <1>17, <1>18, <1>19, <1>20, <1>21, <1>22
  DEF Next, Loop, Terminated

\* Streamed targets keep their distance.
LEMMA PaceStep ==
  DataOK /\ EmptyInv /\ Tidybot /\ config.recorded /\ PaceInv /\ [Next]_vars => PaceInv'
<1> SUFFICES ASSUME DataOK, EmptyInv, Tidybot, config.recorded, PaceInv, [Next]_vars
             PROVE  PaceInv'
  OBVIOUS
<1> USE SerialAssumption, Numbers, LongestPeriod DEF DataOK, PaceInv, ToSend,
        shared, players, source, locals, time, past
<1>1. CASE Poll
  BY <1>1 DEF Poll
<1>2. CASE Idle
  <2>1. queue' = <<>> /\ loop' = "polling"
    BY <1>2 DEF Idle
  <2> QED BY <2>1
<1>3. CASE Gate
  BY <1>3 DEF Gate
<1>4. CASE Observe
  BY <1>4 DEF Observe
<1>5. CASE Answer
  BY <1>5 DEF Answer
<1>6. CASE AnswerFails
  <2>1. queue' = <<>> /\ loop' = "polling"
    BY <1>6 DEF AnswerFails, EmptyInv
  <2> QED BY <2>1
<1>7. CASE Enqueue
  <2>1. ahead' = 0 /\ loop' = "taking"
    BY <1>7 DEF Enqueue
  <2>2. PICK late \in Lates : late >= 0
    BY SomeLate
  <2>3. ahead' + late >= 0
    BY <2>1, <2>2
  <2> QED BY <2>1, <2>3
<1>8. CASE Take
  BY <1>8 DEF Take
<1>9. CASE Drop
  BY <1>9 DEF Drop
<1>10. CASE Check
  <2>1. PICK d \in Nat : Elapse(d) /\ held' = AtMost(d, Longest)
    BY <1>10 DEF Check, HeldUp
  <2>2. PICK late \in Lates : ahead + late >= 0
    BY <1>10 DEF Check
  <2>3. ahead' + held' + late >= 0
    BY <2>1, <2>2 DEF Elapse, AtMost, AtLeast
  <2>4. loop' = "applying"
    BY <1>10 DEF Check
  <2> QED BY <2>3, <2>4
<1>11. CASE CheckStops
  BY <1>11 DEF CheckStops
<1>12. CASE Apply
  <2>1. PICK late \in Lates : ahead + held + late >= 0
    BY <1>12 DEF Apply
  <2>2. age' = 0 /\ ahead' = ahead /\ held' = held /\ loop' = "executing"
    BY <1>12 DEF Apply
  <2>3. age' + held' + ahead' + late >= 0
    BY <2>1, <2>2
  <2> QED BY <2>2, <2>3
<1>13. CASE Applied
  <2>1. PICK d \in Durations : Elapse(d)
    BY <1>13 DEF Applied
  <2>2. PICK late \in Lates : age + held + ahead + late >= 0
    BY <1>13 DEF Applied
  <2>3. held' = held /\ loop' = "pacing"
    BY <1>13 DEF Applied
  <2>4. age' + held' + ahead' + late >= 0
    BY <2>1, <2>2, <2>3 DEF Elapse, AtMost, AtLeast
  <2> QED BY <2>3, <2>4
<1>14. CASE ApplyFails
  BY <1>14 DEF ApplyFails
<1>15. CASE Pace
  <2>1. \E late \in Lates : ahead' + late >= 0
    BY <1>15 DEF Pace
  <2>2. loop' = "polling"
    BY <1>15 DEF Pace
  <2> QED BY <2>1, <2>2
<1>16. CASE Exit
  BY <1>16 DEF Exit
<1>17. ASSUME NEW c \in Callers, StopPredicting(c) PROVE PaceInv'
  BY <1>17 DEF StopPredicting
<1>18. ASSUME NEW c \in Callers, StartPredicting(c) PROVE PaceInv'
  BY <1>18 DEF StartPredicting
<1>19. CASE ChangeSettings
  BY <1>19 DEF ChangeSettings
<1>20. CASE MainStopPredicting
  BY <1>20 DEF MainStopPredicting
<1>21. CASE MainStopLoop
  BY <1>21 DEF MainStopLoop
<1>22. CASE UNCHANGED vars
  BY <1>22 DEF vars
<1> QED
  BY <1>1, <1>2, <1>3, <1>4, <1>5, <1>6, <1>7, <1>8, <1>9, <1>10, <1>11, <1>12, <1>13,
    <1>14, <1>15, <1>16, <1>17, <1>18, <1>19, <1>20, <1>21, <1>22
  DEF Next, Loop, Terminated

\* The invariant holds before the first step.
LEMMA InitInv == Init => IInv
<1> SUFFICES ASSUME Init PROVE IInv
  OBVIOUS
<1>1. FlagsOK
  BY Zenon DEF Init, FlagsOK
<1>2. DataOK
  <2>1. queue \in Seq(Action) /\ chunk \in Seq(Action)
    BY DEF Init
  <2> QED BY <2>1, SerialAssumption, LongestPeriod DEF Init, DataOK, Steps, Action, NoAction
<1>3. queue = <<>> /\ chunk = <<>> /\ Len(queue) = 0 /\ Len(chunk) = 0
  BY DEF Init
<1>4. GateInv /\ EmptyInv
  BY <1>3 DEF Init, GateInv, EmptyInv
<1>5. RowsInv /\ CompleteInv
  BY <1>3, SerialAssumption DEF Init, RowsInv, CompleteInv, InHand
<1>6. PaceInv
  BY <1>3 DEF Init, PaceInv, ToSend
<1> QED BY <1>1, <1>2, <1>4, <1>5, <1>6, Zenon DEF IInv, TypeOK

\* Every step keeps the invariant.
LEMMA StepInv == IInv /\ [Next]_vars => IInv'
<1> SUFFICES ASSUME IInv, [Next]_vars PROVE IInv'
  OBVIOUS
<1>1. FlagsOK /\ DataOK /\ GateInv /\ EmptyInv
  BY Zenon DEF IInv, TypeOK
<1>2. TypeOK' /\ GateInv' /\ EmptyInv'
  BY <1>1, FlagsStep, DataStep, GateStep, EmptyStep DEF TypeOK
<1>3. config' = config
  BY ConfigKept
<1>4. config.recorded => RowsInv /\ CompleteInv
  BY Zenon DEF IInv
<1>5. config.recorded => RowsInv' /\ CompleteInv'
  BY <1>1, <1>4, RowsStep, CompleteStep
<1>6. Tidybot => config.recorded
  BY <1>1 DEF DataOK, Configs, Tidybot
<1>7. Tidybot => PaceInv
  BY Zenon DEF IInv
<1>8. Tidybot => PaceInv'
  BY <1>1, <1>6, <1>7, PaceStep
<1>9. Tidybot' = Tidybot
  BY <1>3 DEF Tidybot
<1>10. (config.recorded)' => RowsInv' /\ CompleteInv'
  BY <1>3, <1>5
<1>11. Tidybot' => PaceInv'
  BY <1>8, <1>9
<1> QED BY <1>2, <1>10, <1>11, Zenon DEF IInv

\* Whatever episode, horizon, chunks and delays, and however often the loop is paused,
\* changed or fails, the invariant holds.
THEOREM Invariance == Spec => []IInv
<1> QED BY InitInv, StepInv, PTL DEF Spec

\* Every variable has its type.
THEOREM TypeCorrect == Spec => []TypeOK
<1>1. IInv => TypeOK
  BY Zenon DEF IInv
<1> QED BY <1>1, Invariance, PTL

----------------------------------------------------------------------------
(* The properties *)

\* After a pause at most the one action is sent that had passed its check, whatever the
\* loop was doing and however often players pause and resume.
THEOREM PauseHoldsBackHolds == Spec => PauseHoldsBack
<1>1. IInv => GateInv
  BY Zenon DEF IInv
<1>2. GateInv /\ [Next]_vars => [Sends /\ ~predicting => passed]_vars
  BY Zenon DEF GateInv, Sends
<1> QED BY <1>1, <1>2, Invariance, PTL DEF Spec, PauseHoldsBack

\* Only Apply sends an action, and it counts as the latest from then on.
LEMMA OnlyApplySends ==
  ASSUME [Next]_vars, Sends
  PROVE  InHand
BY DEF Sends, InHand

\* Rows are sent in their order, and without a gap as long as nobody interferes, for
\* every length of the episode, every horizon and any failures of the predictions.
THEOREM ChronologicalHolds == Spec => Chronological
<1>1. IInv => (config.recorded => RowsInv /\ CompleteInv)
  BY Zenon DEF IInv
<1>2. /\ (config.recorded => RowsInv /\ CompleteInv)
      /\ Sends /\ config.recorded
      => action > lastRow /\ (~touched => action = lastRow + 1)
  BY DEF RowsInv, CompleteInv, Sends, InHand
<1>3. /\ IInv /\ [Next]_vars
      => [Sends /\ config.recorded =>
            action > lastRow /\ (~touched => action = lastRow + 1)]_vars
  BY <1>1, <1>2
<1> QED BY <1>3, Invariance, PTL DEF Spec, Chronological

\* The loop sleeps long enough for every control period and any delay.
LEMMA PaceKeepsDistance ==
  ASSUME DataOK, PaceInv, Pace
  PROVE  \E late \in Lates : age' + held + late >= period
<1> USE SerialAssumption, Numbers, LongestPeriod DEF DataOK
<1>1. PICK late \in Lates : age + held + ahead + late >= 0
  BY DEF Pace, PaceInv
<1>2. CASE ahead + period > 0
  <2>1. PICK l \in Lates : age' = AtMost(age + ahead + period + l, Longest)
    BY <1>2 DEF Pace
  <2>2. period <= Longest
    OBVIOUS
  <2>3. age' + held + late >= period
    BY <1>1, <2>1, <2>2 DEF AtMost
  <2> QED BY <2>3
<1>3. CASE ~(ahead + period > 0)
  <2>1. age' = age
    BY <1>3 DEF Pace
  <2>2. age' + held + late >= period
    BY <1>1, <1>3, <2>1
  <2> QED BY <2>2
<1> QED BY <1>2, <1>3

\* Streamed targets keep their distance for all control periods and delays.
THEOREM NoCatchUpHolds == Spec => NoCatchUp
<1>1. IInv => DataOK /\ (Tidybot => PaceInv)
  BY Zenon DEF IInv, TypeOK
<1>2. IInv /\ Pace /\ Tidybot => \E late \in Lates : age' + held + late >= period
  BY <1>1, PaceKeepsDistance
<1>3. IInv /\ [Next]_vars
      => [Pace /\ Tidybot => \E late \in Lates : age' + held + late >= period]_vars
  BY <1>2
<1> QED BY <1>3, Invariance, PTL DEF Spec, NoCatchUp
============================================================================
