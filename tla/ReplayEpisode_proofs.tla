------------------------- MODULE ReplayEpisode_proofs -------------------------
(***************************************************************************)
(* Proofs about the Kinova connection, as the sessions of play.py and the  *)
(* stand-alone replay use it: for any number of twists, actions, feedback  *)
(* threads and failures.                                                   *)
(***************************************************************************)
EXTENDS ReplayEpisode, TLAPS

----------------------------------------------------------------------------
(* Types *)

\* Every step keeps the flags Boolean.
LEMMA FlagsStep == FlagsOK /\ [Next]_vars => FlagsOK'
<1> SUFFICES ASSUME FlagsOK, [Next]_vars PROVE FlagsOK'
  OBVIOUS
<1> USE DEF FlagsOK, vars, connVars, replayVars, stage, callVars, feedVars, armVars,
        Goto, Return, Begin, BeginTwist, Subscribe, GiveUp, Command, ExecuteAction, Fault,
        StartFeedback
<1>1. ASSUME NEW t \in Threads, SendTwist(t), UNCHANGED replayVars PROVE FlagsOK'
  BY <1>1, Zenon DEF SendTwist
<1>2. ASSUME NEW t \in Threads, TraceTwist(t), UNCHANGED replayVars PROVE FlagsOK'
  BY <1>2, Zenon DEF TraceTwist
<1>3. ASSUME NEW t \in Threads, SendJoints(t), UNCHANGED replayVars PROVE FlagsOK'
  BY <1>3, Zenon DEF SendJoints
<1>4. ASSUME NEW t \in Threads, Grip(t), UNCHANGED replayVars PROVE FlagsOK'
  BY <1>4, Zenon DEF Grip
<1>5. ASSUME NEW t \in Threads, PrepareWaypoint(t), UNCHANGED replayVars PROVE FlagsOK'
  BY <1>5, Zenon DEF PrepareWaypoint
<1>6. ASSUME NEW t \in Threads, PrepareHome(t), UNCHANGED replayVars PROVE FlagsOK'
  BY <1>6, Zenon DEF PrepareHome
<1>7. ASSUME NEW t \in Threads, Execute(t), UNCHANGED replayVars PROVE FlagsOK'
  BY <1>7, Zenon DEF Execute
<1>8. ASSUME NEW t \in Threads, Completed(t), UNCHANGED replayVars PROVE FlagsOK'
  BY <1>8, Zenon DEF Completed
<1>9. ASSUME NEW t \in Threads, TimesOut(t), UNCHANGED replayVars PROVE FlagsOK'
  BY <1>9, Zenon DEF TimesOut
<1>10. ASSUME NEW t \in Threads, HomeTimesOut(t), UNCHANGED replayVars PROVE FlagsOK'
  BY <1>10, Zenon DEF HomeTimesOut
<1>11. ASSUME NEW f \in Feeds, PublishFeedback(f), UNCHANGED replayVars PROVE FlagsOK'
  BY <1>11, Zenon DEF PublishFeedback
<1>12. ASSUME NEW f \in Feeds, ReportFeedback(f), UNCHANGED replayVars PROVE FlagsOK'
  BY <1>12, Zenon DEF ReportFeedback
<1>13. ASSUME NEW f \in Feeds, EndFeedback(f), UNCHANGED replayVars PROVE FlagsOK'
  BY <1>13, Zenon DEF EndFeedback
<1>14. CASE ArmEnds /\ UNCHANGED replayVars
  BY <1>14, Zenon DEF ArmEnds
<1>15. CASE Publish /\ UNCHANGED replayVars
  BY <1>15, Zenon DEF Publish
<1>16. CASE Awake /\ UNCHANGED replayVars
  BY <1>16, Zenon DEF Awake
<1>17. CASE Awoken /\ UNCHANGED replayVars
  BY <1>17, Zenon DEF Awoken
<1>18. CASE ApplyAction /\ UNCHANGED replayVars
  BY <1>18, Zenon DEF ApplyAction
<1>19. CASE HaltForChunk /\ UNCHANGED replayVars
  BY <1>19, Zenon DEF HaltForChunk
<1>20. CASE LeaveLoop /\ UNCHANGED replayVars
  BY <1>20, Zenon DEF LeaveLoop
<1>21. ASSUME NEW p \in Pausers, Pause(p), UNCHANGED replayVars PROVE FlagsOK'
  BY <1>21, Zenon DEF Pause, OnPage
<1>22. CASE Homed /\ UNCHANGED replayVars
  BY <1>22, Zenon DEF Homed
<1>23. CASE GoHome /\ UNCHANGED replayVars
  BY <1>23, Zenon DEF GoHome, OnPage
<1>24. CASE Resume /\ UNCHANGED replayVars
  BY <1>24, Zenon DEF Resume, OnPage
<1>25. CASE ReplayAwakes
  BY <1>25, Zenon DEF ReplayAwakes
<1>26. CASE ReplayStarts
  BY <1>26, Zenon DEF ReplayStarts
<1>27. CASE ReplayRefuses
  BY <1>27, Zenon DEF ReplayRefuses
<1>28. CASE ReplayTooLow
  BY <1>28, Zenon DEF ReplayTooLow
<1>29. CASE ReplaySends
  BY <1>29, Zenon DEF ReplaySends
<1>30. CASE ReplayRecords
  BY <1>30, Zenon DEF ReplayRecords
<1>31. CASE ReplayFails
  BY <1>31, Zenon DEF ReplayFails
<1>32. CASE ReplayFinishes
  BY <1>32, Zenon DEF ReplayFinishes
<1>33. CASE ReplayStops
  BY <1>33, Zenon DEF ReplayStops
<1>34. CASE ReplayKills
  BY <1>34, Zenon DEF ReplayKills
<1>35. CASE ReplayCloses
  BY <1>35, Zenon DEF ReplayCloses
<1>36. CASE Interrupt
  BY <1>36, Zenon DEF Interrupt
<1>37. CASE UNCHANGED vars
  BY <1>37, Zenon DEF vars
<1> QED
  BY <1>1, <1>2, <1>3, <1>4, <1>5, <1>6, <1>7, <1>8, <1>9, <1>10, <1>11, <1>12, <1>13,
    <1>14, <1>15, <1>16, <1>17, <1>18, <1>19, <1>20, <1>21, <1>22, <1>23, <1>24, <1>25,
    <1>26, <1>27, <1>28, <1>29, <1>30, <1>31, <1>32, <1>33, <1>34, <1>35, <1>36, <1>37
  DEF Next, ConnectionNext, Calls, TimedCalls, Feedback, Arm, Session, Replay

\* A step of a call, which may fail, may end it and may take its handler back.
LEMMA CallData ==
  ASSUME DataOK, NEW t \in Threads, NEW c \in CallSteps, call' = [call EXCEPT ![t] = c],
         kind' = kind \/ kind' = [kind EXCEPT ![t] = "zero"],
         outcome' = outcome \/ outcome' = [outcome EXCEPT ![t] = "none"],
         Fault \/ faults' = faults
  PROVE  /\ call' \in [Threads -> CallSteps]
         /\ kind' \in [Threads -> {"zero", "move", "home", "waypoint", "joints"}]
         /\ outcome' \in [Threads -> {"none", "end", "abort"}]
         /\ faults' \in 0..MaxFaults
<1>1. faults' \in 0..MaxFaults
  BY KinovaAssumption DEF DataOK, Fault
<1>2. call' \in [Threads -> CallSteps]
  BY DEF DataOK
<1>3. kind' \in [Threads -> {"zero", "move", "home", "waypoint", "joints"}]
  BY DEF DataOK
<1>4. outcome' \in [Threads -> {"none", "end", "abort"}]
  BY DEF DataOK
<1> QED BY <1>1, <1>2, <1>3, <1>4

\* The rest of the data is as it was.
LEMMA RestOfData ==
  ASSUME DataOK, call' \in [Threads -> CallSteps],
         kind' \in [Threads -> {"zero", "move", "home", "waypoint", "joints"}],
         outcome' \in [Threads -> {"none", "end", "abort"}], faults' \in 0..MaxFaults,
         UNCHANGED <<stage, twist, numbered, feedVars, armVars, replayVars>>
  PROVE  DataOK'
BY DEF DataOK, stage, feedVars, armVars, replayVars

\* Every step keeps the data typed.
LEMMA DataStep == DataOK /\ RecordsInv /\ TraceInv /\ [Next]_vars => DataOK'
<1> SUFFICES ASSUME DataOK, RecordsInv, TraceInv, [Next]_vars PROVE DataOK'
  OBVIOUS
<1>0. "loop" \in Threads /\ "home" \in Threads /\ Pausers \subseteq Threads
  BY DEF Threads
<1> USE <1>0, KinovaAssumption, ReplayAssumption
    DEF DataOK, CallSteps, Body, Rest, Twisting, vars, connVars, replayVars, stage,
       callVars, feedVars, armVars,
        Goto, Return, Begin, BeginTwist, Subscribe, GiveUp, Command, ExecuteAction, Fault,
        StartFeedback
<1>1. ASSUME NEW t \in Threads, SendTwist(t), UNCHANGED replayVars PROVE DataOK'
  BY <1>1, SMTT(30) DEF SendTwist
<1>2. ASSUME NEW t \in Threads, TraceTwist(t), UNCHANGED replayVars PROVE DataOK'
  <2>1. twist[t] \in 1..numbered
    BY <1>2 DEF TraceTwist, TraceInv, InHand
  <2>2. /\ pending' = pending \cup {twist[t]} /\ twist' = [twist EXCEPT ![t] = 0]
        /\ UNCHANGED <<stage, subscribed, outcome, numbered, feed, completed, known, reports,
                       armVars, faults>>
    BY <1>2 DEF TraceTwist
  <2>3. call' \in [Threads -> CallSteps]
    <3>1. call' = [call EXCEPT ![t] = "idle"] \/ call' = [call EXCEPT ![t] = "gripping"]
      BY <1>2, Zenon DEF TraceTwist
    <3> QED BY <3>1
  <2>4. kind' \in [Threads -> {"zero", "move", "home", "waypoint", "joints"}]
    <3>1. kind' = [kind EXCEPT ![t] = "zero"] \/ kind' = kind
      BY <1>2, Zenon DEF TraceTwist
    <3> QED BY <3>1
  <2>5. twist' \in [Threads -> 0..MaxTwists]
    BY <2>2
  <2>6. pending' = pending \cup {twist[t]} /\ numbered' = numbered
    BY <2>2
  <2>7. pending' \subseteq 1..numbered'
    BY <2>1, <2>6
  <2>8. UNCHANGED replayVars
    BY <1>2
  <2> QED BY <2>2, <2>3, <2>4, <2>5, <2>7, <2>8
<1>3. ASSUME NEW t \in Threads, SendJoints(t), UNCHANGED replayVars PROVE DataOK'
  <2>1. CASE ExecuteAction /\ UNCHANGED <<kind, error, disturbed, faults>> /\ Goto(t, "gripping")
    BY <1>3, <2>1 DEF SendJoints
  <2>2. CASE /\ Command(Twisting) /\ UNCHANGED executed
             /\ UNCHANGED <<kind, error, disturbed, faults>> /\ Goto(t, "gripping")
    BY <1>3, <2>2 DEF SendJoints
  <2>3. CASE Fault /\ Return(t, TRUE) /\ UNCHANGED <<motion, executed, events>>
    BY <1>3, <2>3 DEF SendJoints
  <2> QED BY <1>3, <2>1, <2>2, <2>3 DEF SendJoints
<1>4. ASSUME NEW t \in Threads, Grip(t), UNCHANGED replayVars PROVE DataOK'
  <2>1. /\ call' = [call EXCEPT ![t] = "idle"]
        /\ kind' = kind \/ kind' = [kind EXCEPT ![t] = "zero"]
        /\ outcome' = outcome \/ outcome' = [outcome EXCEPT ![t] = "none"]
        /\ Fault \/ faults' = faults
    BY <1>4, Zenon DEF Grip
  <2>2. UNCHANGED <<stage, twist, numbered, feedVars, armVars, replayVars>>
    BY <1>4, Zenon DEF Grip
  <2> QED
    <3>1. PICK c \in CallSteps : call' = [call EXCEPT ![t] = c]
      BY <2>1
    <3> HIDE DEF Fault, DataOK
    <3>2. /\ call' \in [Threads -> CallSteps]
          /\ kind' \in [Threads -> {"zero", "move", "home", "waypoint", "joints"}]
          /\ outcome' \in [Threads -> {"none", "end", "abort"}] /\ faults' \in 0..MaxFaults
      BY <2>1, <3>1, CallData
    <3> QED BY <2>2, <3>2, RestOfData
<1>5. ASSUME NEW t \in Threads, PrepareWaypoint(t), UNCHANGED replayVars PROVE DataOK'
  <2>1. /\ \/ call' = [call EXCEPT ![t] = "executing"]
           \/ call' = [call EXCEPT ![t] = "idle"]
           \/ call' = [call EXCEPT ![t] = "gripping"]
        /\ kind' = kind \/ kind' = [kind EXCEPT ![t] = "zero"]
        /\ outcome' = outcome \/ outcome' = [outcome EXCEPT ![t] = "none"]
        /\ Fault \/ faults' = faults
    BY <1>5, Zenon DEF PrepareWaypoint
  <2>2. UNCHANGED <<stage, twist, numbered, feedVars, armVars, replayVars>>
    BY <1>5, Zenon DEF PrepareWaypoint
  <2> QED
    <3>1. PICK c \in CallSteps : call' = [call EXCEPT ![t] = c]
      BY <2>1
    <3> HIDE DEF Fault, DataOK
    <3>2. /\ call' \in [Threads -> CallSteps]
          /\ kind' \in [Threads -> {"zero", "move", "home", "waypoint", "joints"}]
          /\ outcome' \in [Threads -> {"none", "end", "abort"}] /\ faults' \in 0..MaxFaults
      BY <2>1, <3>1, CallData
    <3> QED BY <2>2, <3>2, RestOfData
<1>6. ASSUME NEW t \in Threads, PrepareHome(t), UNCHANGED replayVars PROVE DataOK'
  <2>1. /\ call' = [call EXCEPT ![t] = "executing"] \/ call' = [call EXCEPT ![t] = "idle"]
        /\ kind' = kind \/ kind' = [kind EXCEPT ![t] = "zero"]
        /\ outcome' = outcome \/ outcome' = [outcome EXCEPT ![t] = "none"]
        /\ Fault \/ faults' = faults
    BY <1>6, Zenon DEF PrepareHome
  <2>2. UNCHANGED <<stage, twist, numbered, feedVars, armVars, replayVars>>
    BY <1>6, Zenon DEF PrepareHome
  <2> QED
    <3>1. PICK c \in CallSteps : call' = [call EXCEPT ![t] = c]
      BY <2>1
    <3> HIDE DEF Fault, DataOK
    <3>2. /\ call' \in [Threads -> CallSteps]
          /\ kind' \in [Threads -> {"zero", "move", "home", "waypoint", "joints"}]
          /\ outcome' \in [Threads -> {"none", "end", "abort"}] /\ faults' \in 0..MaxFaults
      BY <2>1, <3>1, CallData
    <3> QED BY <2>2, <3>2, RestOfData
<1>7. ASSUME NEW t \in Threads, Execute(t), UNCHANGED replayVars PROVE DataOK'
  <2>1. /\ call' = [call EXCEPT ![t] = "waiting"] \/ call' = [call EXCEPT ![t] = "idle"]
        /\ kind' = kind \/ kind' = [kind EXCEPT ![t] = "zero"]
        /\ outcome' = outcome \/ outcome' = [outcome EXCEPT ![t] = "none"]
        /\ Fault \/ faults' = faults
    BY <1>7, Zenon DEF Execute
  <2>2. /\ call' \in [Threads -> CallSteps] /\ outcome' \in [Threads -> {"none", "end", "abort"}]
        /\ kind' \in [Threads -> {"zero", "move", "home", "waypoint", "joints"}]
        /\ faults' \in 0..MaxFaults
    <3>1. PICK c \in CallSteps : call' = [call EXCEPT ![t] = c]
      BY <2>1
    <3> HIDE DEF Fault, DataOK
    <3> QED BY <2>1, <3>1, CallData
  <2>3. ExecuteAction \/ UNCHANGED armVars
    BY <1>7, Zenon DEF Execute
  <2>4. /\ executed' \in 0..MaxActions /\ motion' \in {Twisting} \cup 0..executed'
        /\ events' \subseteq [action : 1..executed', event : {"end", "abort"}]
    <3>1. CASE ExecuteAction
      BY <3>1
    <3>2. CASE UNCHANGED armVars
      BY <3>2
    <3> QED BY <2>3, <3>1, <3>2
  <2>5. UNCHANGED <<stage, twist, numbered, feedVars>> /\ UNCHANGED replayVars
    BY <1>7 DEF Execute
  <2> QED BY <2>2, <2>4, <2>5
<1>8. ASSUME NEW t \in Threads, Completed(t), UNCHANGED replayVars PROVE DataOK'
  <2>1. /\ call' = [call EXCEPT ![t] = "gripping"] \/ call' = [call EXCEPT ![t] = "idle"]
        /\ kind' = kind \/ kind' = [kind EXCEPT ![t] = "zero"]
        /\ outcome' = outcome \/ outcome' = [outcome EXCEPT ![t] = "none"]
        /\ Fault \/ faults' = faults
    BY <1>8, Zenon DEF Completed
  <2>2. UNCHANGED <<stage, twist, numbered, feedVars, armVars, replayVars>>
    BY <1>8, Zenon DEF Completed
  <2> QED
    <3>1. PICK c \in CallSteps : call' = [call EXCEPT ![t] = c]
      BY <2>1
    <3> HIDE DEF Fault, DataOK
    <3>2. /\ call' \in [Threads -> CallSteps]
          /\ kind' \in [Threads -> {"zero", "move", "home", "waypoint", "joints"}]
          /\ outcome' \in [Threads -> {"none", "end", "abort"}] /\ faults' \in 0..MaxFaults
      BY <2>1, <3>1, CallData
    <3> QED BY <2>2, <3>2, RestOfData
<1>9. ASSUME NEW t \in Threads, TimesOut(t), UNCHANGED replayVars PROVE DataOK'
  BY <1>9, SMTT(30) DEF TimesOut
<1>10. ASSUME NEW t \in Threads, HomeTimesOut(t), UNCHANGED replayVars PROVE DataOK'
  BY <1>10 DEF HomeTimesOut
<1>11. ASSUME NEW f \in Feeds, PublishFeedback(f), UNCHANGED replayVars PROVE DataOK'
  BY <1>11, SMTT(30) DEF PublishFeedback
<1>12. ASSUME NEW f \in Feeds, ReportFeedback(f), UNCHANGED replayVars PROVE DataOK'
  <2>1. reports' \in [1..MaxTwists -> Nat]
    <3>1. \A n \in 1..MaxTwists : reports[n] \in Nat /\ reports[n] + 1 \in Nat
      OBVIOUS
    <3> QED BY <1>12, <3>1 DEF ReportFeedback
  <2>2. /\ pending' \subseteq 1..numbered /\ completed' \in [Feeds -> SUBSET (1..numbered)]
        /\ feed' \in [Feeds -> {"none", "polling", "reporting", "ended"}]
    BY <1>12 DEF ReportFeedback
  <2>3. UNCHANGED <<mode, session, goingHome, call, kind, twist, outcome, numbered, motion,
                    executed, events, faults, replay, sent, records, closed, ahead, age>>
    BY <1>12 DEF ReportFeedback
  <2> QED BY <2>1, <2>2, <2>3, SMTT(30)
<1>13. ASSUME NEW f \in Feeds, EndFeedback(f), UNCHANGED replayVars PROVE DataOK'
  BY <1>13, SMTT(30) DEF EndFeedback
<1>14. CASE ArmEnds /\ UNCHANGED replayVars
  BY <1>14, SMTT(30) DEF ArmEnds
<1>15. CASE Publish /\ UNCHANGED replayVars
  BY <1>15 DEF Publish
<1>16. CASE Awake /\ UNCHANGED replayVars
  BY <1>16 DEF Awake
<1>17. CASE Awoken /\ UNCHANGED replayVars
  <2>1. feed' \in [Feeds -> {"none", "polling", "reporting", "ended"}]
    BY <1>17 DEF Awoken
  <2>2. session' \in {"asleep", "running"} /\ faults' \in 0..MaxFaults
    BY <1>17 DEF Awoken
  <2> QED BY <1>17, <2>1, <2>2, SMTT(30) DEF Awoken
<1>18. CASE ApplyAction /\ UNCHANGED replayVars
  <2>1. CASE BeginTwist("loop", "move")
    BY <1>18, <2>1 DEF ApplyAction
  <2>2. CASE /\ Begin("loop", "waypoint", "preparing") \/ Begin("loop", "joints", "jointing")
             /\ UNCHANGED <<twist, subscribed, outcome, numbered, feedVars, armVars, disturbed>>
    BY <1>18, <2>2 DEF ApplyAction
  <2> QED BY <1>18, <2>1, <2>2 DEF ApplyAction
<1>19. CASE HaltForChunk /\ UNCHANGED replayVars
  BY <1>19 DEF HaltForChunk
<1>20. CASE LeaveLoop /\ UNCHANGED replayVars
  BY <1>20 DEF LeaveLoop
<1>21. ASSUME NEW p \in Pausers, Pause(p), UNCHANGED replayVars PROVE DataOK'
  BY <1>21 DEF Pause, OnPage
<1>22. CASE Homed /\ UNCHANGED replayVars
  BY <1>22 DEF Homed
<1>23. CASE GoHome /\ UNCHANGED replayVars
  BY <1>23 DEF GoHome, OnPage
<1>24. CASE Resume /\ UNCHANGED replayVars
  BY <1>24 DEF Resume, OnPage
<1>25. CASE ReplayAwakes
  BY <1>25 DEF ReplayAwakes
<1>26. CASE ReplayStarts
  BY <1>26 DEF ReplayStarts
<1>27. CASE ReplayRefuses
  BY <1>27 DEF ReplayRefuses
<1>28. CASE ReplayTooLow
  BY <1>28 DEF ReplayTooLow
<1>29. CASE ReplaySends
  <2>1. ahead' \in Int /\ age' \in Nat
    BY <1>29 DEF ReplaySends, AtMost, AtLeast
  <2>2. sent' \in 0..Frames /\ records' \in {sent', sent' - 1}
    BY <1>29 DEF ReplaySends, RecordsInv
  <2> QED BY <1>29, <2>1, <2>2, SMTT(30) DEF ReplaySends
<1>30. CASE ReplayRecords
  <2>1. ahead' \in Int /\ age' \in Nat
    BY <1>30 DEF ReplayRecords, AtMost, AtLeast
  <2>2. sent' \in 0..Frames /\ records' \in {sent', sent' - 1}
    BY <1>30 DEF ReplayRecords, RecordsInv
  <2> QED BY <1>30, <2>1, <2>2 DEF ReplayRecords
<1>31. CASE ReplayFails
  BY <1>31 DEF ReplayFails
<1>32. CASE ReplayFinishes
  BY <1>32 DEF ReplayFinishes
<1>33. CASE ReplayStops
  BY <1>33, SMTT(30) DEF ReplayStops
<1>34. CASE ReplayKills
  BY <1>34 DEF ReplayKills
<1>35. CASE ReplayCloses
  BY <1>35, SMTT(30) DEF ReplayCloses
<1>36. CASE Interrupt
  BY <1>36 DEF Interrupt
<1>37. CASE UNCHANGED vars
  BY <1>37, SMTT(30) DEF vars
<1> QED
  BY <1>1, <1>2, <1>3, <1>4, <1>5, <1>6, <1>7, <1>8, <1>9, <1>10, <1>11, <1>12, <1>13,
    <1>14, <1>15, <1>16, <1>17, <1>18, <1>19, <1>20, <1>21, <1>22, <1>23, <1>24, <1>25,
    <1>26, <1>27, <1>28, <1>29, <1>30, <1>31, <1>32, <1>33, <1>34, <1>35, <1>36, <1>37
  DEF Next, ConnectionNext, Calls, TimedCalls, Feedback, Arm, Session, Replay

----------------------------------------------------------------------------
(* The replay's schedule and records *)

\* A delta that was sent is recorded before the next one is sent.
LEMMA RecordsStep == DataOK /\ RecordsInv /\ [Next]_vars => RecordsInv'
<1> SUFFICES ASSUME DataOK, RecordsInv, [Next]_vars PROVE RecordsInv'
  OBVIOUS
<1> USE DEF DataOK, RecordsInv, Body
<1>1. CASE UNCHANGED replayVars
  BY <1>1 DEF replayVars
<1>2. CASE ReplayAwakes
  BY <1>2 DEF ReplayAwakes
<1>3. CASE ReplayStarts
  BY <1>3 DEF ReplayStarts
<1>4. CASE ReplayRefuses
  BY <1>4 DEF ReplayRefuses
<1>5. CASE ReplayTooLow
  BY <1>5 DEF ReplayTooLow
<1>6. CASE ReplaySends
  BY <1>6 DEF ReplaySends
<1>7. CASE ReplayRecords
  BY <1>7 DEF ReplayRecords
<1>8. CASE ReplayFails
  BY <1>8 DEF ReplayFails
<1>9. CASE ReplayFinishes
  BY <1>9 DEF ReplayFinishes
<1>10. CASE ReplayStops
  BY <1>10 DEF ReplayStops
<1>11. CASE ReplayKills
  BY <1>11 DEF ReplayKills
<1>12. CASE ReplayCloses
  BY <1>12 DEF ReplayCloses
<1>13. CASE Interrupt
  BY <1>13 DEF Interrupt
<1> QED
  BY <1>1, <1>2, <1>3, <1>4, <1>5, <1>6, <1>7, <1>8, <1>9, <1>10, <1>11, <1>12, <1>13
  DEF Next, Replay, vars

\* After a delta the next one is due a period later, however long the call took.
LEMMA DistanceStep == DataOK /\ RecordsInv /\ DistanceInv /\ [Next]_vars => DistanceInv'
<1> SUFFICES ASSUME DataOK, RecordsInv, DistanceInv, [Next]_vars PROVE DistanceInv'
  OBVIOUS
<1> USE ReplayAssumption DEF DataOK, RecordsInv, DistanceInv, AtMost, AtLeast
<1>1. CASE UNCHANGED replayVars
  BY <1>1 DEF replayVars
<1>2. CASE ReplayAwakes
  BY <1>2 DEF ReplayAwakes
<1>3. CASE ReplayStarts
  BY <1>3 DEF ReplayStarts
<1>4. CASE ReplayRefuses
  BY <1>4 DEF ReplayRefuses
<1>5. CASE ReplayTooLow
  BY <1>5 DEF ReplayTooLow
<1>6. CASE ReplaySends
  BY <1>6 DEF ReplaySends
<1>7. CASE ReplayRecords
  <2>1. PICK d \in Durations : /\ age' = AtMost(age + d, 2 * Dt)
                               /\ ahead' = AtLeast(Dt - d, -2 * Dt)
    BY <1>7 DEF ReplayRecords
  <2>2. age' + AtLeast(ahead', 0) >= Dt
    BY <2>1
  <2> QED BY <2>2
<1>8. CASE ReplayFails
  BY <1>8 DEF ReplayFails
<1>9. CASE ReplayFinishes
  BY <1>9 DEF ReplayFinishes
<1>10. CASE ReplayStops
  BY <1>10 DEF ReplayStops
<1>11. CASE ReplayKills
  BY <1>11 DEF ReplayKills
<1>12. CASE ReplayCloses
  BY <1>12 DEF ReplayCloses
<1>13. CASE Interrupt
  BY <1>13 DEF Interrupt
<1> QED
  BY <1>1, <1>2, <1>3, <1>4, <1>5, <1>6, <1>7, <1>8, <1>9, <1>10, <1>11, <1>12, <1>13
  DEF Next, Replay, vars

----------------------------------------------------------------------------
(* The traces *)

\* Who does not touch a trace keeps the invariant.
LEMMA TraceFrame ==
  ASSUME TraceInv, UNCHANGED <<twist, numbered, pending, completed, reports>>,
         \A t \in Threads : call'[t] \in {"sending", "tracing"} => InHand(t)
  PROVE  TraceInv'
BY DEF TraceInv, InHand

\* A new twist has a number that is nowhere yet.
LEMMA BeginTwistTrace ==
  ASSUME DataOK, TraceInv, NEW t \in Threads, NEW k, BeginTwist(t, k)
  PROVE  TraceInv'
<1> USE KinovaAssumption DEF DataOK, InHand
<1>1. /\ numbered' = numbered + 1 /\ twist' = [twist EXCEPT ![t] = numbered + 1]
      /\ call' = [call EXCEPT ![t] = "sending"] /\ UNCHANGED <<pending, completed, reports>>
      /\ numbered + 1 \in 1..MaxTwists
  BY DEF BeginTwist, Begin, Goto, feedVars
<1>2. ASSUME NEW u \in Threads, InHand(u)'
      PROVE  /\ twist'[u] \in 1..numbered' /\ twist'[u] \notin pending'
             /\ reports'[twist'[u]] = 0
             /\ \A f \in Feeds : twist'[u] \notin completed'[f]
             /\ \A w \in Threads : InHand(w)' /\ twist'[w] = twist'[u] => w = u
  <2>1. CASE u = t
    BY <1>1, <1>2, <2>1 DEF TraceInv
  <2>2. CASE u # t
    BY <1>1, <1>2, <2>2 DEF TraceInv
  <2> QED BY <2>1, <2>2
<1>3. /\ \A n \in pending' : reports'[n] = 0 /\ \A f \in Feeds : n \notin completed'[f]
      /\ \A f \in Feeds : \A n \in completed'[f] :
           reports'[n] = 0 /\ \A g \in Feeds : n \in completed'[g] => g = f
      /\ \A n \in 1..MaxTwists : reports'[n] <= 1 /\ (n > numbered' => reports'[n] = 0)
  BY <1>1 DEF TraceInv
<1> QED BY <1>2, <1>3 DEF TraceInv

\* The thread puts its trace on the table.
LEMMA TraceTwistTrace ==
  ASSUME DataOK, TraceInv, NEW t \in Threads, TraceTwist(t)
  PROVE  TraceInv'
<1> USE KinovaAssumption DEF DataOK, InHand
<1>1. /\ pending' = pending \cup {twist[t]} /\ twist' = [twist EXCEPT ![t] = 0]
      /\ UNCHANGED <<numbered, completed, reports>> /\ InHand(t)
  BY DEF TraceTwist
<1>2. call' = [call EXCEPT ![t] = "idle"] \/ call' = [call EXCEPT ![t] = "gripping"]
  BY Zenon DEF TraceTwist, Return, Goto
<1>3. \A u \in Threads : InHand(u)' => InHand(u) /\ u # t /\ twist'[u] = twist[u]
  BY <1>1, <1>2
<1> QED BY <1>1, <1>3 DEF TraceInv

\* A feedback thread takes everything off the table.
LEMMA PublishFeedbackTrace ==
  ASSUME DataOK, TraceInv, NEW f \in Feeds, PublishFeedback(f)
  PROVE  TraceInv'
<1> USE DEF DataOK, InHand
<1>1. /\ completed' = [completed EXCEPT ![f] = pending] /\ pending' = {}
      /\ UNCHANGED <<call, twist, numbered, reports>>
  BY DEF PublishFeedback, callVars
<1> QED BY <1>1 DEF TraceInv

\* It reports what it has taken.
LEMMA ReportFeedbackTrace ==
  ASSUME DataOK, TraceInv, NEW f \in Feeds, ReportFeedback(f)
  PROVE  TraceInv'
<1> USE DEF DataOK, InHand
<1>1. /\ completed' = [completed EXCEPT ![f] = {}] /\ pending' = pending \ completed[f]
      /\ UNCHANGED <<call, twist, numbered>>
  BY DEF ReportFeedback, callVars
<1>2. \A n \in 1..MaxTwists :
        reports'[n] = IF n \in completed[f] THEN reports[n] + 1 ELSE reports[n]
  BY DEF ReportFeedback
<1>3. 1..numbered \subseteq 1..MaxTwists
  BY KinovaAssumption
<1> QED BY <1>1, <1>2, <1>3 DEF TraceInv

\* Wherever a trace goes, it is in one place.
LEMMA TraceStep == DataOK /\ TraceInv /\ [Next]_vars => TraceInv'
<1> SUFFICES ASSUME DataOK, TraceInv, [Next]_vars PROVE TraceInv'
  OBVIOUS
<1> USE DEF DataOK, InHand, Threads, vars, connVars, replayVars, stage, callVars,
        feedVars, armVars,
        Goto, Return, Begin, Subscribe, GiveUp, Command, ExecuteAction, Fault,
        StartFeedback
<1>1. ASSUME NEW t \in Threads, SendTwist(t), UNCHANGED replayVars PROVE TraceInv'
  BY <1>1, TraceFrame DEF SendTwist
<1>2. ASSUME NEW t \in Threads, TraceTwist(t), UNCHANGED replayVars PROVE TraceInv'
  BY <1>2, TraceTwistTrace
<1>3. ASSUME NEW t \in Threads, SendJoints(t), UNCHANGED replayVars PROVE TraceInv'
  BY <1>3, TraceFrame DEF SendJoints
<1>4. ASSUME NEW t \in Threads, Grip(t), UNCHANGED replayVars PROVE TraceInv'
  BY <1>4, TraceFrame DEF Grip
<1>5. ASSUME NEW t \in Threads, PrepareWaypoint(t), UNCHANGED replayVars PROVE TraceInv'
  BY <1>5, TraceFrame DEF PrepareWaypoint
<1>6. ASSUME NEW t \in Threads, PrepareHome(t), UNCHANGED replayVars PROVE TraceInv'
  BY <1>6, TraceFrame DEF PrepareHome
<1>7. ASSUME NEW t \in Threads, Execute(t), UNCHANGED replayVars PROVE TraceInv'
  BY <1>7, TraceFrame DEF Execute
<1>8. ASSUME NEW t \in Threads, Completed(t), UNCHANGED replayVars PROVE TraceInv'
  BY <1>8, TraceFrame DEF Completed
<1>9. ASSUME NEW t \in Threads, TimesOut(t), UNCHANGED replayVars PROVE TraceInv'
  BY <1>9, TraceFrame DEF TimesOut
<1>10. ASSUME NEW t \in Threads, HomeTimesOut(t), UNCHANGED replayVars PROVE TraceInv'
  BY <1>10, TraceFrame DEF HomeTimesOut
<1>11. ASSUME NEW f \in Feeds, PublishFeedback(f), UNCHANGED replayVars PROVE TraceInv'
  BY <1>11, PublishFeedbackTrace
<1>12. ASSUME NEW f \in Feeds, ReportFeedback(f), UNCHANGED replayVars PROVE TraceInv'
  BY <1>12, ReportFeedbackTrace
<1>13. ASSUME NEW f \in Feeds, EndFeedback(f), UNCHANGED replayVars PROVE TraceInv'
  BY <1>13, TraceFrame DEF EndFeedback
<1>14. CASE ArmEnds /\ UNCHANGED replayVars
  BY <1>14, TraceFrame DEF ArmEnds
<1>15. CASE Publish /\ UNCHANGED replayVars
  BY <1>15, TraceFrame DEF Publish
<1>16. CASE Awake /\ UNCHANGED replayVars
  BY <1>16, TraceFrame DEF Awake
<1>17. CASE Awoken /\ UNCHANGED replayVars
  BY <1>17, TraceFrame DEF Awoken
<1>18. CASE ApplyAction /\ UNCHANGED replayVars
  <2>1. CASE BeginTwist("loop", "move")
    BY <2>1, BeginTwistTrace
  <2>2. CASE ~BeginTwist("loop", "move")
    BY <1>18, <2>2, TraceFrame DEF ApplyAction
  <2> QED BY <2>1, <2>2
<1>19. CASE HaltForChunk /\ UNCHANGED replayVars
  BY <1>19, BeginTwistTrace DEF HaltForChunk
<1>20. CASE LeaveLoop /\ UNCHANGED replayVars
  BY <1>20, BeginTwistTrace DEF LeaveLoop
<1>21. ASSUME NEW p \in Pausers, Pause(p), UNCHANGED replayVars PROVE TraceInv'
  BY <1>21, BeginTwistTrace DEF Pause, OnPage
<1>22. CASE Homed /\ UNCHANGED replayVars
  BY <1>22, TraceFrame DEF Homed
<1>23. CASE GoHome /\ UNCHANGED replayVars
  BY <1>23, TraceFrame DEF GoHome, OnPage
<1>24. CASE Resume /\ UNCHANGED replayVars
  BY <1>24, TraceFrame DEF Resume, OnPage
<1>25. CASE ReplayAwakes
  BY <1>25, TraceFrame DEF ReplayAwakes
<1>26. CASE ReplayStarts
  BY <1>26, TraceFrame DEF ReplayStarts
<1>27. CASE ReplayRefuses
  BY <1>27, TraceFrame DEF ReplayRefuses
<1>28. CASE ReplayTooLow
  BY <1>28, TraceFrame DEF ReplayTooLow
<1>29. CASE ReplaySends
  BY <1>29, BeginTwistTrace DEF ReplaySends
<1>30. CASE ReplayRecords
  BY <1>30, TraceFrame DEF ReplayRecords
<1>31. CASE ReplayFails
  BY <1>31, TraceFrame DEF ReplayFails
<1>32. CASE ReplayFinishes
  BY <1>32, TraceFrame DEF ReplayFinishes
<1>33. CASE ReplayStops
  BY <1>33, TraceFrame DEF ReplayStops
<1>34. CASE ReplayKills
  BY <1>34, TraceFrame DEF ReplayKills
<1>35. CASE ReplayCloses
  BY <1>35, TraceFrame DEF ReplayCloses
<1>36. CASE Interrupt
  BY <1>36, TraceFrame DEF Interrupt
<1>37. CASE UNCHANGED vars
  BY <1>37, TraceFrame DEF vars
<1> QED
  BY <1>1, <1>2, <1>3, <1>4, <1>5, <1>6, <1>7, <1>8, <1>9, <1>10, <1>11, <1>12, <1>13,
    <1>14, <1>15, <1>16, <1>17, <1>18, <1>19, <1>20, <1>21, <1>22, <1>23, <1>24, <1>25,
    <1>26, <1>27, <1>28, <1>29, <1>30, <1>31, <1>32, <1>33, <1>34, <1>35, <1>36, <1>37
  DEF Next, ConnectionNext, Calls, TimedCalls, Feedback, Arm, Session, Replay

----------------------------------------------------------------------------
(* The threads *)

\* Each step of a thread or of the session keeps who may be doing what.
LEMMA StageStep == DataOK /\ StageInv /\ [Next]_vars => StageInv'
<1> SUFFICES ASSUME DataOK, StageInv, [Next]_vars PROVE StageInv'
  OBVIOUS
<1>0. /\ "loop" \in Threads /\ "home" \in Threads /\ Pausers \subseteq Threads
     /\ "loop" \notin Pausers /\ "home" \notin Pausers
     /\ Threads \subseteq {"loop", "home"} \cup Pausers
  BY KinovaAssumption DEF Threads
<1> USE <1>0 DEF DataOK, StageInv, Modes, Body, vars, connVars, replayVars, stage,
        callVars, feedVars, armVars,
        Goto, Return, Begin, BeginTwist, Subscribe, GiveUp, Command, ExecuteAction, Fault,
        StartFeedback
<1>1. ASSUME NEW t \in Threads, SendTwist(t), UNCHANGED replayVars PROVE StageInv'
  BY <1>1 DEF SendTwist
<1>2. ASSUME NEW t \in Threads, TraceTwist(t), UNCHANGED replayVars PROVE StageInv'
  <2>1. /\ call[t] = "tracing"
        /\ UNCHANGED <<stage, replay>>
    BY <1>2 DEF TraceTwist
  <2>2. \/ /\ call' = [call EXCEPT ![t] = "idle"] /\ kind' = [kind EXCEPT ![t] = "zero"]
        \/ /\ call' = [call EXCEPT ![t] = "gripping"] /\ kind' = kind
           /\ kind[t] # "zero"
    BY <1>2, Zenon DEF TraceTwist
  <2>3. t # "home"
    BY <2>1
  <2> QED BY <2>1, <2>2, <2>3
<1>3. ASSUME NEW t \in Threads, SendJoints(t), UNCHANGED replayVars PROVE StageInv'
  BY <1>3 DEF SendJoints
<1>4. ASSUME NEW t \in Threads, Grip(t), UNCHANGED replayVars PROVE StageInv'
  BY <1>4 DEF Grip
<1>5. ASSUME NEW t \in Threads, PrepareWaypoint(t), UNCHANGED replayVars PROVE StageInv'
  BY <1>5 DEF PrepareWaypoint
<1>6. ASSUME NEW t \in Threads, PrepareHome(t), UNCHANGED replayVars PROVE StageInv'
  BY <1>6 DEF PrepareHome
<1>7. ASSUME NEW t \in Threads, Execute(t), UNCHANGED replayVars PROVE StageInv'
  BY <1>7 DEF Execute
<1>8. ASSUME NEW t \in Threads, Completed(t), UNCHANGED replayVars PROVE StageInv'
  BY <1>8 DEF Completed
<1>9. ASSUME NEW t \in Threads, TimesOut(t), UNCHANGED replayVars PROVE StageInv'
  BY <1>9 DEF TimesOut
<1>10. ASSUME NEW t \in Threads, HomeTimesOut(t), UNCHANGED replayVars PROVE StageInv'
  BY <1>10 DEF HomeTimesOut
<1>11. ASSUME NEW f \in Feeds, PublishFeedback(f), UNCHANGED replayVars PROVE StageInv'
  BY <1>11 DEF PublishFeedback
<1>12. ASSUME NEW f \in Feeds, ReportFeedback(f), UNCHANGED replayVars PROVE StageInv'
  BY <1>12 DEF ReportFeedback
<1>13. ASSUME NEW f \in Feeds, EndFeedback(f), UNCHANGED replayVars PROVE StageInv'
  BY <1>13 DEF EndFeedback
<1>14. CASE ArmEnds /\ UNCHANGED replayVars
  BY <1>14 DEF ArmEnds
<1>15. CASE Publish /\ UNCHANGED replayVars
  BY <1>15 DEF Publish
<1>16. CASE Awake /\ UNCHANGED replayVars
  BY <1>16 DEF Awake
<1>17. CASE Awoken /\ UNCHANGED replayVars
  BY <1>17 DEF Awoken
<1>18. CASE ApplyAction /\ UNCHANGED replayVars
  BY <1>18 DEF ApplyAction
<1>19. CASE HaltForChunk /\ UNCHANGED replayVars
  BY <1>19 DEF HaltForChunk
<1>20. CASE LeaveLoop /\ UNCHANGED replayVars
  BY <1>20 DEF LeaveLoop
<1>21. ASSUME NEW p \in Pausers, Pause(p), UNCHANGED replayVars PROVE StageInv'
  BY <1>21 DEF Pause, OnPage
<1>22. CASE Homed /\ UNCHANGED replayVars
  BY <1>22 DEF Homed
<1>23. CASE GoHome /\ UNCHANGED replayVars
  BY <1>23 DEF GoHome, OnPage
<1>24. CASE Resume /\ UNCHANGED replayVars
  BY <1>24 DEF Resume, OnPage
<1>25. CASE ReplayAwakes
  BY <1>25 DEF ReplayAwakes
<1>26. CASE ReplayStarts
  BY <1>26 DEF ReplayStarts
<1>27. CASE ReplayRefuses
  BY <1>27 DEF ReplayRefuses
<1>28. CASE ReplayTooLow
  BY <1>28 DEF ReplayTooLow
<1>29. CASE ReplaySends
  BY <1>29 DEF ReplaySends
<1>30. CASE ReplayRecords
  BY <1>30 DEF ReplayRecords
<1>31. CASE ReplayFails
  BY <1>31 DEF ReplayFails
<1>32. CASE ReplayFinishes
  BY <1>32 DEF ReplayFinishes
<1>33. CASE ReplayStops
  BY <1>33 DEF ReplayStops
<1>34. CASE ReplayKills
  BY <1>34 DEF ReplayKills
<1>35. CASE ReplayCloses
  BY <1>35 DEF ReplayCloses
<1>36. CASE Interrupt
  BY <1>36 DEF Interrupt
<1>37. CASE UNCHANGED vars
  BY <1>37 DEF vars
<1> QED
  BY <1>1, <1>2, <1>3, <1>4, <1>5, <1>6, <1>7, <1>8, <1>9, <1>10, <1>11, <1>12, <1>13,
    <1>14, <1>15, <1>16, <1>17, <1>18, <1>19, <1>20, <1>21, <1>22, <1>23, <1>24, <1>25,
    <1>26, <1>27, <1>28, <1>29, <1>30, <1>31, <1>32, <1>33, <1>34, <1>35, <1>36, <1>37
  DEF Next, ConnectionNext, Calls, TimedCalls, Feedback, Arm, Session, Replay

\* The command that ends a session or a replay is the last that moves the arm.
LEMMA RestStep == FlagsOK /\ DataOK /\ StageInv /\ RestInv /\ [Next]_vars => RestInv'
<1> SUFFICES ASSUME FlagsOK, DataOK, StageInv, RestInv, [Next]_vars PROVE RestInv'
  OBVIOUS
<1>0. /\ "loop" \in Threads /\ "home" \in Threads /\ Pausers \subseteq Threads
     /\ "loop" \notin Pausers /\ "home" \notin Pausers
     /\ Threads \subseteq {"loop", "home"} \cup Pausers
  BY KinovaAssumption DEF Threads
<1> USE <1>0 DEF DataOK, StageInv, RestInv, Rest, Twisting, vars, connVars,
        replayVars, stage, callVars, feedVars, armVars,
        Goto, Return, Begin, BeginTwist, Subscribe, GiveUp, Command, ExecuteAction, Fault,
        StartFeedback
<1>1. ASSUME NEW t \in Threads, SendTwist(t), UNCHANGED replayVars PROVE RestInv'
  <2>1. /\ UNCHANGED <<session, replay, stopFailed, kind>> /\ call[t] = "sending"
        /\ call' = [call EXCEPT ![t] = "tracing"]
    BY <1>1 DEF SendTwist
  <2>2. CASE session = "exited"
    <3>1. kind[t] = "zero"
      BY <2>1, <2>2
    <3>2. CASE Command(Rest)
      BY <2>1, <2>2, <3>2
    <3>3. CASE motion' = motion /\ error' = [error EXCEPT ![t] = TRUE]
      BY <2>1, <2>2, <3>3 DEF FlagsOK
    <3> QED BY <1>1, <3>1, <3>2, <3>3 DEF SendTwist
  <2>3. CASE session # "exited"
    BY <1>1, <2>1, <2>3 DEF SendTwist
  <2> QED BY <2>2, <2>3
<1>2. ASSUME NEW t \in Threads, TraceTwist(t), UNCHANGED replayVars PROVE RestInv'
  <2>1. UNCHANGED <<session, motion, replay, stopFailed>>
    BY <1>2 DEF TraceTwist
  <2>2. CASE error[t] \/ kind[t] = "zero"
    <3>1. /\ call' = [call EXCEPT ![t] = "idle"] /\ kind' = [kind EXCEPT ![t] = "zero"]
          /\ error' = [error EXCEPT ![t] = error[t]] /\ call[t] = "tracing"
      BY <1>2, <2>2 DEF TraceTwist
    <3>2. error'["loop"] = error["loop"]
      BY <3>1 DEF FlagsOK
    <3> QED BY <2>1, <3>1, <3>2
  <2>3. CASE ~(error[t] \/ kind[t] = "zero")
    <3>1. /\ call' = [call EXCEPT ![t] = "gripping"] /\ UNCHANGED <<kind, error>>
          /\ call[t] = "tracing"
      BY <1>2, <2>3 DEF TraceTwist
    <3>2. session = "exited" => t = "home"
      BY <2>3
    <3>3. t # "home"
      BY <2>3, <3>1
    <3> QED BY <2>1, <3>1, <3>2, <3>3
  <2> QED BY <2>2, <2>3
<1>3. ASSUME NEW t \in Threads, SendJoints(t), UNCHANGED replayVars PROVE RestInv'
  BY <1>3 DEF SendJoints
<1>4. ASSUME NEW t \in Threads, Grip(t), UNCHANGED replayVars PROVE RestInv'
  BY <1>4 DEF Grip
<1>5. ASSUME NEW t \in Threads, PrepareWaypoint(t), UNCHANGED replayVars PROVE RestInv'
  BY <1>5 DEF PrepareWaypoint
<1>6. ASSUME NEW t \in Threads, PrepareHome(t), UNCHANGED replayVars PROVE RestInv'
  <2>1. UNCHANGED <<session, replay, stopFailed>> /\ call[t] \notin {"idle", "sending", "tracing"}
    BY <1>6 DEF PrepareHome
  <2>2. CASE session = "exited"
    <3>1. t = "home"
      BY <2>1, <2>2
    <3>2. /\ call'["loop"] = call["loop"] /\ kind'["loop"] = kind["loop"]
          /\ error'["loop"] = error["loop"]
      BY <1>6, <3>1 DEF PrepareHome, FlagsOK
    <3>3. motion' = motion \/ motion' # Twisting
      BY <1>6 DEF PrepareHome
    <3> QED BY <2>1, <2>2, <3>2, <3>3
  <2>3. CASE session # "exited"
    BY <1>6, <2>1, <2>3 DEF PrepareHome
  <2> QED BY <2>2, <2>3
<1>7. ASSUME NEW t \in Threads, Execute(t), UNCHANGED replayVars PROVE RestInv'
  <2>1. UNCHANGED <<session, replay, stopFailed>> /\ call[t] \notin {"idle", "sending", "tracing"}
    BY <1>7 DEF Execute
  <2>2. CASE session = "exited"
    <3>1. t = "home"
      BY <2>1, <2>2
    <3>2. /\ call'["loop"] = call["loop"] /\ kind'["loop"] = kind["loop"]
          /\ error'["loop"] = error["loop"]
      BY <1>7, <3>1 DEF Execute, FlagsOK
    <3>3. motion' = motion \/ motion' # Twisting
      BY <1>7 DEF Execute
    <3> QED BY <2>1, <2>2, <3>2, <3>3
  <2>3. CASE session # "exited"
    BY <1>7, <2>1, <2>3 DEF Execute
  <2> QED BY <2>2, <2>3
<1>8. ASSUME NEW t \in Threads, Completed(t), UNCHANGED replayVars PROVE RestInv'
  <2>1. UNCHANGED <<session, motion, replay, stopFailed>> /\ call[t] = "waiting"
    BY <1>8 DEF Completed
  <2>2. CASE t = "loop"
    BY <2>1, <2>2
  <2>3. CASE t = "home"
    <3>1. /\ call'["loop"] = call["loop"] /\ kind'["loop"] = kind["loop"]
          /\ error'["loop"] = error["loop"]
      BY <1>8, <2>3 DEF Completed, FlagsOK
    <3> QED BY <2>1, <3>1
  <2>4. t \notin Pausers
    BY <2>1
  <2> QED BY <2>2, <2>3, <2>4
<1>9. ASSUME NEW t \in Threads, TimesOut(t), UNCHANGED replayVars PROVE RestInv'
  BY <1>9 DEF TimesOut
<1>10. ASSUME NEW t \in Threads, HomeTimesOut(t), UNCHANGED replayVars PROVE RestInv'
  BY <1>10 DEF HomeTimesOut
<1>11. ASSUME NEW f \in Feeds, PublishFeedback(f), UNCHANGED replayVars PROVE RestInv'
  BY <1>11 DEF PublishFeedback
<1>12. ASSUME NEW f \in Feeds, ReportFeedback(f), UNCHANGED replayVars PROVE RestInv'
  BY <1>12 DEF ReportFeedback
<1>13. ASSUME NEW f \in Feeds, EndFeedback(f), UNCHANGED replayVars PROVE RestInv'
  BY <1>13 DEF EndFeedback
<1>14. CASE ArmEnds /\ UNCHANGED replayVars
  BY <1>14 DEF ArmEnds
<1>15. CASE Publish /\ UNCHANGED replayVars
  BY <1>15 DEF Publish
<1>16. CASE Awake /\ UNCHANGED replayVars
  BY <1>16 DEF Awake
<1>17. CASE Awoken /\ UNCHANGED replayVars
  BY <1>17 DEF Awoken
<1>18. CASE ApplyAction /\ UNCHANGED replayVars
  BY <1>18 DEF ApplyAction
<1>19. CASE HaltForChunk /\ UNCHANGED replayVars
  BY <1>19 DEF HaltForChunk
<1>20. CASE LeaveLoop /\ UNCHANGED replayVars
  BY <1>20 DEF LeaveLoop
<1>21. ASSUME NEW p \in Pausers, Pause(p), UNCHANGED replayVars PROVE RestInv'
  BY <1>21 DEF Pause, OnPage
<1>22. CASE Homed /\ UNCHANGED replayVars
  BY <1>22 DEF Homed
<1>23. CASE GoHome /\ UNCHANGED replayVars
  BY <1>23 DEF GoHome, OnPage
<1>24. CASE Resume /\ UNCHANGED replayVars
  BY <1>24 DEF Resume, OnPage
<1>25. CASE ReplayAwakes
  BY <1>25 DEF ReplayAwakes
<1>26. CASE ReplayStarts
  BY <1>26 DEF ReplayStarts
<1>27. CASE ReplayRefuses
  BY <1>27 DEF ReplayRefuses
<1>28. CASE ReplayTooLow
  BY <1>28 DEF ReplayTooLow
<1>29. CASE ReplaySends
  BY <1>29 DEF ReplaySends
<1>30. CASE ReplayRecords
  BY <1>30 DEF ReplayRecords
<1>31. CASE ReplayFails
  BY <1>31 DEF ReplayFails
<1>32. CASE ReplayFinishes
  BY <1>32 DEF ReplayFinishes
<1>33. CASE ReplayStops
  BY <1>33 DEF ReplayStops
<1>34. CASE ReplayKills
  BY <1>34 DEF ReplayKills
<1>35. CASE ReplayCloses
  BY <1>35 DEF ReplayCloses
<1>36. CASE Interrupt
  <2>1. session # "exited" /\ UNCHANGED session /\ replay' = "stopping"
    BY <1>36 DEF Interrupt, Body
  <2> QED BY <2>1
<1>37. CASE UNCHANGED vars
  BY <1>37 DEF vars
<1> QED
  BY <1>1, <1>2, <1>3, <1>4, <1>5, <1>6, <1>7, <1>8, <1>9, <1>10, <1>11, <1>12, <1>13,
    <1>14, <1>15, <1>16, <1>17, <1>18, <1>19, <1>20, <1>21, <1>22, <1>23, <1>24, <1>25,
    <1>26, <1>27, <1>28, <1>29, <1>30, <1>31, <1>32, <1>33, <1>34, <1>35, <1>36, <1>37
  DEF Next, ConnectionNext, Calls, TimedCalls, Feedback, Arm, Session, Replay

\* The mode stays, and so does a disturbance.
LEMMA Monotone ==
  FlagsOK /\ [Next]_vars => mode' = mode /\ (disturbed => disturbed')
<1> SUFFICES ASSUME disturbed \in BOOLEAN, [Next]_vars
             PROVE  mode' = mode /\ (disturbed => disturbed')
  BY Zenon DEF FlagsOK
<1> USE DEF stage, Return, BeginTwist
<1>1. ASSUME NEW t \in Threads, Calls(t) PROVE mode' = mode /\ (disturbed => disturbed')
  BY <1>1, Zenon DEF Calls, TimedCalls, SendTwist, TraceTwist, SendJoints, Grip,
    PrepareWaypoint, PrepareHome, Execute, Completed, TimesOut, HomeTimesOut
<1>2. ASSUME NEW f \in Feeds, Feedback(f) PROVE mode' = mode /\ (disturbed => disturbed')
  BY <1>2, Zenon DEF Feedback, PublishFeedback, ReportFeedback, EndFeedback
<1>3. CASE Arm
  BY <1>3, Zenon DEF Arm, ArmEnds, Publish
<1>4. CASE Session
  BY <1>4, Zenon DEF Session, Awake, Awoken, ApplyAction, HaltForChunk, LeaveLoop, Pause, GoHome,
    Homed, Resume
<1>5. CASE Replay \/ Interrupt
  BY <1>5, Zenon DEF connVars, Replay, ReplayAwakes, ReplayStarts, ReplayRefuses, ReplayTooLow,
    ReplaySends, ReplayRecords, ReplayFails, ReplayFinishes, ReplayStops, ReplayKills,
    ReplayCloses, Interrupt
<1>6. CASE UNCHANGED vars
  <2>1. mode' = mode /\ disturbed' = disturbed
    BY <1>6 DEF vars, connVars
  <2> QED BY <2>1, Zenon
<1> QED BY <1>1, <1>2, <1>3, <1>4, <1>5, <1>6, Zenon DEF Next, ConnectionNext

\* An action that is not disturbed ends before the next one begins.
LEMMA WaitStep ==
  /\ DataOK /\ StageInv /\ WaitInv /\ mode = "waypoint" /\ ~disturbed /\ ~disturbed'
  /\ [Next]_vars
  => WaitInv'
<1> SUFFICES ASSUME DataOK, StageInv, WaitInv, mode = "waypoint", ~disturbed, ~disturbed',
                    [Next]_vars
             PROVE  WaitInv'
  OBVIOUS
<1>0. /\ "loop" \in Threads /\ "home" \in Threads /\ Pausers \subseteq Threads
     /\ "loop" \notin Pausers /\ "home" \notin Pausers
     /\ Threads \subseteq {"loop", "home"} \cup Pausers
  BY KinovaAssumption DEF Threads
<1> USE <1>0 DEF DataOK, StageInv, WaitInv, Rest, Twisting, vars, connVars,
        replayVars, stage, callVars, feedVars, armVars,
        Goto, Return, Begin, BeginTwist, Subscribe, GiveUp, Command, ExecuteAction, Fault,
        StartFeedback
<1>1. ASSUME NEW t \in Threads, SendTwist(t), UNCHANGED replayVars PROVE WaitInv'
  <2>1. /\ call[t] = "sending" /\ call' = [call EXCEPT ![t] = "tracing"]
        /\ UNCHANGED <<kind, outcome>>
    BY <1>1 DEF SendTwist
  <2>2. \/ UNCHANGED <<motion, events>>
        \/ /\ motion' \in {Rest, Twisting}
           /\ events' = IF motion > 0 THEN events \cup {[action |-> motion, event |-> "abort"]}
                        ELSE events
    BY <1>1 DEF SendTwist
  <2>3. motion \in Int
    BY KinovaAssumption
  <2>4. /\ motion' > Rest => motion' = motion /\ events' = events
        /\ \A e, f \in events' : e = f
        /\ motion' > Rest \/ events' # {} => motion > Rest \/ events # {}
    BY <2>2, <2>3
  <2> QED BY <2>1, <2>4
<1>2. ASSUME NEW t \in Threads, TraceTwist(t), UNCHANGED replayVars PROVE WaitInv'
  BY <1>2 DEF TraceTwist
<1>3. ASSUME NEW t \in Threads, SendJoints(t), UNCHANGED replayVars PROVE WaitInv'
  BY <1>3 DEF SendJoints
<1>4. ASSUME NEW t \in Threads, Grip(t), UNCHANGED replayVars PROVE WaitInv'
  BY <1>4 DEF Grip
<1>5. ASSUME NEW t \in Threads, PrepareWaypoint(t), UNCHANGED replayVars PROVE WaitInv'
  BY <1>5 DEF PrepareWaypoint
<1>6. ASSUME NEW t \in Threads, PrepareHome(t), UNCHANGED replayVars PROVE WaitInv'
  BY <1>6 DEF PrepareHome
<1>7. ASSUME NEW t \in Threads, Execute(t), UNCHANGED replayVars PROVE WaitInv'
  <2>1. kind[t] \in {"home", "waypoint"} /\ call[t] = "executing" /\ outcome[t] = "none"
    BY <1>7 DEF Execute
  <2>2. \A u \in Threads : call[u] # "waiting"
    BY <2>1
  <2>3. ~(motion > 0) /\ events = {}
    BY <2>2
  <2>4. CASE ExecuteAction /\ Goto(t, "waiting") /\ UNCHANGED <<kind, outcome>>
    <3>1. events' = {} /\ call' = [call EXCEPT ![t] = "waiting"]
      BY <2>3, <2>4
    <3> QED BY <2>1, <2>2, <2>4, <3>1
  <2>5. CASE /\ Return(t, TRUE) /\ UNCHANGED armVars
             /\ outcome' = [outcome EXCEPT ![t] = "none"]
    <3>1. /\ call' = [call EXCEPT ![t] = "idle"] /\ kind' = [kind EXCEPT ![t] = "zero"]
          /\ motion' = motion /\ events' = {}
      BY <2>3, <2>5
    <3> QED BY <2>2, <2>3, <2>5, <3>1
  <2> QED BY <1>7, <2>4, <2>5, Zenon DEF Execute
<1>8. ASSUME NEW t \in Threads, Completed(t), UNCHANGED replayVars PROVE WaitInv'
  BY <1>8 DEF Completed
<1>9. ASSUME NEW t \in Threads, TimesOut(t), UNCHANGED replayVars PROVE WaitInv'
  BY <1>9 DEF TimesOut
<1>10. ASSUME NEW t \in Threads, HomeTimesOut(t), UNCHANGED replayVars PROVE WaitInv'
  BY <1>10 DEF HomeTimesOut
<1>11. ASSUME NEW f \in Feeds, PublishFeedback(f), UNCHANGED replayVars PROVE WaitInv'
  BY <1>11 DEF PublishFeedback
<1>12. ASSUME NEW f \in Feeds, ReportFeedback(f), UNCHANGED replayVars PROVE WaitInv'
  BY <1>12 DEF ReportFeedback
<1>13. ASSUME NEW f \in Feeds, EndFeedback(f), UNCHANGED replayVars PROVE WaitInv'
  BY <1>13 DEF EndFeedback
<1>14. CASE ArmEnds /\ UNCHANGED replayVars
  BY <1>14 DEF ArmEnds
<1>15. CASE Publish /\ UNCHANGED replayVars
  BY <1>15 DEF Publish
<1>16. CASE Awake /\ UNCHANGED replayVars
  BY <1>16 DEF Awake
<1>17. CASE Awoken /\ UNCHANGED replayVars
  BY <1>17 DEF Awoken
<1>18. CASE ApplyAction /\ UNCHANGED replayVars
  <2>1. kind["home"] # "home" /\ mode = "waypoint"
    BY <1>18, Zenon DEF ApplyAction
  <2>2. /\ call' = [call EXCEPT !["loop"] = "preparing"] /\ call["loop"] = "idle"
        /\ kind' = [kind EXCEPT !["loop"] = "waypoint"]
        /\ UNCHANGED <<outcome, armVars>>
    BY <1>18, <2>1 DEF ApplyAction
  <2> QED BY <2>1, <2>2
<1>19. CASE HaltForChunk /\ UNCHANGED replayVars
  BY <1>19 DEF HaltForChunk
<1>20. CASE LeaveLoop /\ UNCHANGED replayVars
  BY <1>20 DEF LeaveLoop
<1>21. ASSUME NEW p \in Pausers, Pause(p), UNCHANGED replayVars PROVE WaitInv'
  BY <1>21 DEF Pause, OnPage
<1>22. CASE Homed /\ UNCHANGED replayVars
  BY <1>22 DEF Homed
<1>23. CASE GoHome /\ UNCHANGED replayVars
  <2>1. kind["loop"] # "waypoint"
    BY <1>23, Zenon DEF GoHome, OnPage
  <2> QED BY <1>23, <2>1 DEF GoHome, OnPage
<1>24. CASE Resume /\ UNCHANGED replayVars
  BY <1>24 DEF Resume, OnPage
<1>25. CASE ReplayAwakes
  BY <1>25 DEF ReplayAwakes
<1>26. CASE ReplayStarts
  BY <1>26 DEF ReplayStarts
<1>27. CASE ReplayRefuses
  BY <1>27 DEF ReplayRefuses
<1>28. CASE ReplayTooLow
  BY <1>28 DEF ReplayTooLow
<1>29. CASE ReplaySends
  BY <1>29 DEF ReplaySends
<1>30. CASE ReplayRecords
  BY <1>30 DEF ReplayRecords
<1>31. CASE ReplayFails
  BY <1>31 DEF ReplayFails
<1>32. CASE ReplayFinishes
  BY <1>32 DEF ReplayFinishes
<1>33. CASE ReplayStops
  BY <1>33 DEF ReplayStops
<1>34. CASE ReplayKills
  BY <1>34 DEF ReplayKills
<1>35. CASE ReplayCloses
  BY <1>35 DEF ReplayCloses
<1>36. CASE Interrupt
  <2>1. replay # "none"
    BY <1>36 DEF Interrupt, Body
  <2> QED BY <2>1
<1>37. CASE UNCHANGED vars
  BY <1>37 DEF vars
<1> QED
  BY <1>1, <1>2, <1>3, <1>4, <1>5, <1>6, <1>7, <1>8, <1>9, <1>10, <1>11, <1>12, <1>13,
    <1>14, <1>15, <1>16, <1>17, <1>18, <1>19, <1>20, <1>21, <1>22, <1>23, <1>24, <1>25,
    <1>26, <1>27, <1>28, <1>29, <1>30, <1>31, <1>32, <1>33, <1>34, <1>35, <1>36, <1>37
  DEF Next, ConnectionNext, Calls, TimedCalls, Feedback, Arm, Session, Replay

----------------------------------------------------------------------------
(* The inductive invariant *)

\* The invariant holds before the first step.
LEMMA InitInv == Init => IInv
<1> SUFFICES ASSUME Init PROVE IInv
  OBVIOUS
<1> USE KinovaAssumption, ReplayAssumption DEF Init, ConnectionInit, Threads, Modes
<1>1. FlagsOK
  BY Zenon DEF FlagsOK
<1>2. DataOK
  BY DEF DataOK, CallSteps, Body, Rest, Twisting
<1>3. RecordsInv /\ DistanceInv
  BY DEF RecordsInv, DistanceInv
<1>4. TraceInv
  BY DEF TraceInv, InHand
<1>5. StageInv
  BY DEF StageInv
<1>6. RestInv /\ WaitInv
  BY DEF RestInv, WaitInv, Rest
<1> QED BY <1>1, <1>2, <1>3, <1>4, <1>5, <1>6, Zenon DEF IInv, TypeOK

\* Every step keeps the invariant.
LEMMA StepInv == IInv /\ [Next]_vars => IInv'
<1> SUFFICES ASSUME IInv, [Next]_vars PROVE IInv'
  OBVIOUS
<1>1. FlagsOK /\ DataOK /\ RecordsInv /\ TraceInv /\ StageInv /\ RestInv /\ DistanceInv
  BY Zenon DEF IInv, TypeOK
<1>2. TypeOK'
  BY <1>1, FlagsStep, DataStep, Zenon DEF TypeOK
<1>3. RecordsInv' /\ TraceInv' /\ StageInv' /\ RestInv' /\ DistanceInv'
  BY <1>1, RecordsStep, TraceStep, StageStep, RestStep, DistanceStep, Zenon
<1>4. ASSUME mode' = "waypoint", ~disturbed' PROVE WaitInv'
  <2>1. mode = "waypoint" /\ ~disturbed
    BY <1>1, <1>4, Monotone
  <2>2. WaitInv
    BY <2>1, Zenon DEF IInv
  <2> QED BY <1>1, <1>4, <2>1, <2>2, WaitStep
<1> QED BY <1>2, <1>3, <1>4, Zenon DEF IInv

\* However many twists, actions, feedback threads and failures, the invariant holds.
THEOREM Invariance == Spec => []IInv
<1> QED BY InitInv, StepInv, PTL DEF Spec

\* Every variable has its type, and a replay's records lack one delta at most.
THEOREM TypeCorrect == Spec => []TypeOK
<1>1. IInv => TypeOK
  BY Zenon DEF IInv
<1> QED BY <1>1, Invariance, PTL

----------------------------------------------------------------------------
(* The properties *)

\* The feedback to a twist is reported once, for any number of twists, of threads that
\* publish feedback and of failures.
THEOREM TracedOnceHolds == Spec => []TracedOnce
<1>1. IInv => TracedOnce
  <2> SUFFICES ASSUME DataOK, TraceInv PROVE TracedOnce
    BY Zenon DEF IInv, TypeOK
  <2> SUFFICES ASSUME NEW n \in 1..MaxTwists
               PROVE  reports[n] + (IF n \in pending THEN 1 ELSE 0) <= 1
    BY DEF TracedOnce
  <2>1. reports[n] \in Nat /\ reports[n] <= 1 /\ (n \in pending => reports[n] = 0)
    BY DEF DataOK, TraceInv
  <2> QED BY <2>1
<1> QED BY <1>1, Invariance, PTL

\* The arm is at rest when the loop or a replay has ended, whoever paused it or sent it
\* home meanwhile and wherever the replay was interrupted.
THEOREM ComesToRestHolds == Spec => []ComesToRest
<1>1. IInv => ComesToRest
  <2> SUFFICES ASSUME RestInv PROVE ComesToRest
    BY Zenon DEF IInv
  <2> QED BY DEF RestInv, ComesToRest
<1> QED BY <1>1, Invariance, PTL

\* Only a thread at ExecuteAction gives the arm an action, in waypoint mode.
LEMMA OnlyExecute ==
  ASSUME DataOK, StageInv, mode = "waypoint", [Next]_vars, executed' > executed
  PROVE  \E t \in Threads : call[t] = "executing"
<1> SUFFICES ASSUME \A t \in Threads : call[t] # "executing"
             PROVE  executed' = executed
  BY KinovaAssumption DEF DataOK
<1> USE DEF armVars
<1>1. ASSUME NEW t \in Threads, Calls(t) PROVE executed' = executed
  <2>1. ~Execute(t)
    BY Zenon DEF Execute
  <2>2. ~SendJoints(t)
    BY DEF SendJoints, StageInv, Threads
  <2> QED
    BY <1>1, <2>1, <2>2, Zenon
    DEF Calls, TimedCalls, SendTwist, TraceTwist, Grip, PrepareWaypoint, PrepareHome, Completed,
      TimesOut, HomeTimesOut
<1>2. ASSUME NEW f \in Feeds, Feedback(f) PROVE executed' = executed
  BY <1>2, Zenon DEF Feedback, PublishFeedback, ReportFeedback, EndFeedback
<1>3. CASE Arm
  BY <1>3, Zenon DEF Arm, ArmEnds, Publish
<1>4. CASE Session
  BY <1>4, Zenon DEF Session, Awake, Awoken, ApplyAction, HaltForChunk, LeaveLoop, Pause, GoHome,
    Homed, Resume, BeginTwist
<1>5. CASE Replay \/ Interrupt
  BY <1>5, Zenon DEF connVars, Replay, ReplayAwakes, ReplayStarts, ReplayRefuses, ReplayTooLow,
    ReplaySends, ReplayRecords, ReplayFails, ReplayFinishes, ReplayStops, ReplayKills,
    ReplayCloses, Interrupt, BeginTwist
<1>6. CASE UNCHANGED vars
  BY <1>6 DEF vars, connVars
<1> QED BY <1>1, <1>2, <1>3, <1>4, <1>5, <1>6, Zenon DEF Next, ConnectionNext

\* Waypoints and homing wait for one another, for any number of actions and of
\* notifications that come late, while no call has raised and nobody is sent home in the
\* middle of a waypoint.
THEOREM WaitsForCompletionHolds == Spec => WaitsForCompletion
<1>1. IInv => DataOK /\ StageInv /\ (mode = "waypoint" /\ ~disturbed => WaitInv)
  BY Zenon DEF IInv, TypeOK
<1>2. ASSUME IInv, [Next]_vars, executed' > executed, mode = "waypoint", ~disturbed
      PROVE  motion <= Rest
  <2>1. PICK t \in Threads : call[t] = "executing"
    BY <1>1, <1>2, OnlyExecute
  <2>2. WaitInv /\ DataOK /\ StageInv
    BY <1>1, <1>2
  <2>3. ASSUME NEW u \in Threads PROVE call[u] # "waiting"
    BY <1>2, <2>1, <2>2, <2>3 DEF WaitInv, StageInv, Threads
  <2>4. ~(motion > Rest)
    BY <2>2, <2>3 DEF WaitInv
  <2>5. motion \in Int
    BY <2>2, KinovaAssumption DEF DataOK, Twisting
  <2> QED BY <2>4, <2>5 DEF Rest
<1>3. IInv /\ [Next]_vars
      => [executed' > executed /\ mode = "waypoint" /\ ~disturbed => motion <= Rest]_vars
  BY <1>2
<1> QED BY <1>3, Invariance, PTL DEF Spec, WaitsForCompletion

\* Deltas keep their distance for every period, however late the replay wakes up and
\* however long its calls take.
THEOREM KeepsDistanceHolds == Spec => KeepsDistance
<1>1. ASSUME DataOK, DistanceInv, [Next]_vars, sent' > sent, sent > 0
      PROVE  age + AtLeast(ahead, 0) >= Dt
  <2>1. sent \in Int
    BY <1>1, ReplayAssumption DEF DataOK
  <2>2. replay = "pacing"
    BY <1>1, <2>1 DEF Next, Replay, Interrupt, ReplayAwakes, ReplayStarts, ReplayRefuses,
      ReplayTooLow, ReplaySends, ReplayRecords, ReplayFails, ReplayFinishes, ReplayStops,
      ReplayKills, ReplayCloses, replayVars, vars
  <2> QED BY <1>1, <2>2 DEF DistanceInv
<1>2. IInv => DataOK /\ DistanceInv
  BY Zenon DEF IInv, TypeOK
<1>3. IInv /\ [Next]_vars
      => [sent' > sent /\ sent > 0 => age + AtLeast(ahead, 0) >= Dt]_vars
  BY <1>1, <1>2
<1> QED BY <1>3, Invariance, PTL DEF Spec, KeepsDistance
===============================================================================
