------------------------ MODULE EpisodeRecorder_proofs ------------------------
(***************************************************************************)
(* Proofs about EpisodeRecorder for any number of begins, saves and        *)
(* series: however they interleave, nothing is logged to a closed          *)
(* recording, what reports style and log to is styled in an episode that   *)
(* has data of it, and a save that nobody overlaps labels one episode.     *)
(***************************************************************************)
EXTENDS EpisodeRecorder, TLAPS

----------------------------------------------------------------------------
(* Types *)

\* Every step keeps the flags Boolean.
LEMMA FlagsStep == FlagsOK /\ [Next]_vars => FlagsOK'
<1> SUFFICES ASSUME FlagsOK, [Next]_vars PROVE FlagsOK'
  OBVIOUS
<1> USE DEF FlagsOK, episode, status, files, past, reports, Begin, SetGlobalDataRecording
<1>1. CASE Pause
  BY <1>1, Zenon DEF Pause
<1>2. CASE StartFails
  BY <1>2, Zenon DEF StartFails
<1>3. ASSUME NEW b \in Begins, Start(b) PROVE FlagsOK'
  <2>1. overlapped' \in BOOLEAN
    BY <1>3, Zenon DEF Start, Beginning
  <2> QED BY <1>3, <2>1, Zenon DEF Start
<1>4. ASSUME NEW b \in Begins, Unpause(b) PROVE FlagsOK'
  <2>1. overlapped' \in BOOLEAN
    BY <1>4, Zenon DEF Unpause, Beginning
  <2> QED BY <1>4, <2>1, Zenon DEF Unpause
<1>5. ASSUME NEW b \in Begins, BeginFails(b) PROVE FlagsOK'
  BY <1>5, Zenon DEF BeginFails
<1>6. ASSUME NEW b \in Begins, SetRecording(b) PROVE FlagsOK'
  BY <1>6, Zenon DEF SetRecording
<1>7. ASSUME NEW b \in Begins, SetEpisodeRec(b) PROVE FlagsOK'
  BY <1>7, Zenon DEF SetEpisodeRec
<1>8. ASSUME NEW b \in Begins, SetEpisodeDir(b) PROVE FlagsOK'
  BY <1>8, Zenon DEF SetEpisodeDir
<1>9. ASSUME NEW b \in Begins, SetStartedAt(b) PROVE FlagsOK'
  BY <1>9, Zenon DEF SetStartedAt
<1>10. ASSUME NEW b \in Begins, ResetStyles(b) PROVE FlagsOK'
  BY <1>10, Zenon DEF ResetStyles
<1>11. ASSUME NEW v \in Saves, SaveReadsRec(v) PROVE FlagsOK'
  BY <1>11, Zenon DEF SaveReadsRec
<1>12. ASSUME NEW v \in Saves, SaveReadsDir(v) PROVE FlagsOK'
  BY <1>12, Zenon DEF SaveReadsDir
<1>13. ASSUME NEW v \in Saves, SaveReadsStartedAt(v) PROVE FlagsOK'
  BY <1>13, Zenon DEF SaveReadsStartedAt
<1>14. ASSUME NEW v \in Saves, SaveSwitches(v) PROVE FlagsOK'
  BY <1>14, Zenon DEF SaveSwitches
<1>15. ASSUME NEW v \in Saves, SaveCloses(v) PROVE FlagsOK'
  BY <1>15, Zenon DEF SaveCloses
<1>16. ASSUME NEW v \in Saves, SaveWrites(v) PROVE FlagsOK'
  BY <1>16, Zenon DEF SaveWrites
<1>17. ASSUME NEW s \in Series, Report(s) PROVE FlagsOK'
  BY <1>17, Zenon DEF Report
<1>18. ASSUME NEW s \in Series, SetSeriesLogged(s) PROVE FlagsOK'
  BY <1>18, Zenon DEF SetSeriesLogged
<1>19. ASSUME NEW s \in Series, LogStyle(s) PROVE FlagsOK'
  BY <1>19, Zenon DEF LogStyle
<1>20. ASSUME NEW s \in Series, LogData(s) PROVE FlagsOK'
  BY <1>20, Zenon DEF LogData
<1>21. CASE UNCHANGED vars
  BY <1>21, Zenon DEF vars
<1> QED
  BY <1>1, <1>2, <1>3, <1>4, <1>5, <1>6, <1>7, <1>8, <1>9, <1>10, <1>11, <1>12, <1>13,
    <1>14, <1>15, <1>16, <1>17, <1>18, <1>19, <1>20, <1>21
  DEF Next, Beginner, Saver, Reporter

\* Every step keeps the data typed.
LEMMA DataStep == DataOK /\ [Next]_vars => DataOK'
<1> SUFFICES ASSUME DataOK, [Next]_vars PROVE DataOK'
  OBVIOUS
<1>0. \A s \in Series : Styling[s] \subseteq Entities /\ Logging[s] \subseteq Entities
  BY DEF Entities
<1> USE DEF DataOK, Steps, SaveSteps, ReportSteps, Episode, episode, status, files,
        past, reports, Begin, SetGlobalDataRecording
<1>1. CASE Pause
  BY <1>1 DEF Pause
<1>2. CASE StartFails
  BY <1>2 DEF StartFails
<1>3. ASSUME NEW b \in Begins, Start(b) PROVE DataOK'
  BY <1>3 DEF Start
<1>4. ASSUME NEW b \in Begins, Unpause(b) PROVE DataOK'
  BY <1>4 DEF Unpause
<1>5. ASSUME NEW b \in Begins, BeginFails(b) PROVE DataOK'
  BY <1>5 DEF BeginFails
<1>6. ASSUME NEW b \in Begins, SetRecording(b) PROVE DataOK'
  BY <1>6 DEF SetRecording
<1>7. ASSUME NEW b \in Begins, SetEpisodeRec(b) PROVE DataOK'
  BY <1>7 DEF SetEpisodeRec
<1>8. ASSUME NEW b \in Begins, SetEpisodeDir(b) PROVE DataOK'
  BY <1>8 DEF SetEpisodeDir
<1>9. ASSUME NEW b \in Begins, SetStartedAt(b) PROVE DataOK'
  BY <1>9 DEF SetStartedAt
<1>10. ASSUME NEW b \in Begins, ResetStyles(b) PROVE DataOK'
  BY <1>10 DEF ResetStyles
<1>11. ASSUME NEW v \in Saves, SaveReadsRec(v) PROVE DataOK'
  BY <1>11 DEF SaveReadsRec
<1>12. ASSUME NEW v \in Saves, SaveReadsDir(v) PROVE DataOK'
  BY <1>12 DEF SaveReadsDir
<1>13. ASSUME NEW v \in Saves, SaveReadsStartedAt(v) PROVE DataOK'
  BY <1>13 DEF SaveReadsStartedAt
<1>14. ASSUME NEW v \in Saves, SaveSwitches(v) PROVE DataOK'
  BY <1>14 DEF SaveSwitches
<1>15. ASSUME NEW v \in Saves, SaveCloses(v) PROVE DataOK'
  BY <1>15 DEF SaveCloses
<1>16. ASSUME NEW v \in Saves, SaveWrites(v) PROVE DataOK'
  BY <1>16 DEF SaveWrites, Nothing
<1>17. ASSUME NEW s \in Series, Report(s) PROVE DataOK'
  BY <1>0, <1>17 DEF Report
<1>18. ASSUME NEW s \in Series, SetSeriesLogged(s) PROVE DataOK'
  BY <1>0, <1>18 DEF SetSeriesLogged
<1>19. ASSUME NEW s \in Series, LogStyle(s) PROVE DataOK'
  <2>1. PICK e \in todo[s] :
          /\ styles' = IF recording = Server THEN {} ELSE styles \cup {e}
          /\ IF todo[s] = {e}
             THEN /\ report' = [report EXCEPT ![s] = "styled"]
                  /\ todo' = [todo EXCEPT ![s] = Logging[s]]
             ELSE todo' = [todo EXCEPT ![s] = @ \ {e}] /\ UNCHANGED report
    BY <1>19 DEF LogStyle
  <2>2. styles' \subseteq Entities
    BY <2>1
  <2>3. todo' \in [Series -> SUBSET Entities] /\ report' \in [Series -> ReportSteps]
    BY <1>0, <2>1
  <2> QED BY <1>19, <2>2, <2>3 DEF LogStyle
<1>20. ASSUME NEW s \in Series, LogData(s) PROVE DataOK'
  BY <1>20 DEF LogData
<1>21. CASE UNCHANGED vars
  BY <1>21 DEF vars
<1> QED
  BY <1>1, <1>2, <1>3, <1>4, <1>5, <1>6, <1>7, <1>8, <1>9, <1>10, <1>11, <1>12, <1>13,
    <1>14, <1>15, <1>16, <1>17, <1>18, <1>19, <1>20, <1>21
  DEF Next, Beginner, Saver, Reporter

\* No begin and no save makes a recording global whose file is closed, or closes one that
\* still is global.
LEMMA RecordingStep == DataOK /\ RecordingInv /\ [Next]_vars => RecordingInv'
<1> SUFFICES ASSUME DataOK, RecordingInv, [Next]_vars PROVE RecordingInv'
  OBVIOUS
<1> USE RecorderAssumption DEF DataOK, Episode, RecordingInv, Begun, Making,
        episode, status, files, past, reports, Begin, SetGlobalDataRecording
<1>1. CASE Pause
  BY <1>1 DEF Pause
<1>2. CASE StartFails
  BY <1>2 DEF StartFails
<1>3. ASSUME NEW b \in Begins, Start(b) PROVE RecordingInv'
  BY <1>3 DEF Start
<1>4. ASSUME NEW b \in Begins, Unpause(b) PROVE RecordingInv'
  BY <1>4 DEF Unpause
<1>5. ASSUME NEW b \in Begins, BeginFails(b) PROVE RecordingInv'
  BY <1>5 DEF BeginFails
<1>6. ASSUME NEW b \in Begins, SetRecording(b) PROVE RecordingInv'
  BY <1>6 DEF SetRecording
<1>7. ASSUME NEW b \in Begins, SetEpisodeRec(b) PROVE RecordingInv'
  BY <1>7 DEF SetEpisodeRec
<1>8. ASSUME NEW b \in Begins, SetEpisodeDir(b) PROVE RecordingInv'
  BY <1>8 DEF SetEpisodeDir
<1>9. ASSUME NEW b \in Begins, SetStartedAt(b) PROVE RecordingInv'
  BY <1>9 DEF SetStartedAt
<1>10. ASSUME NEW b \in Begins, ResetStyles(b) PROVE RecordingInv'
  BY <1>10 DEF ResetStyles
<1>11. ASSUME NEW v \in Saves, SaveReadsRec(v) PROVE RecordingInv'
  BY <1>11 DEF SaveReadsRec
<1>12. ASSUME NEW v \in Saves, SaveReadsDir(v) PROVE RecordingInv'
  BY <1>12 DEF SaveReadsDir
<1>13. ASSUME NEW v \in Saves, SaveReadsStartedAt(v) PROVE RecordingInv'
  BY <1>13 DEF SaveReadsStartedAt
<1>14. ASSUME NEW v \in Saves, SaveSwitches(v) PROVE RecordingInv'
  BY <1>14 DEF SaveSwitches
<1>15. ASSUME NEW v \in Saves, SaveCloses(v) PROVE RecordingInv'
  BY <1>15 DEF SaveCloses
<1>16. ASSUME NEW v \in Saves, SaveWrites(v) PROVE RecordingInv'
  BY <1>16 DEF SaveWrites, Nothing
<1>17. ASSUME NEW s \in Series, Report(s) PROVE RecordingInv'
  BY <1>17 DEF Report
<1>18. ASSUME NEW s \in Series, SetSeriesLogged(s) PROVE RecordingInv'
  BY <1>18 DEF SetSeriesLogged
<1>19. ASSUME NEW s \in Series, LogStyle(s) PROVE RecordingInv'
  BY <1>19 DEF LogStyle
<1>20. ASSUME NEW s \in Series, LogData(s) PROVE RecordingInv'
  BY <1>20 DEF LogData
<1>21. CASE UNCHANGED vars
  BY <1>21 DEF vars
<1> QED
  BY <1>1, <1>2, <1>3, <1>4, <1>5, <1>6, <1>7, <1>8, <1>9, <1>10, <1>11, <1>12, <1>13,
    <1>14, <1>15, <1>16, <1>17, <1>18, <1>19, <1>20, <1>21
  DEF Next, Beginner, Saver, Reporter

\* The flags of the series are reset after the recording has changed.
LEMMA StyledStep == FlagsOK /\ DataOK /\ RecordingInv /\ StyledInv /\ [Next]_vars => StyledInv'
<1> SUFFICES ASSUME FlagsOK, DataOK, RecordingInv, StyledInv, [Next]_vars PROVE StyledInv'
  OBVIOUS
<1> USE RecorderAssumption DEF DataOK, StyledInv, episode, status, files, past, reports,
        Begin, SetGlobalDataRecording
<1>1. CASE Pause
  BY <1>1 DEF Pause
<1>2. CASE StartFails
  BY <1>2 DEF StartFails
<1>3. ASSUME NEW b \in Begins, Start(b) PROVE StyledInv'
  BY <1>3 DEF Start
<1>4. ASSUME NEW b \in Begins, Unpause(b) PROVE StyledInv'
  BY <1>4 DEF Unpause
<1>5. ASSUME NEW b \in Begins, BeginFails(b) PROVE StyledInv'
  <2>1. recording # Server => recording # b
    BY <1>5 DEF BeginFails, RecordingInv, Begun, Making
  <2> QED BY <1>5, <2>1 DEF BeginFails
<1>6. ASSUME NEW b \in Begins, SetRecording(b) PROVE StyledInv'
  BY <1>6 DEF SetRecording
<1>7. ASSUME NEW b \in Begins, SetEpisodeRec(b) PROVE StyledInv'
  BY <1>7 DEF SetEpisodeRec
<1>8. ASSUME NEW b \in Begins, SetEpisodeDir(b) PROVE StyledInv'
  BY <1>8 DEF SetEpisodeDir
<1>9. ASSUME NEW b \in Begins, SetStartedAt(b) PROVE StyledInv'
  BY <1>9 DEF SetStartedAt
<1>10. ASSUME NEW b \in Begins, ResetStyles(b) PROVE StyledInv'
  BY <1>10 DEF ResetStyles
<1>11. ASSUME NEW v \in Saves, SaveReadsRec(v) PROVE StyledInv'
  BY <1>11 DEF SaveReadsRec
<1>12. ASSUME NEW v \in Saves, SaveReadsDir(v) PROVE StyledInv'
  BY <1>12 DEF SaveReadsDir
<1>13. ASSUME NEW v \in Saves, SaveReadsStartedAt(v) PROVE StyledInv'
  BY <1>13 DEF SaveReadsStartedAt
<1>14. ASSUME NEW v \in Saves, SaveSwitches(v) PROVE StyledInv'
  BY <1>14 DEF SaveSwitches
<1>15. ASSUME NEW v \in Saves, SaveCloses(v) PROVE StyledInv'
  BY <1>15 DEF SaveCloses
<1>16. ASSUME NEW v \in Saves, SaveWrites(v) PROVE StyledInv'
  BY <1>16 DEF SaveWrites
<1>17. ASSUME NEW s \in Series, Report(s) PROVE StyledInv'
  BY <1>17 DEF Report
<1>18. ASSUME NEW s \in Series, SetSeriesLogged(s) PROVE StyledInv'
  BY <1>18 DEF SetSeriesLogged
<1>19. ASSUME NEW s \in Series, LogStyle(s) PROVE StyledInv'
  <2>1. PICK e \in todo[s] :
          /\ styles' = IF recording = Server THEN {} ELSE styles \cup {e}
          /\ IF todo[s] = {e}
             THEN /\ report' = [report EXCEPT ![s] = "styled"]
                  /\ todo' = [todo EXCEPT ![s] = Logging[s]]
             ELSE todo' = [todo EXCEPT ![s] = @ \ {e}] /\ UNCHANGED report
    BY <1>19 DEF LogStyle
  <2>2. UNCHANGED <<recording, begin, seriesLogged>> /\ report[s] = "styling"
    BY <1>19 DEF LogStyle
  <2>3. SUFFICES ASSUME NEW r \in Series, recording # Server, begin[recording] = "done",
                        seriesLogged[r]
                 PROVE  Styling[r] \subseteq
                          styles' \cup (IF report'[r] = "styling" THEN todo'[r] ELSE {})
    BY <2>2
  <2>4. Styling[r] \subseteq styles \cup (IF report[r] = "styling" THEN todo[r] ELSE {})
    BY <2>3
  <2>5. styles' = styles \cup {e}
    BY <2>1, <2>3
  <2>6. CASE r = s
    BY <2>1, <2>2, <2>4, <2>5, <2>6
  <2>7. CASE r # s
    BY <2>1, <2>4, <2>5, <2>7
  <2> QED BY <2>6, <2>7
<1>20. ASSUME NEW s \in Series, LogData(s) PROVE StyledInv'
  BY <1>20 DEF LogData
<1>21. CASE UNCHANGED vars
  BY <1>21 DEF vars
<1> QED
  BY <1>1, <1>2, <1>3, <1>4, <1>5, <1>6, <1>7, <1>8, <1>9, <1>10, <1>11, <1>12, <1>13,
    <1>14, <1>15, <1>16, <1>17, <1>18, <1>19, <1>20, <1>21
  DEF Next, Beginner, Saver, Reporter

\* As long as begins do not overlap, the fields are of one episode between begins.
LEMMA FieldsStep == DataOK /\ FieldsInv /\ [Next]_vars => FieldsInv'
<1> SUFFICES ASSUME DataOK, FieldsInv, [Next]_vars PROVE FieldsInv'
  OBVIOUS
<1> USE DEF DataOK, FieldsInv, Beginning, Making, episode, status, files, past, reports,
        Begin, SetGlobalDataRecording
<1>1. CASE Pause
  BY <1>1 DEF Pause
<1>2. CASE StartFails
  BY <1>2 DEF StartFails
<1>3. ASSUME NEW b \in Begins, Start(b) PROVE FieldsInv'
  BY <1>3 DEF Start
<1>4. ASSUME NEW b \in Begins, Unpause(b) PROVE FieldsInv'
  BY <1>4 DEF Unpause
<1>5. ASSUME NEW b \in Begins, BeginFails(b) PROVE FieldsInv'
  BY <1>5 DEF BeginFails
<1>6. ASSUME NEW b \in Begins, SetRecording(b) PROVE FieldsInv'
  BY <1>6 DEF SetRecording
<1>7. ASSUME NEW b \in Begins, SetEpisodeRec(b) PROVE FieldsInv'
  BY <1>7 DEF SetEpisodeRec
<1>8. ASSUME NEW b \in Begins, SetEpisodeDir(b) PROVE FieldsInv'
  BY <1>8 DEF SetEpisodeDir
<1>9. ASSUME NEW b \in Begins, SetStartedAt(b) PROVE FieldsInv'
  BY <1>9 DEF SetStartedAt
<1>10. ASSUME NEW b \in Begins, ResetStyles(b) PROVE FieldsInv'
  BY <1>10 DEF ResetStyles
<1>11. ASSUME NEW v \in Saves, SaveReadsRec(v) PROVE FieldsInv'
  BY <1>11 DEF SaveReadsRec
<1>12. ASSUME NEW v \in Saves, SaveReadsDir(v) PROVE FieldsInv'
  BY <1>12 DEF SaveReadsDir
<1>13. ASSUME NEW v \in Saves, SaveReadsStartedAt(v) PROVE FieldsInv'
  BY <1>13 DEF SaveReadsStartedAt
<1>14. ASSUME NEW v \in Saves, SaveSwitches(v) PROVE FieldsInv'
  BY <1>14 DEF SaveSwitches
<1>15. ASSUME NEW v \in Saves, SaveCloses(v) PROVE FieldsInv'
  BY <1>15 DEF SaveCloses
<1>16. ASSUME NEW v \in Saves, SaveWrites(v) PROVE FieldsInv'
  BY <1>16 DEF SaveWrites
<1>17. ASSUME NEW s \in Series, Report(s) PROVE FieldsInv'
  BY <1>17 DEF Report
<1>18. ASSUME NEW s \in Series, SetSeriesLogged(s) PROVE FieldsInv'
  BY <1>18 DEF SetSeriesLogged
<1>19. ASSUME NEW s \in Series, LogStyle(s) PROVE FieldsInv'
  BY <1>19 DEF LogStyle
<1>20. ASSUME NEW s \in Series, LogData(s) PROVE FieldsInv'
  BY <1>20 DEF LogData
<1>21. CASE UNCHANGED vars
  BY <1>21 DEF vars
<1> QED
  BY <1>1, <1>2, <1>3, <1>4, <1>5, <1>6, <1>7, <1>8, <1>9, <1>10, <1>11, <1>12, <1>13,
    <1>14, <1>15, <1>16, <1>17, <1>18, <1>19, <1>20, <1>21
  DEF Next, Beginner, Saver, Reporter

\* What a save reads stays so unless a begin overlaps it.
LEMMA AloneStep == DataOK /\ AloneInv /\ [Next]_vars => AloneInv'
<1> SUFFICES ASSUME DataOK, AloneInv, [Next]_vars PROVE AloneInv'
  OBVIOUS
<1> USE DEF DataOK, AloneInv, Beginning, Making, Saving, episode, status, files, past, reports,
        Begin, SetGlobalDataRecording
<1>1. CASE Pause
  BY <1>1 DEF Pause
<1>2. CASE StartFails
  BY <1>2 DEF StartFails
<1>3. ASSUME NEW b \in Begins, Start(b) PROVE AloneInv'
  BY <1>3 DEF Start
<1>4. ASSUME NEW b \in Begins, Unpause(b) PROVE AloneInv'
  BY <1>4 DEF Unpause
<1>5. ASSUME NEW b \in Begins, BeginFails(b) PROVE AloneInv'
  BY <1>5 DEF BeginFails
<1>6. ASSUME NEW b \in Begins, SetRecording(b) PROVE AloneInv'
  BY <1>6 DEF SetRecording
<1>7. ASSUME NEW b \in Begins, SetEpisodeRec(b) PROVE AloneInv'
  BY <1>7 DEF SetEpisodeRec
<1>8. ASSUME NEW b \in Begins, SetEpisodeDir(b) PROVE AloneInv'
  BY <1>8 DEF SetEpisodeDir
<1>9. ASSUME NEW b \in Begins, SetStartedAt(b) PROVE AloneInv'
  BY <1>9 DEF SetStartedAt
<1>10. ASSUME NEW b \in Begins, ResetStyles(b) PROVE AloneInv'
  BY <1>10 DEF ResetStyles
<1>11. ASSUME NEW v \in Saves, SaveReadsRec(v) PROVE AloneInv'
  <2> USE <1>11 DEF SaveReadsRec
  <2>1. CASE Beginning \/ overlapped
    <3>1. alone' = alone
      BY <2>1
    <3>2. v \notin alone /\ \A w \in alone : ~Saving(w)
      BY <2>1
    <3> QED BY <2>1, <3>1, <3>2
  <2>2. CASE ~(Beginning \/ overlapped)
    BY <2>2
  <2> QED BY <2>1, <2>2
<1>12. ASSUME NEW v \in Saves, SaveReadsDir(v) PROVE AloneInv'
  BY <1>12 DEF SaveReadsDir
<1>13. ASSUME NEW v \in Saves, SaveReadsStartedAt(v) PROVE AloneInv'
  BY <1>13 DEF SaveReadsStartedAt
<1>14. ASSUME NEW v \in Saves, SaveSwitches(v) PROVE AloneInv'
  BY <1>14 DEF SaveSwitches
<1>15. ASSUME NEW v \in Saves, SaveCloses(v) PROVE AloneInv'
  BY <1>15 DEF SaveCloses
<1>16. ASSUME NEW v \in Saves, SaveWrites(v) PROVE AloneInv'
  BY <1>16 DEF SaveWrites
<1>17. ASSUME NEW s \in Series, Report(s) PROVE AloneInv'
  BY <1>17 DEF Report
<1>18. ASSUME NEW s \in Series, SetSeriesLogged(s) PROVE AloneInv'
  BY <1>18 DEF SetSeriesLogged
<1>19. ASSUME NEW s \in Series, LogStyle(s) PROVE AloneInv'
  BY <1>19 DEF LogStyle
<1>20. ASSUME NEW s \in Series, LogData(s) PROVE AloneInv'
  BY <1>20 DEF LogData
<1>21. CASE UNCHANGED vars
  BY <1>21 DEF vars
<1> QED
  BY <1>1, <1>2, <1>3, <1>4, <1>5, <1>6, <1>7, <1>8, <1>9, <1>10, <1>11, <1>12, <1>13,
    <1>14, <1>15, <1>16, <1>17, <1>18, <1>19, <1>20, <1>21
  DEF Next, Beginner, Saver, Reporter

\* The invariant holds before the first step.
LEMMA InitInv == Init => IInv
<1> SUFFICES ASSUME Init PROVE IInv
  OBVIOUS
<1> USE RecorderAssumption DEF Init, Nothing
<1>1. FlagsOK
  BY Zenon DEF FlagsOK
<1>2. DataOK
  BY DEF DataOK, Steps, SaveSteps, ReportSteps, Episode
<1>3. RecordingInv
  BY DEF RecordingInv
<1>4. StyledInv /\ FieldsInv /\ AloneInv
  BY DEF StyledInv, FieldsInv, AloneInv
<1> QED BY <1>1, <1>2, <1>3, <1>4, Zenon DEF IInv, TypeOK

\* Every step keeps the invariant.
LEMMA StepInv == IInv /\ [Next]_vars => IInv'
BY FlagsStep, DataStep, RecordingStep, StyledStep, FieldsStep, AloneStep, Zenon
DEF IInv, TypeOK

\* However many begins, saves and series, the invariant holds.
THEOREM Invariance == Spec => []IInv
<1> QED BY InitInv, StepInv, PTL DEF Spec

----------------------------------------------------------------------------
(* The properties *)

\* Nothing is logged to a recording whose file is closed, for any number of starts,
\* resumes, saves and series.
THEOREM NeverLogsToClosedHolds == Spec => []NeverLogsToClosed
<1>1. IInv => NeverLogsToClosed
  BY Zenon DEF IInv, RecordingInv, NeverLogsToClosed
<1> QED BY <1>1, Invariance, PTL

\* Whoever reports while recordings change, an entity that its report styles and logs to
\* is styled in an episode that has data of it, or counts as unstyled.
THEOREM StylesFollowHolds == Spec => []StylesFollow
<1>1. IInv => StylesFollow
  <2> SUFFICES ASSUME DataOK, StyledInv PROVE StylesFollow
    BY Zenon DEF IInv, TypeOK
  <2> QED BY DEF DataOK, StyledInv, StylesFollow
<1> QED BY <1>1, Invariance, PTL

\* A save that no begin overlaps labels one episode, however many begins failed before
\* and however many other saves there are.
THEOREM SavesOneEpisodeHolds == Spec => SavesOneEpisode
<1>1. IInv => DataOK /\ FieldsInv /\ AloneInv
  BY Zenon DEF IInv, TypeOK
<1>2. ASSUME DataOK, FieldsInv, AloneInv, NEW v \in alone, SaveWrites(v)
      PROVE  old[v].rec = old[v].dir /\ old[v].dir = old[v].startedAt
  <2>1. save[v] = "closed" /\ v \in Saves
    BY <1>2 DEF SaveWrites, DataOK
  <2>2. /\ ~overlapped /\ ~Beginning
        /\ old[v].rec = episodeRec /\ old[v].dir = episodeDir
        /\ old[v].startedAt = episodeStartedAt
    BY <1>2, <2>1 DEF AloneInv, Saving
  <2>3. episodeRec = episodeDir /\ episodeDir = episodeStartedAt
    BY <1>2, <2>2 DEF FieldsInv, Beginning
  <2> QED BY <2>2, <2>3
<1>3. IInv /\ [Next]_vars
      => [\A v \in alone :
            SaveWrites(v) => old[v].rec = old[v].dir /\ old[v].dir = old[v].startedAt]_vars
  BY <1>1, <1>2, Zenon
<1> QED BY <1>3, Invariance, PTL DEF Spec, SavesOneEpisode
===============================================================================
