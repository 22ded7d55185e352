-------------------------- MODULE EpisodeRecorder --------------------------
(***************************************************************************)
(* The episode recorder of gui.py.  Every start and every resume begins an *)
(* episode: a directory, a recording that writes into it and to the live   *)
(* viewer, and three fields that say which episode is under way.  Saving   *)
(* closes that recording and writes the episode's metadata.  The loop and  *)
(* the telemetry thread report to whichever recording is the global one at *)
(* the moment, the styles first and the data after that: one report styles *)
(* several entities under one flag, and not always the ones it logs to.    *)
(*                                                                         *)
(* Begins run in the start thread, in HTTP threads that resume and in the  *)
(* thread that resumes after homing; saves run in HTTP threads.  Only      *)
(* saves take the episode lock.  An episode is named by its begin.         *)
(***************************************************************************)
EXTENDS Naturals, FiniteSets

CONSTANTS
  Begins,     \* calls of _begin_episode, each of which makes an episode
  Saves,      \* calls of save_episode
  Series,     \* the reports that style series, each made by a thread of its own
  Server,     \* _server_rec, the recording of the live viewer
  None

\* The entities that a report styles under its flag; a pose's position and orientation
\* count as one.  "delta", "relative" and "pose" are the kinds of action, of which a
\* session has one.
Styling ==
  [state    |-> {"state/target_pose", "state/joint_angles", "state/gripper"},
   delta    |-> {"action_cartesian", "action_cartesian/gripper"},
   relative |-> {"obs_rel_delta", "obs_rel_delta/gripper"},
   pose     |-> {"action_target_pose", "action_target_pose/gripper"},
   depth    |-> {"queue_depth"},
   timing   |-> {"loop_drift_ms"},
   latency  |-> {"client/latency_ms"}]

\* The entities it logs data to.
Logging ==
  [state    |-> {"state/pose", "state/joint_angles", "state/gripper"},
   delta    |-> {"action_delta", "inference/gripper"},
   relative |-> {"obs_rel_delta", "obs_rel_delta/gripper"},
   pose     |-> {"action_target_pose", "inference/gripper"},
   depth    |-> {"queue_depth"},
   timing   |-> {"loop_drift_ms"},
   latency  |-> {"client/latency_ms"}]

Entities == UNION {Styling[s] \cup Logging[s] : s \in Series}

ASSUME RecorderAssumption ==
  /\ Server \notin Begins /\ None \notin Begins /\ Server # None
  /\ Series \subseteq DOMAIN Styling

VARIABLES
  started, paused,     \* _status; _actively_predicting is the first without the second
  recording,           \* rerun's global recording
  episodeRec, episodeDir, episodeStartedAt,   \* of the episode under way
  seriesLogged,        \* the _..._series_logged flags
  begin, save, report, \* where each thread is
  old,                 \* what a save has read of the episode under way
  todo,                \* the entities a report has yet to style, or to log data to
  styles, data,        \* the entities with styles and data in the global recording,
                       \* as far as it is an episode's
  closed,              \* recordings whose file sink is closed
  overlapped,          \* history: two begins were under way at the same time
  alone                \* history: saves that no begin overlapped

episode == <<episodeRec, episodeDir, episodeStartedAt>>
status  == <<started, paused>>
files   == <<styles, data, closed>>
past    == <<overlapped, alone>>
reports == <<report, todo>>
vars    == <<status, recording, episode, seriesLogged, begin, save, reports, old, files, past>>

Nothing == [rec |-> None, dir |-> None, startedAt |-> None]

Init ==
  /\ started = FALSE /\ paused = FALSE
  /\ recording = Server
  /\ episodeRec = None /\ episodeDir = None /\ episodeStartedAt = None
  /\ seriesLogged = [s \in Series |-> FALSE]
  /\ begin = [b \in Begins |-> "idle"] /\ save = [v \in Saves |-> "idle"]
  /\ report = [s \in Series |-> "idle"] /\ todo = [s \in Series |-> {}]
  /\ old = [v \in Saves |-> Nothing]
  /\ styles = {} /\ data = {} /\ closed = {}
  /\ overlapped = FALSE /\ alone = {}

\* A recording is made global; once another is, it never is again, except Server.
SetGlobalDataRecording(rec) ==
  /\ recording' = rec
  /\ styles' = {} /\ data' = {}

Beginning == \E b \in Begins : begin[b] \notin {"idle", "done"}
Making(b) == begin[b] \in {"starting", "resuming"}
Saving(v) == save[v] \notin {"idle", "done"}

----------------------------------------------------------------------------
(* Start, pause and resume *)

\* A thread enters _begin_episode; the saves in progress are no longer alone.
Begin(b, purpose) ==
  /\ begin[b] = "idle"
  /\ begin' = [begin EXCEPT ![b] = purpose]
  /\ overlapped' = (overlapped \/ Beginning)
  /\ alone' = alone \ {v \in Saves : Saving(v)}

\* run_player: the page shows Started before the episode begins.
Start(b) ==
  /\ ~started
  /\ started' = TRUE
  /\ Begin(b, "starting")
  /\ UNCHANGED <<paused, recording, episode, seriesLogged, save, reports, old, files>>

\* unpause: the same for Paused, by a click or after homing.
Unpause(b) ==
  /\ started /\ paused
  /\ paused' = FALSE
  /\ Begin(b, "resuming")
  /\ UNCHANGED <<started, recording, episode, seriesLogged, save, reports, old, files>>

\* run_player: the loop ends with an exception, which takes the start back.
StartFails ==
  /\ started /\ \A b \in Begins : begin[b] # "starting"
  /\ started' = FALSE /\ paused' = FALSE
  /\ UNCHANGED <<recording, episode, seriesLogged, begin, save, reports, old, files,
                 past>>

Pause ==
  /\ started /\ ~paused
  /\ paused' = TRUE
  /\ UNCHANGED <<started, recording, episode, seriesLogged, begin, save, reports, old,
                 files, past>>

----------------------------------------------------------------------------
(* _begin_episode *)

\* Faulty variant: the directory is announced before the sinks are set, which fails.
BeginFailsAnnounced(b) ==
  /\ Making(b)
  /\ episodeDir' = b
  /\ begin' = [begin EXCEPT ![b] = "done"]
  /\ UNCHANGED status
  /\ UNCHANGED <<recording, episodeRec, episodeStartedAt, seriesLogged, save, reports,
                 old, files, past>>

\* mkdir, the sinks or the blueprint fail.  A start is taken back; a resume is
\* not, the page goes on showing that the policy runs.
BeginFails(b) ==
  /\ Making(b)
  /\ IF begin[b] = "starting" THEN started' = FALSE /\ paused' = FALSE
     ELSE UNCHANGED status
  /\ begin' = [begin EXCEPT ![b] = "done"]
  /\ UNCHANGED <<recording, episode, seriesLogged, save, reports, old, files, past>>

\* Faulty variant: the new recording is announced before it is the global one.
SetRecordingAnnounced(b) ==
  /\ Making(b)
  /\ \/ episodeRec' = b /\ UNCHANGED <<recording, styles, data, begin>>
     \/ /\ episodeRec = b /\ UNCHANGED episodeRec
        /\ SetGlobalDataRecording(b)
        /\ begin' = [begin EXCEPT ![b] = "set"]
  /\ UNCHANGED <<status, episodeDir, episodeStartedAt, seriesLogged, save, reports, old,
                 closed, past>>

\* set_global_data_recording(rec), once directory and sinks are there.
SetRecording(b) ==
  /\ Making(b)
  /\ SetGlobalDataRecording(b)
  /\ begin' = [begin EXCEPT ![b] = "set"]
  /\ UNCHANGED <<status, episode, seriesLogged, save, reports, old, closed, past>>

\* The three fields, one after the other.
SetEpisodeRec(b) ==
  /\ begin[b] = "set"
  /\ episodeRec' = b
  /\ begin' = [begin EXCEPT ![b] = "rec"]
  /\ UNCHANGED <<status, recording, episodeDir, episodeStartedAt, seriesLogged, save,
                 reports, old, files, past>>

SetEpisodeDir(b) ==
  /\ begin[b] = "rec"
  /\ episodeDir' = b
  /\ begin' = [begin EXCEPT ![b] = "dir"]
  /\ UNCHANGED <<status, recording, episodeRec, episodeStartedAt, seriesLogged, save,
                 reports, old, files, past>>

SetStartedAt(b) ==
  /\ begin[b] = "dir"
  /\ episodeStartedAt' = b
  /\ begin' = [begin EXCEPT ![b] = "started"]
  /\ UNCHANGED <<status, recording, episodeRec, episodeDir, seriesLogged, save, reports,
                 old, files, past>>

\* Faulty variant: the flag of one series is forgotten.
ResetStylesButOne(b) ==
  /\ begin[b] = "started"
  /\ seriesLogged' = [s \in Series |-> IF s = "pose" THEN seriesLogged[s] ELSE FALSE]
  /\ begin' = [begin EXCEPT ![b] = "done"]
  /\ UNCHANGED <<status, recording, episode, save, reports, old, files, past>>

\* Styles are per recording: they are sent again.
ResetStyles(b) ==
  /\ begin[b] = "started"
  /\ seriesLogged' = [s \in Series |-> FALSE]
  /\ begin' = [begin EXCEPT ![b] = "done"]
  /\ UNCHANGED <<status, recording, episode, save, reports, old, files, past>>

----------------------------------------------------------------------------
(* save_episode *)

LockFree == \A v \in Saves : save[v] \notin {"rec", "dir", "startedAt"}

SaveReadsRec(v) ==
  /\ save[v] = "idle" /\ LockFree
  /\ old' = [old EXCEPT ![v].rec = episodeRec]
  /\ save' = [save EXCEPT ![v] = "rec"]
  /\ alone' = IF Beginning \/ overlapped THEN alone ELSE alone \cup {v}
  /\ UNCHANGED <<status, recording, episode, seriesLogged, begin, reports, files,
                 overlapped>>

SaveReadsDir(v) ==
  /\ save[v] = "rec"
  /\ old' = [old EXCEPT ![v].dir = episodeDir]
  /\ save' = [save EXCEPT ![v] = "dir"]
  /\ UNCHANGED <<status, recording, episode, seriesLogged, begin, reports, files, past>>

SaveReadsStartedAt(v) ==
  /\ save[v] = "dir"
  /\ old' = [old EXCEPT ![v].startedAt = episodeStartedAt]
  /\ save' = [save EXCEPT ![v] = "startedAt"]
  /\ UNCHANGED <<status, recording, episode, seriesLogged, begin, reports, files, past>>

\* Reports go to the live viewer only, which is then cleared.
SaveSwitches(v) ==
  /\ save[v] = "startedAt"
  /\ SetGlobalDataRecording(Server)
  /\ save' = [save EXCEPT ![v] = "switched"]
  /\ UNCHANGED <<status, episode, seriesLogged, begin, reports, old, closed, past>>

\* flush and disconnect; before the first episode there is nothing to close.
SaveCloses(v) ==
  /\ save[v] = "switched"
  /\ IF old[v].rec = None
     THEN save' = [save EXCEPT ![v] = "done"] /\ UNCHANGED closed
     ELSE save' = [save EXCEPT ![v] = "closed"] /\ closed' = closed \cup {old[v].rec}
  /\ UNCHANGED <<status, recording, episode, seriesLogged, begin, reports, old, styles,
                 data, past>>

\* metadata.json is written to the directory that was read, with the recording and
\* the start that were; it fails when the first episode was not complete by then.
SaveWrites(v) ==
  /\ save[v] = "closed"
  /\ old' = [old EXCEPT ![v] = Nothing]
  /\ save' = [save EXCEPT ![v] = "done"]
  /\ UNCHANGED <<status, recording, episode, seriesLogged, begin, reports, files, past>>

----------------------------------------------------------------------------
(* Reports *)

\* report_...: nothing is logged unless the policy runs, and what counts as styled is
\* not styled again.
Report(s) ==
  /\ report[s] = "idle" /\ started /\ ~paused
  /\ IF seriesLogged[s]
     THEN report' = [report EXCEPT ![s] = "styled"] /\ todo' = [todo EXCEPT ![s] = Logging[s]]
     ELSE report' = [report EXCEPT ![s] = "unstyled"] /\ UNCHANGED todo
  /\ UNCHANGED <<status, recording, episode, seriesLogged, begin, save, old, files, past>>

\* The flag is set before the first style is logged.
SetSeriesLogged(s) ==
  /\ report[s] = "unstyled"
  /\ seriesLogged' = [seriesLogged EXCEPT ![s] = TRUE]
  /\ report' = [report EXCEPT ![s] = "styling"]
  /\ todo' = [todo EXCEPT ![s] = Styling[s]]
  /\ UNCHANGED <<status, recording, episode, begin, save, old, files, past>>

\* rr.log(entity, SeriesLines, static), one after the other; their order is left open.
LogStyle(s) ==
  /\ report[s] = "styling"
  /\ \E e \in todo[s] :
       /\ styles' = IF recording = Server THEN {} ELSE styles \cup {e}
       /\ IF todo[s] = {e}
          THEN /\ report' = [report EXCEPT ![s] = "styled"]
               /\ todo' = [todo EXCEPT ![s] = Logging[s]]
          ELSE todo' = [todo EXCEPT ![s] = @ \ {e}] /\ UNCHANGED report
  /\ UNCHANGED <<status, recording, episode, seriesLogged, begin, save, old, data, closed,
                 past>>

\* rr.log(entity, Scalars), likewise.
LogData(s) ==
  /\ report[s] = "styled"
  /\ \E e \in todo[s] :
       /\ data' = IF recording = Server THEN {} ELSE data \cup {e}
       /\ todo' = [todo EXCEPT ![s] = @ \ {e}]
       /\ report' = IF todo[s] = {e} THEN [report EXCEPT ![s] = "idle"] ELSE report
  /\ UNCHANGED <<status, recording, episode, seriesLogged, begin, save, old, styles,
                 closed, past>>

----------------------------------------------------------------------------
Beginner(b) ==
  \/ Start(b) \/ Unpause(b) \/ BeginFails(b) \/ SetRecording(b) \/ SetEpisodeRec(b)
  \/ SetEpisodeDir(b) \/ SetStartedAt(b) \/ ResetStyles(b)
Saver(v) ==
  \/ SaveReadsRec(v) \/ SaveReadsDir(v) \/ SaveReadsStartedAt(v) \/ SaveSwitches(v)
  \/ SaveCloses(v) \/ SaveWrites(v)
Reporter(s) == Report(s) \/ SetSeriesLogged(s) \/ LogStyle(s) \/ LogData(s)

Next ==
  \/ Pause \/ StartFails
  \/ \E b \in Begins : Beginner(b)
  \/ \E v \in Saves : Saver(v)
  \/ \E s \in Series : Reporter(s)

Spec == Init /\ [][Next]_vars

----------------------------------------------------------------------------
(* Properties *)

\* No report ever goes to a recording whose file is closed, however starts,
\* resumes, saves and the reporting threads interleave: what does not reach an
\* episode's file because a save overtook its begin is in the live viewer.
NeverLogsToClosed == recording \notin closed

\* Unless two begins overlap, or a begin and the save, a save labels one episode:
\* the directory, the recording it closed and the start it writes belong together,
\* also after begins that failed half-way and when an episode is saved twice.
SavesOneEpisode ==
  [][\A v \in alone :
       SaveWrites(v) => old[v].rec = old[v].dir /\ old[v].dir = old[v].startedAt]_vars

\* An entity that its report styles as well as logs to, the joint angles, the loop's
\* timing, the observation-relative deltas, is styled in the recording of an episode
\* that has data of it, or its report counts as unstyled and will style it the next time
\* ("Static styling (SeriesLines) is per-recording: re-send it in the new one"), whoever
\* reports while the recordings change.  Of the arm's pose, the Cartesian deltas and
\* their gripper it says nothing: other entities are styled than those with the data.
StylesFollow ==
  \A s \in Series : \A e \in data \cap Styling[s] \cap Logging[s] :
    recording # Server /\ begin[recording] = "done" /\ report[s] # "styling" =>
      e \in styles \/ ~seriesLogged[s]

----------------------------------------------------------------------------
(* The inductive invariant *)

Steps == {"idle", "starting", "resuming", "set", "rec", "dir", "started", "done"}
SaveSteps == {"idle", "rec", "dir", "startedAt", "switched", "closed", "done"}
ReportSteps == {"idle", "unstyled", "styling", "styled"}
Episode == Begins \cup {None}

FlagsOK ==
  /\ started \in BOOLEAN /\ paused \in BOOLEAN /\ overlapped \in BOOLEAN
  /\ seriesLogged \in [Series -> BOOLEAN]

DataOK ==
  /\ recording \in Begins \cup {Server}
  /\ episodeRec \in Episode /\ episodeDir \in Episode /\ episodeStartedAt \in Episode
  /\ begin \in [Begins -> Steps] /\ save \in [Saves -> SaveSteps]
  /\ report \in [Series -> ReportSteps]
  /\ old \in [Saves -> [rec : Episode, dir : Episode, startedAt : Episode]]
  /\ todo \in [Series -> SUBSET Entities]
  /\ styles \subseteq Entities /\ data \subseteq Entities /\ closed \subseteq Begins
  /\ alone \subseteq Saves

\* Every variable has its type.
TypeOK == FlagsOK /\ DataOK

\* The begin will not make its recording global any more.
Begun(b) == begin[b] \notin {"idle", "starting", "resuming"}

\* Only recordings that were global can be closed, and a save closes none that still is.
RecordingInv ==
  /\ recording # Server => Begun(recording)
  /\ episodeRec # None => Begun(episodeRec)
  /\ \A v \in Saves :
       /\ old[v].rec # None => Begun(old[v].rec)
       /\ save[v] = "switched" => recording # old[v].rec
  /\ \A b \in closed : Begun(b)
  /\ recording \notin closed

\* Once the episode has begun, what counts as styled is, but for what its report has yet
\* to style.
StyledInv ==
  \A s \in Series :
    recording # Server /\ begin[recording] = "done" /\ seriesLogged[s] =>
      Styling[s] \subseteq styles \cup (IF report[s] = "styling" THEN todo[s] ELSE {})

\* A begin at a time sets the fields in their order.
FieldsInv ==
  ~overlapped =>
    /\ \A b, c \in Begins :
         begin[b] \notin {"idle", "done"} /\ begin[c] \notin {"idle", "done"} => b = c
    /\ \A b \in Begins :
         /\ begin[b] = "rec" => episodeRec = b /\ episodeDir = episodeStartedAt
         /\ begin[b] = "dir" => episodeRec = b /\ episodeDir = b
    /\ (\A b \in Begins : begin[b] \notin {"rec", "dir"}) =>
         episodeRec = episodeDir /\ episodeDir = episodeStartedAt

\* What a save that no begin overlaps has read is still so.
AloneInv ==
  \A v \in alone :
    /\ save[v] # "idle"
    /\ Saving(v) =>
         /\ ~overlapped /\ ~Beginning
         /\ old[v].rec = episodeRec
         /\ save[v] # "rec" => old[v].dir = episodeDir
         /\ save[v] \notin {"rec", "dir"} => old[v].startedAt = episodeStartedAt

\* The inductive invariant.
IInv == TypeOK /\ RecordingInv /\ StyledInv /\ FieldsInv /\ AloneInv
============================================================================
