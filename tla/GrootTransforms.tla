-------------------------- MODULE GrootTransforms --------------------------
(***************************************************************************)
(* What clients/groot.py makes of a checkpoint's configuration: which      *)
(* training references it loads, how it lays a request out and which kind  *)
(* of action it decodes an answer to, and which kinds play.py and the      *)
(* connections accept.  Numbers are abstracted to what was done to them.   *)
(***************************************************************************)
EXTENDS Integers

GrootConfig ==
  {"ABL7_FULLREL_QUAT", "ABL7_FULLREL_ROT6D", "ABL6_EEFSRC_FULLSTATE", "ABS_ROT6D_LORA",
   "THREE_TASKS_REL_ROT6D_LORA", "THREE_TASKS_ABS_DELTAS_LORA",
   "THREE_TASKS_2_ABS_DELTAS_LORA", "THREE_TASKS_2_FIXED_LORA", "EEF_ROT6D_ABS_IN_OUT"}

\* The configurations that describe the arm by a rotation in six numbers ...
UsesRot6d ==
  {"ABL7_FULLREL_ROT6D", "ABS_ROT6D_LORA", "THREE_TASKS_REL_ROT6D_LORA",
   "EEF_ROT6D_ABS_IN_OUT", "THREE_TASKS_ABS_DELTAS_LORA"}

\* ... and those that do by a quaternion.
UsesQuat ==
  {"ABL7_FULLREL_QUAT", "ABL6_EEFSRC_FULLSTATE", "THREE_TASKS_2_ABS_DELTAS_LORA",
   "THREE_TASKS_2_FIXED_LORA"}

----------------------------------------------------------------------------
(* Training references: "none", "historical" or the file they come from *)

\* __post_init__: the joint bounds and the quaternion of earlier trainings.
HistoricalBranch(config) ==
  IF config \in {"THREE_TASKS_ABS_DELTAS_LORA", "THREE_TASKS_2_FIXED_LORA"}
  THEN "historical" ELSE "none"
HistoricalQRef(config) ==
  IF config = "THREE_TASKS_2_FIXED_LORA" THEN "historical" ELSE "none"

\* load_reference_files raises without the required file or with an invalid one;
\* _load_reference_file stores nothing before it has checked everything.
LoadsReferences(config, jointFile, qFile) ==
  IF config \in UsesRot6d THEN jointFile \notin {"none", "invalid"}
  ELSE qFile \notin {"none", "invalid"} /\ jointFile # "invalid"

JointBranch(config, jointFile) ==
  IF jointFile = "none" THEN HistoricalBranch(config) ELSE jointFile

\* Configurations without a quaternion ignore the option.
QRef(config, qFile) ==
  IF config \in UsesQuat THEN qFile ELSE HistoricalQRef(config)

----------------------------------------------------------------------------
(* Requests *)

\* _build_gr00t_request has no case for ABL7_FULLREL_QUAT, and the cases of two
\* others call _eef_6d_rot, which is not defined.
Answerable(config) ==
  config \notin {"ABL7_FULLREL_QUAT", "ABL7_FULLREL_ROT6D", "THREE_TASKS_REL_ROT6D_LORA"}

\* The pose as position and quaternion under keys of their own, as position and
\* two rows of the rotation, or as position and WXYZ quaternion in one vector.
PoseLayout(config) ==
  IF config \in UsesQuat THEN "arm_quat"
  ELSE IF config = "ABS_ROT6D_LORA" THEN "position_wxyz" ELSE "position_rows"

\* _to_gr00t_request: joints are wrapped into the window of the branch, the
\* quaternion gets the sign of the reference; without an arm_quat the pose of the
\* request is replaced.
Request(config, jointBranch, qRef) ==
  [joints  |-> IF jointBranch = "none" THEN "raw" ELSE jointBranch,
   pose    |-> IF qRef # "none" /\ PoseLayout(config) # "arm_quat"
               THEN "position_wxyz" ELSE PoseLayout(config),
   aligned |-> qRef # "none"]

----------------------------------------------------------------------------
(* Answers *)

\* _from_gr00t_response fails for ABS_ROT6D_LORA, with steps and without.
Decodes(config) == config # "ABS_ROT6D_LORA"

\* The kind of action a step becomes.
ActionKind(config) ==
  IF config \in {"EEF_ROT6D_ABS_IN_OUT", "THREE_TASKS_REL_ROT6D_LORA"} THEN "PoseTarget"
  ELSE IF config \in {"ABL7_FULLREL_QUAT", "ABL7_FULLREL_ROT6D"}
       THEN "ObservationRelativeDelta" ELSE "CartesianDelta"

----------------------------------------------------------------------------
(* Execution *)

Executions == {"tidybot", "waypoint", "delta"}

\* Where actions come from: a model server, the rows of a recorded episode, or
\* those rows as exact absolute targets.
Sources == {"live", "rows", "targets"}

\* A recorded episode is one of THREE_TASKS_2_FIXED_LORA.
SourceKind(config, source) ==
  IF source = "targets" THEN "PoseTarget" ELSE ActionKind(config)

\* Faulty variant: Tidybot execution is checked for recorded episodes only.
RefusedForReplay(config, execution, source) == execution = "tidybot" /\ source = "rows"

\* play.py refuses what Tidybot cannot execute.
Refused(config, execution, source) ==
  /\ execution = "tidybot"
  /\ \/ source = "rows"
     \/ /\ source = "live"
        /\ config \notin {"EEF_ROT6D_ABS_IN_OUT", "THREE_TASKS_REL_ROT6D_LORA"}

\* The kinds of action each way of executing accepts, the others raise.
Accepted(execution) ==
  IF execution = "tidybot" THEN {"PoseTarget"}
  ELSE IF execution = "waypoint" THEN {"CartesianDelta", "PoseTarget"}
       ELSE {"CartesianDelta", "PoseTarget", "ObservationRelativeDelta"}
============================================================================
