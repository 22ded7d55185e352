--------------------------- MODULE StreamPromise ----------------------------
(***************************************************************************)
(* What the live target stream promises to whoever pauses it: the arm is   *)
(* commanded only while no pause is in force and the stream is not         *)
(* stopped, and every command was decided from what was observed after the *)
(* latest pause.  How many threads pause and resume, where predictions are *)
(* computed and which locks are taken is left to TidybotStream, which      *)
(* implements this specification.                                          *)
(***************************************************************************)
EXTENDS Naturals

VARIABLES
  held,       \* a pause returned and nobody has resumed since
  stopped,    \* the stream was stopped and the stop returned
  pauses,     \* number of pauses that returned
  command,    \* flips with every command the arm executes
  origin      \* number of pauses before the observation behind that command

promised == <<held, stopped, pauses, command, origin>>

Init ==
  /\ held \in BOOLEAN
  /\ stopped = FALSE
  /\ pauses = 0
  /\ command = 0
  /\ origin = 0

\* A pause returns.  It is not in force if somebody resumed meanwhile.
Pause ==
  /\ pauses' = pauses + 1
  /\ held' \in BOOLEAN
  /\ UNCHANGED <<stopped, command, origin>>

Resume ==
  /\ held' = FALSE
  /\ UNCHANGED <<stopped, pauses, command, origin>>

Stop ==
  /\ stopped' = TRUE
  /\ UNCHANGED <<held, pauses, command, origin>>

Command ==
  /\ ~held /\ ~stopped
  /\ command' = 1 - command
  /\ origin' = pauses
  /\ UNCHANGED <<held, stopped, pauses>>

Next == Pause \/ Resume \/ Stop \/ Command

Spec == Init /\ [][Next]_promised
=============================================================================
