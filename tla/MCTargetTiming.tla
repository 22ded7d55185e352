--------------------------- MODULE MCTargetTiming ---------------------------
(* Small instances of TargetTiming for TLC. *)
EXTENDS TargetTiming
============================================================================
