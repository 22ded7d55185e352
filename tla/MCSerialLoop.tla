---------------------------- MODULE MCSerialLoop ----------------------------
(* Small instances of SerialLoop for TLC. *)
EXTENDS SerialLoop
============================================================================
