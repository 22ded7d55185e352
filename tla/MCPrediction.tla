---------------------------- MODULE MCPrediction ----------------------------
(* Small instances of Prediction for TLC. *)
EXTENDS Prediction
============================================================================
