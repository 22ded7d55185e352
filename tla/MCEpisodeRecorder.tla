------------------------- MODULE MCEpisodeRecorder -------------------------
(* Small instances of EpisodeRecorder for TLC. *)
EXTENDS EpisodeRecorder, TLC

CONSTANTS b1, b2, v1, v2
BeginSymmetry == Permutations(Begins) \cup Permutations(Saves)
============================================================================
