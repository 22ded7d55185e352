-------------------------- MODULE MCReplayEpisode ---------------------------
(* Small instances of ReplayEpisode, sessions and replays, for TLC. *)
EXTENDS ReplayEpisode
============================================================================
