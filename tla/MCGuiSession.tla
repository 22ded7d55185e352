---------------------------- MODULE MCGuiSession ----------------------------
(* Small instances of GuiSession for TLC. *)
EXTENDS GuiSession

CONSTANTS r1, r2, r3, r4
============================================================================
