-------------------------- MODULE MCSegmentToggles --------------------------
(***************************************************************************)
(* Two sessions and one name, three calls; the config toggles nothing at   *)
(* first, and a save may add the name or leave the file as it was.         *)
(***************************************************************************)
EXTENDS SegmentToggles, TLC

CONSTANTS s1, s2, git, c1, c2, c3

AddsGit == {{}, {git}}
TwoSessions == [c \in Callers |-> IF c = c3 THEN s2 ELSE s1]
=============================================================================
