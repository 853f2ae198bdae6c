---------------------------- MODULE MCRenderCore ----------------------------
(***************************************************************************)
(* Instances of the render core: two requests of one session, naming one   *)
(* config or one each.                                                     *)
(***************************************************************************)
EXTENDS RenderCore, TLC

CONSTANTS r1, r2, s1, path1, path2

Two == {r1, r2}
OneSession == [r \in Requests |-> s1]
OnePath == [r \in Requests |-> path1]
TwoPaths == [r \in Requests |-> IF r = r2 THEN path2 ELSE path1]

(* The requests are interchangeable when they share a session and a config.*)
AnyOrder == Permutations(Requests)
=============================================================================
