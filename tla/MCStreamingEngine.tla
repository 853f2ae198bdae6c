-------------------------- MODULE MCStreamingEngine --------------------------
(***************************************************************************)
(* Instances of the streaming engine: the vim segment, and one or two      *)
(* others.                                                                 *)
(***************************************************************************)
EXTENDS StreamingEngine

CONSTANTS vim, git
=============================================================================
