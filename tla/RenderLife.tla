----------------------------- MODULE RenderLife ------------------------------
(***************************************************************************)
(* The life of a prompt engine's renders as the daemon sees it: a render   *)
(* collects its first results, streams while its prompt has placeholders,  *)
(* has drained when the last of them is replaced, and ends.  A cancelled   *)
(* render touches no prompt any more.  A deadline passes once, and marks   *)
(* the placeholders of its own render only, while that lives.              *)
(* StreamingEngine implements it, and RenderCore's generations are such    *)
(* renders.                                                                *)
(***************************************************************************)
CONSTANT RenderIds

VARIABLES progress,   \* how far each render is
          cancelled,  \* the renders whose context is cancelled
          deadlines,  \* the renders whose deadline is still to come
          late        \* the renders whose placeholders say "timed out"

lifeVars == <<progress, cancelled, deadlines, late>>

Live(r) == r \notin cancelled

LifeInit ==
    /\ progress = [r \in RenderIds |-> "none"]
    /\ cancelled = {} /\ deadlines = {} /\ late = {}

Moves(r, from, to) ==
    /\ progress[r] = from
    /\ progress' = [progress EXCEPT ![r] = to]

(* The prompt is a new one: no placeholder, and no mark of an earlier one. *)
Collects(r) ==
    /\ Moves(r, "none", "collecting")
    /\ deadlines' \in {deadlines, deadlines \cup {r}}
    /\ late' = {}
    /\ UNCHANGED cancelled

(* The first frame is drawn, with placeholders or complete.                *)
Collected(r) ==
    /\ \/ Moves(r, "collecting", "streaming") /\ UNCHANGED deadlines
       \/ Moves(r, "collecting", "ended") /\ deadlines' = deadlines \ {r}
    /\ UNCHANGED <<cancelled, late>>

(* A result replaces the last placeholder, or the last that was marked.    *)
ReplacesLast(r) ==
    /\ Live(r)
    /\ Moves(r, "streaming", "drained")
    /\ late' = late \ {r}
    /\ UNCHANGED <<cancelled, deadlines>>

ReplacesLastMarked(r) ==
    /\ Live(r) /\ progress[r] = "streaming"
    /\ late' = late \ {r}
    /\ UNCHANGED <<progress, cancelled, deadlines>>

(* Nothing is marked once the render is cancelled or its last placeholder  *)
(* replaced.                                                               *)
DeadlinePasses(r) ==
    /\ r \in deadlines
    /\ deadlines' = deadlines \ {r}
    /\ \/ Live(r) /\ progress[r] = "streaming" /\ late' = late \cup {r}
       \/ (~Live(r) \/ progress[r] = "drained") /\ UNCHANGED late
    /\ UNCHANGED <<progress, cancelled>>

(* The end is announced.                                                   *)
Completes(r) ==
    /\ Live(r)
    /\ Moves(r, "drained", "ended")
    /\ deadlines' = deadlines \ {r}
    /\ UNCHANGED <<cancelled, late>>

(* The publisher of a cancelled render stops.                              *)
Aborts(r) ==
    /\ ~Live(r)
    /\ Moves(r, "streaming", "ended") \/ Moves(r, "drained", "ended")
    /\ deadlines' = deadlines \ {r}
    /\ UNCHANGED <<cancelled, late>>

Cancel(r) ==
    /\ cancelled' = cancelled \cup {r}
    /\ UNCHANGED <<progress, deadlines, late>>

LifeNext ==
    \E r \in RenderIds :
        \/ Cancel(r)
        \/ ReplacesLast(r) \/ ReplacesLastMarked(r) \/ DeadlinePasses(r)
        \/ Collects(r) \/ Collected(r) \/ Completes(r) \/ Aborts(r)

LifeSpec == LifeInit /\ [][LifeNext]_lifeVars
=============================================================================
