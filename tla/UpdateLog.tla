----------------------------- MODULE UpdateLog ------------------------------
(***************************************************************************)
(* What a session's update stream promises a client: an append-only log of *)
(* updates, and readers that move forward through it.  A reader is handed  *)
(* the first update after its position that belongs to the render it       *)
(* follows; the only updates it may step over are another render's and     *)
(* those older than the most recent Window ones.  UpdateHub implements it. *)
(***************************************************************************)
EXTENDS Integers, Sequences

CONSTANTS Readers, Renders, AnyRender, Window

VARIABLES log,      \* the render each update belongs to, in publishing order
          pos,      \* the sequence number each reader has reached
          follows   \* the render each reader follows

logVars == <<log, pos, follows>>

(* An update with no render belongs to everyone and a reader with no       *)
(* render follows everyone.                                                *)
Follows(f, render) == f = AnyRender \/ render = AnyRender \/ f = render

LogInit ==
    /\ log = <<>>
    /\ pos \in [Readers -> Nat]
    /\ follows \in [Readers -> Renders \cup {AnyRender}]

Append1(render) ==
    /\ log' = Append(log, render)
    /\ UNCHANGED <<pos, follows>>

(* The reader is handed update k and has stepped over those before it.     *)
Deliver(c, k) ==
    /\ k > pos[c]
    /\ Follows(follows[c], log[k])
    /\ \A j \in pos[c] + 1 .. k - 1 :
          ~Follows(follows[c], log[j]) \/ j <= Len(log) - Window
    /\ pos' = [pos EXCEPT ![c] = k]
    /\ UNCHANGED <<log, follows>>

LogNext ==
    \/ \E render \in Renders \cup {AnyRender} : Append1(render)
    \/ \E c \in Readers : \E k \in 1 .. Len(log) : Deliver(c, k)

LogSpec == LogInit /\ [][LogNext]_logVars
=============================================================================
