----------------------------- MODULE UpdateHub ------------------------------
(***************************************************************************)
(* A session's update hub (src/src/daemon/update_hub.go) and the relays    *)
(* that read it for the client streams (src/src/daemon/stream_relay.go).   *)
(* Publishers append a numbered update under the hub's mutex, take the     *)
(* waiters it satisfies off the list, and send to their channels after     *)
(* unlocking.  A relay subscribes with the last number it saw, is answered *)
(* from the retained history or by a later publish, and subscribes again   *)
(* while the update it got belongs to another render.  history is kept     *)
(* only to state the properties: it is what the hub published, untrimmed.  *)
(***************************************************************************)
EXTENDS Integers, Sequences, FiniteSets

CONSTANTS Readers,       \* relays, each with one channel at a time
          Renders,       \* render ids
          AnyRender,     \* id zero: no preference
          HistoryLimit,  \* historyLimit
          MaxPublish,    \* bound on the updates published
          MaxStale       \* bound on a cursor kept from an earlier hub

ASSUME HubAssumption ==
    /\ HistoryLimit \in Nat \ {0}
    /\ MaxPublish \in Nat
    /\ MaxStale \in Nat
    /\ AnyRender \notin Renders

NoUpdate == [seq |-> 0, render |-> AnyRender]

VARIABLES sequence,  \* hub.sequence
          updates,   \* hub.updates
          waiters,   \* hub.waiters, each with its channel's reader
          sending,   \* channel sends a publisher still owes
          box,       \* what a reader's channel holds
          at,        \* "idle", "looping", "waiting" or "done" in Next
          cursor,    \* currentAfter while in Next, the client's after outside
          seen,      \* the last number handed to the client
          wants,     \* the render id the relay filters on
          history    \* every update published

hubVars == <<sequence, updates, waiters, sending, history>>
readerVars == <<box, at, cursor, seen, wants>>
vars == <<hubVars, readerVars>>

Ids == Renders \cup {AnyRender}
Snapshots == [seq : Nat, render : Ids]

(* The filter: "renderID == 0 || snapshot.RenderID == 0 || equal".         *)
Matches(want, render) == want = AnyRender \/ render = AnyRender \/ want = render

(* A stream's cursor comes from this hub or, after a reload or an exit     *)
(* replaced the hub, from an earlier one that had counted further.         *)
Init ==
    /\ sequence = 0
    /\ updates = <<>>
    /\ waiters = {}
    /\ sending = {}
    /\ history = <<>>
    /\ box = [c \in Readers |-> NoUpdate]
    /\ at = [c \in Readers |-> "idle"]
    /\ cursor \in [Readers -> 0 .. MaxStale]
    /\ seen = cursor
    /\ wants \in [Readers -> Ids]

-----------------------------------------------------------------------------
(* The history trimmed in batches: past twice the limit, keep the last     *)
(* HistoryLimit entries.                                                   *)
Trim(us) ==
    IF Len(us) > 2 * HistoryLimit
    THEN SubSeq(us, Len(us) - HistoryLimit + 1, Len(us))
    ELSE us

(* nextAfterLocked: the successor's position is arithmetic, and a reader   *)
(* older than the retained window resumes at its oldest entry.             *)
NextAfter(after) ==
    LET behind == Len(updates) - (sequence - after)
    IN  updates[(IF behind > 0 THEN behind ELSE 0) + 1]

(* Publish, under the mutex.                                               *)
Publish(render) ==
    /\ Len(history) < MaxPublish
    /\ sequence' = sequence + 1
    /\ LET snapshot == [seq |-> sequence + 1, render |-> render]
           ready == {w \in waiters : sequence + 1 > w.after}
       IN  /\ updates' = Trim(Append(updates, snapshot))
           /\ waiters' = waiters \ ready
           /\ sending' = sending
                \cup {[reader |-> w.reader, snapshot |-> snapshot] : w \in ready}
    /\ history' = Append(history, render)
    /\ UNCHANGED readerVars

(* Mutated form of Send: the channel is dropped instead of filled.         *)
SendNothing(s) ==
    /\ sending' = sending \ {s}
    /\ UNCHANGED <<sequence, updates, waiters, history, readerVars>>

(* Publish, after the unlock: the buffered channel takes the one send.     *)
Send(s) ==
    /\ sending' = sending \ {s}
    /\ box' = IF at[s.reader] = "waiting"
              THEN [box EXCEPT ![s.reader] = s.snapshot]
              ELSE box
    /\ UNCHANGED <<sequence, updates, waiters, history, at, cursor, seen, wants>>

(* Next calls Subscribe: an answer from the history, or a place in line.   *)
Subscribe(c) ==
    /\ at[c] \in {"idle", "looping"}
    /\ at' = [at EXCEPT ![c] = "waiting"]
    /\ \/ /\ cursor[c] < sequence
          /\ box' = [box EXCEPT ![c] = NextAfter(cursor[c])]
          /\ UNCHANGED waiters
       \/ /\ cursor[c] >= sequence
          /\ waiters' = waiters \cup {[reader |-> c, after |-> cursor[c]]}
          /\ UNCHANGED box
    /\ UNCHANGED <<sequence, updates, sending, history, cursor, seen, wants>>

(* Mutated form of Receive: another render's update is passed on.          *)
ReceiveUnfiltered(c) ==
    /\ at[c] = "waiting"
    /\ box[c] /= NoUpdate
    /\ box' = [box EXCEPT ![c] = NoUpdate]
    /\ cursor' = [cursor EXCEPT ![c] = box[c].seq]
    /\ at' = [at EXCEPT ![c] = "idle"]
    /\ seen' = [seen EXCEPT ![c] = box[c].seq]
    /\ UNCHANGED <<hubVars, wants>>

(* Next receives: advance, and return the update or subscribe again.       *)
Receive(c) ==
    /\ at[c] = "waiting"
    /\ box[c] /= NoUpdate
    /\ box' = [box EXCEPT ![c] = NoUpdate]
    /\ cursor' = [cursor EXCEPT ![c] = IF box[c].seq > @ THEN box[c].seq ELSE @]
    /\ \/ /\ Matches(wants[c], box[c].render)
          /\ at' = [at EXCEPT ![c] = "idle"]
          /\ seen' = [seen EXCEPT ![c] = box[c].seq]
       \/ /\ ~Matches(wants[c], box[c].render)
          /\ at' = [at EXCEPT ![c] = "looping"]
          /\ UNCHANGED seen
    /\ UNCHANGED <<hubVars, wants>>

(* Next returns because its context is done.  The waiter it registered     *)
(* stays on the hub's list until the next publish.                         *)
GiveUp(c) ==
    /\ at[c] = "waiting"
    /\ at' = [at EXCEPT ![c] = "done"]
    /\ box' = [box EXCEPT ![c] = NoUpdate]
    /\ UNCHANGED <<hubVars, cursor, seen, wants>>

Next ==
    \/ \E render \in Ids : Publish(render)
    \/ \E s \in sending : Send(s)
    \/ \E c \in Readers : Subscribe(c) \/ Receive(c) \/ GiveUp(c)

Spec == Init /\ [][Next]_vars

(* The publisher and the relay goroutines run while they can.  Nothing     *)
(* makes a publisher publish or a client give up.                          *)
Fairness ==
    /\ WF_vars(\E s \in sending : Send(s))
    /\ \A c \in Readers : WF_vars(Subscribe(c)) /\ WF_vars(Receive(c))

FairSpec == Spec /\ Fairness

-----------------------------------------------------------------------------
TypeOK ==
    /\ sequence \in Nat
    /\ updates \in Seq(Snapshots)
    /\ waiters \subseteq [reader : Readers, after : Nat]
    /\ sending \subseteq [reader : Readers, snapshot : Snapshots]
    /\ history \in Seq(Ids)
    /\ box \in [Readers -> Snapshots]
    /\ at \in [Readers -> {"idle", "looping", "waiting", "done"}]
    /\ cursor \in [Readers -> Nat]
    /\ seen \in [Readers -> Nat]
    /\ wants \in [Readers -> Ids]
    /\ \A c \in Readers : seen[c] <= cursor[c]

(* The comments on updates and historyLimit: the retained entries are      *)
(* contiguous and end at sequence, they are the newest published, and the  *)
(* window holds at least the last HistoryLimit and at most twice as many.  *)
HistoryIsWindow ==
    /\ Len(history) = sequence
    /\ Len(updates) <= 2 * HistoryLimit
    /\ Len(updates) >= IF sequence < HistoryLimit THEN sequence ELSE HistoryLimit
    /\ Len(updates) <= sequence
    /\ \A i \in 1 .. Len(updates) :
          LET k == sequence - Len(updates) + i
          IN  updates[i] = [seq |-> k, render |-> history[k]]

(* No missed wakeup: nobody stands in line for an update that is already   *)
(* published.                                                              *)
NobodyWaitsForThePast == \A w \in waiters : w.after >= sequence

(* A relay blocked on its channel is on the waiting list, owed a send, or  *)
(* has the answer: no publish takes a waiter off the list and loses it.    *)
EveryChannelIsAnswered ==
    \A c \in Readers : at[c] = "waiting" =>
        \/ box[c] /= NoUpdate
        \/ \E w \in waiters : w.reader = c
        \/ \E s \in sending : s.reader = c

(* The hub and its relays implement the abstract update stream: in order,  *)
(* no update twice, none of another render, none skipped that is within    *)
(* the window.                                                             *)
Log == INSTANCE UpdateLog WITH
           log <- history, pos <- seen, follows <- wants, Window <- HistoryLimit

ImplementsLog == Log!LogSpec

(* There is an update for this stream that its relay has not reached.      *)
Behind(c) ==
    /\ at[c] /= "done"
    /\ \E k \in cursor[c] + 1 .. Len(history) : Matches(wants[c], history[k])

(* A stream that keeps reading catches up with what was published for it.  *)
EveryStreamCatchesUp == \A c \in Readers : Behind(c) ~> ~Behind(c)
=============================================================================
