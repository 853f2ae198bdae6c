------------------------ MODULE StreamingEngineProofs ------------------------
(***************************************************************************)
(* The streaming engine is correct for any segments and any number of      *)
(* generations and mode changes.  First the types; then InOrder, which     *)
(* says that the engine's fields belong to the last generation that was    *)
(* prepared and that all before it are cancelled; then, on top of it, the  *)
(* markers, the placeholders, the vim segment and the answers.             *)
(***************************************************************************)
EXTENDS StreamingEngine, TLAPS

LEMMA GenerationsAreNumbers ==
  /\ Generations \subseteq Nat \ {0}
  /\ \A g, h \in Generations : h < g <=> h \in 1 .. g - 1
  BY EngineAssumption DEF Generations

(* Drawing keeps the types.                                                *)
LEMMA DrawTypes ==
  ASSUME NEW allowed, NEW p, NEW t \in [Segments -> Values],
         NEW d \in [Segments -> Values], cache \in [Segments -> Values],
         Draw(allowed, p, t, d)
  PROVE  text' \in [Segments -> Values] /\ cache' \in [Segments -> Values]
  BY DEF Draw

LEMMA MergeTypes ==
  ASSUME TypeOK, NEW g \in Generations, NEW k \in Segments, Merge(g, k)
  PROVE  text' \in [Segments -> Values] /\ data' \in [Segments -> Values]
  <1>1. answer[g][k] \in Values /\ Nothing \in Values
    BY DEF TypeOK, Values
  <1>2. text \in [Segments -> Values] /\ data \in [Segments -> Values]
    BY DEF TypeOK
  <1>3. CASE g \in cancelled \/ g /= current \/ (k = Vim /\ vimRepainted)
    BY <1>2, <1>3 DEF Merge
  <1>4. CASE ~(g \in cancelled \/ g /= current \/ (k = Vim /\ vimRepainted))
    <2>1. /\ data' = [data EXCEPT ![k] = answer[g][k]]
          /\ text' = [text EXCEPT ![k] = Nothing]
      BY <1>4 DEF Merge
    <2>2. QED
      BY <1>1, <1>2, <2>1
  <1>5. QED
    BY <1>3, <1>4

LEMMA InitTypes == Init => TypeOK
  <1> SUFFICES ASSUME Init PROVE TypeOK
    OBVIOUS
  <1>1. cache \in [Segments -> Values]
    BY DEF Init, Values
  <1>2. QED
    BY <1>1 DEF Init, TypeOK, Values, Blank

LEMMA StepTypes == TypeOK /\ [Next]_vars => TypeOK'
  <1> SUFFICES ASSUME TypeOK, [Next]_vars PROVE TypeOK'
    OBVIOUS
  <1> USE DEF TypeOK, genVars, workVars, promptVars, segmentVars, vimVars
  <1>1. ASSUME NEW g \in Generations, Begin(g) PROVE TypeOK'
    BY <1>1 DEF Begin
  <1>2. ASSUME NEW g \in Generations, Prepare(g) PROVE TypeOK'
    <2>1. PICK fresh \in SUBSET {k \in Explicit : cache[k] /= Nothing} :
             /\ work' = [work EXCEPT ![g] =
                   [k \in Segments |-> IF k \in fresh THEN "none" ELSE "ready"]]
             /\ text' = [k \in Segments |->
                            IF k \in fresh THEN cache[k] ELSE Nothing]
      BY <1>2 DEF Prepare
    <2>2. text' \in [Segments -> Values] /\ data' \in [Segments -> Values]
      BY <1>2, <2>1 DEF Prepare, Values, Blank
    <2>3. armed' \in [Generations -> BOOLEAN]
      BY <1>2 DEF Prepare
    <2>4. work' \in [Generations -> [Segments ->
            {"none", "ready", "started", "waiting", "sent", "received", "quit"}]]
      BY <2>1
    <2>5. QED
      BY <1>2, <2>2, <2>3, <2>4 DEF Prepare
  <1>3. ASSUME NEW g \in Generations, Latch(g) PROVE TypeOK'
    <2>1. text' \in [Segments -> Values] /\ cache' \in [Segments -> Values]
      BY <1>3, DrawTypes DEF Latch
    <2>2. armed' \in [Generations -> BOOLEAN]
      BY <1>3 DEF Latch
    <2>3. QED
      BY <1>3, <2>1, <2>2 DEF Latch
  <1>4. ASSUME NEW g \in Generations, Cancel(g) PROVE TypeOK'
    BY <1>4 DEF Cancel
  <1>5. ASSUME NEW g \in Generations, NEW k \in Segments, PublishResult(g, k)
        PROVE TypeOK'
    BY <1>5, MergeTypes DEF PublishResult, Receive
  <1>6. ASSUME NEW g \in Generations, MarkTimedOut(g) PROVE TypeOK'
    BY <1>6 DEF MarkTimedOut
  <1>7. ASSUME NEW g \in Generations, PublishComplete(g) PROVE TypeOK'
    BY <1>7 DEF PublishComplete
  <1>8. ASSUME NEW g \in Generations, StopPublishing(g) PROVE TypeOK'
    <2>1. Blank \in [Segments -> Values]
      BY DEF Blank, Values
    <2>2. answer' \in [Generations -> [Segments -> Values]]
      BY <1>8, <2>1 DEF StopPublishing
    <2>3. QED
      BY <1>8, <2>2 DEF StopPublishing
  <1>9. ASSUME NEW g \in Generations, NEW k \in Segments, Collect(g, k)
        PROVE TypeOK'
    BY <1>9, MergeTypes DEF Collect, Receive
  <1>10. ASSUME NEW g \in Generations, NEW k \in Segments, Worker(g, k)
         PROVE TypeOK'
    <2>1. CASE WorkerStarts(g, k)
      BY <2>1 DEF WorkerStarts
    <2>2. CASE GetProvider(g, k)
      BY <2>2 DEF GetProvider
    <2>3. CASE WorkerQuits(g, k)
      BY <2>3 DEF WorkerQuits
    <2>4. QED
      BY <1>10, <2>1, <2>2, <2>3 DEF Worker
  <1>11. ASSUME NEW g \in Generations, NEW k \in Segments, Answers(g, k)
         PROVE TypeOK'
    <2>1. PICK value \in {IF k = Vim THEN mode ELSE g, Nothing} :
             answer' = [answer EXCEPT ![g][k] = value]
      BY <1>11 DEF Answers
    <2>2. value \in Values
      BY GenerationsAreNumbers DEF Values
    <2>3. answer' \in [Generations -> [Segments -> Values]]
      BY <2>1, <2>2
    <2>4. QED
      BY <1>11, <2>3 DEF Answers
  <1>12. CASE ReRender
    BY <1>12, DrawTypes DEF ReRender
  <1>13. CASE ChangeMode
    BY <1>13 DEF ChangeMode
  <1>14. CASE PrimaryRepaint
    <2> DEFINE cached == {k \in Segments \ (pending \cup {Vim}) :
                             cache[k] /= Nothing}
               d == [[k \in Segments |-> IF k \in cached THEN Nothing
                                         ELSE data[k]] EXCEPT ![Vim] = mode]
               t == [[k \in Segments |-> IF k \in cached THEN cache[k]
                                         ELSE text[k]] EXCEPT ![Vim] = Nothing]
    <2>1. d \in [Segments -> Values] /\ t \in [Segments -> Values]
      BY EngineAssumption DEF Values
    <2>2. data' = d /\ Draw({Vim}, pending, t, d)
      BY <1>14 DEF PrimaryRepaint
    <2>3. text' \in [Segments -> Values] /\ cache' \in [Segments -> Values]
      BY <2>1, <2>2, DrawTypes
    <2>4. QED
      BY <1>14, <2>1, <2>2, <2>3 DEF PrimaryRepaint
  <1>15. CASE UNCHANGED vars
    BY <1>15 DEF vars
  <1>16. QED
    BY <1>1, <1>2, <1>3, <1>4, <1>5, <1>6, <1>7, <1>8, <1>9, <1>10, <1>11,
       <1>12, <1>13, <1>14, <1>15 DEF Next, Publisher

(* Every field always holds a value of its type.                           *)
THEOREM EngineTypes == Spec => []TypeOK
  <1>1. QED
    BY InitTypes, StepTypes, PTL DEF Spec

-----------------------------------------------------------------------------
(* Generations that do not overlap.                                        *)

Serial == "hard" \notin Overlap

InOrder ==
    /\ \A g, h \in Generations :
          h < g /\ phase[g] /= "new" => h \in cancelled /\ ~Collecting(h)
    /\ \A g \in cancelled : phase[g] /= "new"
    /\ \A g \in Generations : phase[g] \notin {"new", "reset"} => g <= current
    /\ current /= 0 => phase[current] \notin {"new", "reset"}

(* The generation that collects, and a live one that streams, owns the     *)
(* engine's fields.                                                        *)
LEMMA LiveIsCurrent ==
  ASSUME TypeOK, InOrder, NEW g \in Generations,
         \/ phase[g] = "collecting"
         \/ phase[g] \in {"streaming", "complete"} /\ g \notin cancelled
  PROVE  g = current
  <1>1. g <= current /\ g \in Nat \ {0} /\ current \in {0} \cup Generations
    BY GenerationsAreNumbers DEF InOrder, TypeOK
  <1>2. current \in Generations /\ current \in Nat
    BY <1>1, GenerationsAreNumbers
  <1>3. CASE g < current
    <2>1. phase[current] /= "new"
      BY <1>1, <1>2 DEF InOrder
    <2>2. g \in cancelled /\ ~Collecting(g)
      BY <1>2, <1>3, <2>1 DEF InOrder
    <2>3. QED
      BY <2>2 DEF Collecting
  <1>4. QED
    BY <1>1, <1>2, <1>3

LEMMA InitOrder == Init => InOrder
  BY DEF Init, InOrder, Generations

LEMMA StepOrder ==
  ASSUME Serial, TypeOK, InOrder, [Next]_vars
  PROVE  InOrder'
  <1> USE DEF genVars, workVars, promptVars, segmentVars, vimVars, Collecting
  <1>1. ASSUME NEW g \in Generations, Begin(g) PROVE InOrder'
    <2>1. /\ phase' = [phase EXCEPT ![g] = "reset"]
          /\ cancelled' = cancelled /\ current' = current
          /\ phase[g] = "new"
          /\ \A h \in 1 .. g - 1 : h \in cancelled /\ ~Collecting(h)
      BY <1>1 DEF Begin, Serial
    <2>2. ASSUME NEW a \in Generations, NEW h \in Generations, h < a,
                 phase'[a] /= "new"
          PROVE  h \in cancelled' /\ ~Collecting(h)'
      <3>1. h /= g
        BY <2>1, <2>2, GenerationsAreNumbers DEF InOrder, TypeOK
      <3>2. h \in cancelled /\ ~Collecting(h)
        BY <2>1, <2>2, GenerationsAreNumbers DEF InOrder, TypeOK
      <3>3. QED
        BY <2>1, <3>1, <3>2 DEF TypeOK
    <2>3. QED
      BY <2>1, <2>2 DEF InOrder, TypeOK
  <1>2. ASSUME NEW g \in Generations, Prepare(g) PROVE InOrder'
    <2>1. /\ phase[g] = "reset" /\ phase' = [phase EXCEPT ![g] = "collecting"]
          /\ cancelled' = cancelled /\ current' = g
      BY <1>2 DEF Prepare
    <2>2. ASSUME NEW h \in Generations, phase'[h] \notin {"new", "reset"}
          PROVE  h <= current'
      <3>1. CASE h = g
        BY <2>1, <3>1, GenerationsAreNumbers
      <3>2. CASE h /= g
        <4>1. phase[h] \notin {"new", "reset"}
          BY <2>1, <2>2, <3>2 DEF TypeOK
        <4>2. ~(g < h)
          BY <2>1, <4>1 DEF InOrder
        <4>3. QED
          BY <2>1, <4>2, GenerationsAreNumbers
      <3>3. QED
        BY <3>1, <3>2
    <2>3. \A a, h \in Generations :
             h < a /\ phase'[a] /= "new" => h \in cancelled' /\ ~Collecting(h)'
      BY <2>1 DEF InOrder, TypeOK
    <2>4. QED
      BY <2>1, <2>2, <2>3 DEF InOrder, TypeOK
  <1>3. ASSUME NEW g \in Generations,
               phase[g] \in {"collecting", "streaming"},
               NEW v \in {"streaming", "quiet", "complete", "stopped"},
               phase' = [phase EXCEPT ![g] = v],
               cancelled' = cancelled, current' = current
        PROVE  InOrder'
    BY <1>3 DEF InOrder, TypeOK
  <1>4. ASSUME NEW g \in Generations,
               Latch(g) \/ PublishComplete(g) \/ StopPublishing(g)
        PROVE  InOrder'
    BY <1>3, <1>4 DEF Latch, PublishComplete, StopPublishing
  <1>5. ASSUME NEW g \in Generations, Cancel(g) PROVE InOrder'
    BY <1>5 DEF Cancel, InOrder
  <1>6. ASSUME UNCHANGED <<phase, cancelled, current>> PROVE InOrder'
    BY <1>6 DEF InOrder
  <1>7. ASSUME NEW g \in Generations, NEW k \in Segments,
               \/ PublishResult(g, k) \/ MarkTimedOut(g) \/ Collect(g, k)
               \/ Worker(g, k) \/ Answers(g, k)
        PROVE  InOrder'
    BY <1>6, <1>7 DEF PublishResult, MarkTimedOut, Collect, Worker,
       WorkerStarts, GetProvider, WorkerQuits, Answers
  <1>8. CASE ReRender \/ ChangeMode \/ PrimaryRepaint
    BY <1>6, <1>8 DEF ReRender, ChangeMode, PrimaryRepaint
  <1>9. CASE UNCHANGED vars
    BY <1>6, <1>9 DEF vars
  <1>10. ASSUME NEW g \in Generations, MarkTimedOut(g) PROVE InOrder'
    BY <1>6, <1>10 DEF MarkTimedOut
  <1>11. QED
    BY <1>1, <1>2, <1>4, <1>5, <1>7, <1>8, <1>9, <1>10 DEF Next, Publisher

(* A segment is drawn as timed out only by the deadline of its own render. *)
LEMMA StepMarks ==
  ASSUME TypeOK, InOrder, Next
  PROVE  \A k \in timedOut' \ timedOut :
            /\ current \in Generations /\ k \in pending
            /\ armed[current] /\ ~armed'[current]
  <1> USE DEF genVars, workVars, promptVars, segmentVars, vimVars
  <1>1. ASSUME NEW g \in Generations, MarkTimedOut(g), NEW k \in timedOut',
               k \notin timedOut
        PROVE  /\ current \in Generations /\ k \in pending
               /\ armed[current] /\ ~armed'[current]
    <2>1. g \notin cancelled /\ phase[g] = "streaming" /\ k \in pending
      BY <1>1 DEF MarkTimedOut
    <2>2. g = current
      BY <2>1, LiveIsCurrent
    <2>3. QED
      BY <1>1, <2>1, <2>2 DEF MarkTimedOut, TypeOK
  <1>2. ASSUME NEW g \in Generations, NEW k \in Segments,
               \/ Begin(g) \/ Prepare(g) \/ Latch(g) \/ Cancel(g)
               \/ PublishResult(g, k) \/ Collect(g, k)
               \/ Worker(g, k) \/ Answers(g, k)
        PROVE  timedOut' \subseteq timedOut
    BY <1>2 DEF Begin, Prepare, Latch, Cancel, PublishResult, Collect, Worker,
       WorkerStarts, GetProvider, WorkerQuits, Answers
  <1>3. ASSUME NEW g \in Generations, PublishComplete(g) \/ StopPublishing(g)
        PROVE  timedOut' \subseteq timedOut
    BY <1>3 DEF PublishComplete, StopPublishing
  <1>4. ASSUME NEW g \in Generations,
               Begin(g) \/ Prepare(g) \/ Latch(g) \/ Cancel(g)
        PROVE  timedOut' \subseteq timedOut
    BY <1>4 DEF Begin, Prepare, Latch, Cancel
  <1>5. ASSUME ReRender \/ ChangeMode \/ PrimaryRepaint
        PROVE  timedOut' \subseteq timedOut
    BY <1>5 DEF ReRender, ChangeMode, PrimaryRepaint
  <1>6. QED
    BY <1>1, <1>2, <1>3, <1>4, <1>5 DEF Next, Publisher

(* A prompt is never marked by the deadline of a superseded render.        *)
THEOREM DeadlineMarksItsOwn ==
  ASSUME Serial
  PROVE  Spec => OnlyOwnDeadlineMarks
  <1>1. Init => TypeOK /\ InOrder
    BY InitTypes, InitOrder
  <1>2. TypeOK /\ InOrder /\ [Next]_vars => (TypeOK /\ InOrder)'
    BY StepTypes, StepOrder
  <1>3. TypeOK /\ InOrder /\ [Next]_vars
           => [\A k \in timedOut' \ timedOut :
                 /\ current \in Generations /\ k \in pending
                 /\ armed[current] /\ ~armed'[current]]_vars
    BY StepMarks
  <1>4. QED
    BY <1>1, <1>2, <1>3, PTL DEF Spec, OnlyOwnDeadlineMarks
-----------------------------------------------------------------------------
(* Placeholders.                                                           *)

(* What makes PendingIsOwed and NothingOutlivesTheEnd inductive: only      *)
(* cancelled workers leave nothing behind, nothing is pending while the    *)
(* first results are collected, and a marker is on a placeholder.          *)
Placeholders ==
    /\ \A g \in Generations, k \in Segments :
          work[g][k] = "quit" => g \in cancelled
    /\ current /= 0 /\ phase[current] = "collecting" => pending = {}
    /\ timedOut \subseteq pending
    /\ PendingIsOwed
    /\ NothingOutlivesTheEnd

LEMMA InitPlaceholders == Init => Placeholders
  BY DEF Init, Placeholders, PendingIsOwed, NothingOutlivesTheEnd

LEMMA StepPlaceholders ==
  ASSUME Serial, TypeOK, InOrder, Placeholders, [Next]_vars
  PROVE  Placeholders'
  <1> USE DEF genVars, workVars, promptVars, segmentVars, vimVars
  <1>a. current /= 0 => current \in Generations
    BY DEF TypeOK
  <1>1. ASSUME NEW g \in Generations, Begin(g) PROVE Placeholders'
    <2>1. current /= 0 => current /= g
      BY <1>1 DEF Begin, InOrder
    <2>2. current /= 0 => phase'[current] = phase[current]
      BY <1>1, <1>a, <2>1 DEF Begin, TypeOK
    <2>3. QED
      BY <1>1, <2>2 DEF Begin, Placeholders, PendingIsOwed, ToCome,
         NothingOutlivesTheEnd
  <1>2. ASSUME NEW g \in Generations, Prepare(g) PROVE Placeholders'
    <2>1. PICK fresh \in SUBSET {k \in Explicit : cache[k] /= Nothing} :
             work' = [work EXCEPT ![g] =
                [k \in Segments |-> IF k \in fresh THEN "none" ELSE "ready"]]
      BY <1>2 DEF Prepare
    <2>2. \A h \in Generations, k \in Segments :
             work'[h][k] = "quit" => h \in cancelled'
      BY <1>2, <2>1 DEF Prepare, Placeholders, TypeOK
    <2>3. pending' = {} /\ timedOut' = {}
      BY <1>2 DEF Prepare
    <2>4. QED
      BY <2>2, <2>3 DEF Placeholders, PendingIsOwed, NothingOutlivesTheEnd
  <1>3. ASSUME NEW g \in Generations, Latch(g) PROVE Placeholders'
    <2> DEFINE outstanding == pending \cup (Segments \ Completed(g))
    <2>1. /\ phase[g] = "collecting" /\ pending' = outstanding
          /\ phase' = [phase EXCEPT ![g] =
                IF outstanding = {} THEN "quiet" ELSE "streaming"]
          /\ UNCHANGED <<cancelled, work, current, timedOut>>
      BY <1>3 DEF Latch
    <2>2. g = current /\ pending = {} /\ timedOut = {}
      BY <2>1, LiveIsCurrent, GenerationsAreNumbers DEF Placeholders
    <2>3. phase'[g] = IF outstanding = {} THEN "quiet" ELSE "streaming"
      BY <2>1 DEF TypeOK
    <2>4. PendingIsOwed'
      <3> SUFFICES ASSUME g \notin cancelled, NEW k \in outstanding
                   PROVE  k \in ToCome(g)'
        BY <2>1, <2>2 DEF PendingIsOwed
      <3>1. k \in Segments /\ work[g][k] \notin {"none", "received", "quit"}
        BY <2>2 DEF Completed, Placeholders
      <3>2. QED
        BY <2>1, <3>1 DEF ToCome, TypeOK
    <2>5. NothingOutlivesTheEnd'
      BY <2>1, <2>2, <2>3 DEF NothingOutlivesTheEnd
    <2>6. QED
      BY <2>1, <2>2, <2>3, <2>4, <2>5 DEF Placeholders
  <1>4. ASSUME NEW g \in Generations, Cancel(g) PROVE Placeholders'
    BY <1>4 DEF Cancel, Placeholders, PendingIsOwed, ToCome,
       NothingOutlivesTheEnd
  <1>5. ASSUME NEW g \in Generations, NEW k \in Segments, PublishResult(g, k)
        PROVE Placeholders'
    <2>1. /\ phase[g] = "streaming" /\ g \notin cancelled
          /\ work' = [work EXCEPT ![g][k] = "received"]
          /\ pending' = pending \ {k} /\ timedOut' = timedOut \ {k}
          /\ UNCHANGED <<phase, cancelled, current>>
      BY <1>5 DEF PublishResult, Receive
    <2>2. g = current
      BY <2>1, LiveIsCurrent
    <2>3. PendingIsOwed'
      BY <2>1, <2>2 DEF Placeholders, PendingIsOwed, ToCome, TypeOK
    <2>4. QED
      BY <2>1, <2>2, <2>3 DEF Placeholders, NothingOutlivesTheEnd, TypeOK
  <1>6. ASSUME NEW g \in Generations, MarkTimedOut(g) PROVE Placeholders'
    <2>1. /\ phase[g] = "streaming"
          /\ timedOut' \subseteq timedOut \cup pending
          /\ g \in cancelled => timedOut' = timedOut
          /\ UNCHANGED <<phase, cancelled, work, current, pending>>
      BY <1>6 DEF MarkTimedOut
    <2>2. g \notin cancelled => g = current
      BY <2>1, LiveIsCurrent
    <2>3. QED
      BY <2>1, <2>2 DEF Placeholders, PendingIsOwed, ToCome,
         NothingOutlivesTheEnd
  <1>7. ASSUME NEW g \in Generations, PublishComplete(g) PROVE Placeholders'
    <2>1. /\ phase[g] = "streaming" /\ g \notin cancelled /\ Drained(g)
          /\ phase' = [phase EXCEPT ![g] = "complete"]
          /\ UNCHANGED <<cancelled, work, current, pending, timedOut>>
      BY <1>7 DEF PublishComplete
    <2>2. g = current /\ current /= 0
      BY <2>1, LiveIsCurrent, GenerationsAreNumbers
    <2>3. pending = {} /\ timedOut = {}
      BY <2>1, <2>2 DEF Drained, Placeholders, PendingIsOwed, ToCome
    <2>4. QED
      BY <2>1, <2>2, <2>3 DEF Placeholders, PendingIsOwed,
         NothingOutlivesTheEnd
  <1>8. ASSUME NEW g \in Generations, StopPublishing(g) PROVE Placeholders'
    <2>1. /\ phase[g] = "streaming" /\ g \in cancelled
          /\ phase' = [phase EXCEPT ![g] = "stopped"]
          /\ \A h \in Generations, k \in Segments :
                h /= g => work'[h][k] = work[h][k]
          /\ UNCHANGED <<cancelled, current, pending, timedOut>>
      BY <1>8 DEF StopPublishing, TypeOK
    <2>2. \A h \in Generations, k \in Segments :
             work'[h][k] = "quit" => h \in cancelled'
      BY <2>1 DEF Placeholders
    <2>3. current /= 0 /\ current /= g => phase'[current] = phase[current]
      BY <1>a, <2>1 DEF TypeOK
    <2>4. PendingIsOwed'
      BY <1>a, <2>1 DEF Placeholders, PendingIsOwed, ToCome
    <2>5. NothingOutlivesTheEnd'
      BY <2>1, <2>3 DEF Placeholders, NothingOutlivesTheEnd
    <2>6. current /= 0 /\ phase'[current] = "collecting" => pending' = {}
      BY <2>1, <2>3 DEF Placeholders, TypeOK
    <2>7. QED
      BY <2>1, <2>2, <2>4, <2>5, <2>6 DEF Placeholders
  <1>9. ASSUME NEW g \in Generations, NEW k \in Segments, Collect(g, k)
        PROVE Placeholders'
    <2>1. /\ phase[g] = "collecting"
          /\ work' = [work EXCEPT ![g][k] = "received"]
          /\ UNCHANGED <<phase, cancelled, current, pending, timedOut>>
      BY <1>9 DEF Collect, Receive
    <2>2. pending = {}
      BY <2>1, LiveIsCurrent, GenerationsAreNumbers DEF Placeholders
    <2>3. QED
      BY <2>1, <2>2 DEF Placeholders, PendingIsOwed, NothingOutlivesTheEnd,
         TypeOK
  <1>10. ASSUME NEW g \in Generations, NEW k \in Segments,
                NEW w \in {"started", "waiting", "sent", "quit"},
                work[g][k] \in {"ready", "started", "waiting"},
                work' = [work EXCEPT ![g][k] = w],
                w = "quit" => g \in cancelled,
                UNCHANGED <<phase, cancelled, current, pending, timedOut>>
         PROVE  Placeholders'
    <2>1. \A h \in Generations, j \in Segments :
             work'[h][j] = "quit" => h \in cancelled'
      BY <1>10 DEF Placeholders, TypeOK
    <2>2. PendingIsOwed'
      BY <1>a, <1>10 DEF Placeholders, PendingIsOwed, ToCome, TypeOK
    <2>3. QED
      BY <1>10, <2>1, <2>2 DEF Placeholders, NothingOutlivesTheEnd
  <1>11. ASSUME NEW g \in Generations, NEW k \in Segments,
                Worker(g, k) \/ Answers(g, k)
         PROVE  Placeholders'
    <2>1. CASE WorkerStarts(g, k)
      BY <1>10, <2>1 DEF WorkerStarts
    <2>2. CASE GetProvider(g, k)
      BY <1>10, <2>2 DEF GetProvider
    <2>3. CASE WorkerQuits(g, k)
      BY <1>10, <2>3 DEF WorkerQuits
    <2>4. CASE Answers(g, k)
      BY <1>10, <2>4 DEF Answers
    <2>5. QED
      BY <1>11, <2>1, <2>2, <2>3, <2>4 DEF Worker
  <1>12. ASSUME UNCHANGED <<phase, cancelled, work, current, pending, timedOut>>
         PROVE  Placeholders'
    BY <1>12 DEF Placeholders, PendingIsOwed, ToCome, NothingOutlivesTheEnd
  <1>13. CASE ReRender \/ ChangeMode \/ PrimaryRepaint
    BY <1>12, <1>13 DEF ReRender, ChangeMode, PrimaryRepaint
  <1>14. CASE UNCHANGED vars
    BY <1>12, <1>14 DEF vars
  <1>15. QED
    BY <1>1, <1>2, <1>3, <1>4, <1>5, <1>6, <1>7, <1>8, <1>9, <1>11, <1>13,
       <1>14 DEF Next, Publisher

(* For every placeholder of a live prompt its own render still has the     *)
(* result to come.                                                         *)
THEOREM PlaceholdersAreOwed ==
  ASSUME Serial
  PROVE  Spec => []PendingIsOwed
  <1>1. Init => TypeOK /\ InOrder /\ Placeholders
    BY InitTypes, InitOrder, InitPlaceholders
  <1>2. TypeOK /\ InOrder /\ Placeholders /\ [Next]_vars
           => (TypeOK /\ InOrder /\ Placeholders)'
    BY StepTypes, StepOrder, StepPlaceholders
  <1>3. Placeholders => PendingIsOwed
    BY DEF Placeholders
  <1>4. QED
    BY <1>1, <1>2, <1>3, PTL DEF Spec

(* When a live render says that it is complete, no placeholder and no      *)
(* timeout marker is left in its prompt.                                   *)
THEOREM TheEndIsClean ==
  ASSUME Serial
  PROVE  Spec => []NothingOutlivesTheEnd
  <1>1. Init => TypeOK /\ InOrder /\ Placeholders
    BY InitTypes, InitOrder, InitPlaceholders
  <1>2. TypeOK /\ InOrder /\ Placeholders /\ [Next]_vars
           => (TypeOK /\ InOrder /\ Placeholders)'
    BY StepTypes, StepOrder, StepPlaceholders
  <1>3. Placeholders => NothingOutlivesTheEnd
    BY DEF Placeholders
  <1>4. QED
    BY <1>1, <1>2, <1>3, PTL DEF Spec
-----------------------------------------------------------------------------
(* What the prompt shows, whether generations overlap or not.              *)

(* Drawing gives a segment its writer's value or leaves it.                *)
LEMMA DrawnText ==
  ASSUME NEW allowed, NEW p, NEW t \in [Segments -> Values],
         NEW d \in [Segments -> Values], Draw(allowed, p, t, d)
  PROVE  \A k \in Segments : \/ text'[k] = t[k]
                             \/ t[k] = Nothing /\ text'[k] = d[k]
  BY DEF Draw, Renders

LEMMA StepVim ==
  ASSUME TypeOK, VimShowsLatestMode, [Next]_vars
  PROVE  VimShowsLatestMode'
  <1> USE EngineAssumption
          DEF genVars, workVars, promptVars, segmentVars, vimVars
  <1>1. ASSUME NEW g \in Generations, Prepare(g) PROVE VimShowsLatestMode'
    BY <1>1 DEF Prepare, VimShowsLatestMode
  <1>2. ASSUME UNCHANGED <<vimRepainted, redrawn, data>>,
               \/ text'[Vim] = text[Vim]
               \/ text[Vim] = Nothing /\ text'[Vim] = data[Vim]
        PROVE  VimShowsLatestMode'
    BY <1>2 DEF VimShowsLatestMode
  <1>3. ASSUME NEW g \in Generations, Latch(g) PROVE VimShowsLatestMode'
    <2>1. Draw(Segments, pending \cup (Segments \ Completed(g)), text, data)
      BY <1>3 DEF Latch
    <2>2. QED
      BY <1>2, <1>3, <2>1, DrawnText DEF Latch, TypeOK
  <1>4. ASSUME NEW g \in Generations, NEW k \in Segments, Merge(g, k),
               UNCHANGED <<vimRepainted, redrawn>>
        PROVE  VimShowsLatestMode'
    <2>1. vimRepainted => data'[Vim] = data[Vim] /\ text'[Vim] = text[Vim]
      BY <1>4 DEF Merge, TypeOK
    <2>2. QED
      BY <1>4, <2>1 DEF VimShowsLatestMode
  <1>5. ASSUME NEW g \in Generations, NEW k \in Segments,
               PublishResult(g, k) \/ Collect(g, k)
        PROVE  VimShowsLatestMode'
    BY <1>4, <1>5 DEF PublishResult, Collect
  <1>6. ASSUME NEW g \in Generations,
               \/ Begin(g) \/ Cancel(g) \/ MarkTimedOut(g)
               \/ PublishComplete(g) \/ StopPublishing(g)
        PROVE  VimShowsLatestMode'
    BY <1>2, <1>6 DEF Begin, Cancel, MarkTimedOut, PublishComplete,
       StopPublishing
  <1>7. ASSUME NEW g \in Generations, NEW k \in Segments,
               Worker(g, k) \/ Answers(g, k)
        PROVE  VimShowsLatestMode'
    BY <1>2, <1>7 DEF Worker, WorkerStarts, GetProvider, WorkerQuits, Answers
  <1>8. CASE ReRender
    BY <1>2, <1>8, DrawnText DEF ReRender, TypeOK
  <1>9. CASE PrimaryRepaint
    <2> DEFINE cached == {k \in Segments \ (pending \cup {Vim}) :
                             cache[k] /= Nothing}
               d == [[k \in Segments |-> IF k \in cached THEN Nothing
                                         ELSE data[k]] EXCEPT ![Vim] = mode]
               t == [[k \in Segments |-> IF k \in cached THEN cache[k]
                                         ELSE text[k]] EXCEPT ![Vim] = Nothing]
    <2>1. d \in [Segments -> Values] /\ t \in [Segments -> Values]
      BY DEF Values, TypeOK
    <2>2. data' = d /\ Draw({Vim}, pending, t, d) /\ redrawn' = mode
      BY <1>9 DEF PrimaryRepaint
    <2>3. d[Vim] = mode /\ t[Vim] = Nothing
      OBVIOUS
    <2> HIDE DEF d, t
    <2>4. text'[Vim] \in {mode, Nothing}
      BY <2>1, <2>2, <2>3, DrawnText
    <2>5. QED
      BY <2>2, <2>3, <2>4 DEF VimShowsLatestMode
  <1>10. CASE ChangeMode \/ UNCHANGED vars
    BY <1>2, <1>10 DEF ChangeMode, vars
  <1>11. QED
    BY <1>1, <1>3, <1>5, <1>6, <1>7, <1>8, <1>9, <1>10 DEF Next, Publisher

(* After a repaint no asynchronous execution of the vim segment brings an  *)
(* earlier mode back, however the generations interleave.                  *)
THEOREM VimNeverGoesBack == Spec => []VimShowsLatestMode
  <1>1. Init => VimShowsLatestMode
    BY DEF Init, VimShowsLatestMode
  <1>2. QED
    BY <1>1, InitTypes, StepTypes, StepVim, PTL DEF Spec

(* A worker that has sent computed its own generation's value, or none.    *)
AnswersAreOwn ==
    \A g \in Generations, k \in Segments \ {Vim} :
       work[g][k] \in {"sent", "received"} => answer[g][k] \in {g, Nothing}

LEMMA StepAnswersOwn ==
  ASSUME TypeOK, AnswersAreOwn, [Next]_vars
  PROVE  AnswersAreOwn'
  <1> USE DEF genVars, workVars, promptVars, segmentVars, vimVars
  <1>1. ASSUME NEW g \in Generations, NEW k \in Segments, Answers(g, k)
        PROVE  AnswersAreOwn'
    <2>1. PICK value \in {IF k = Vim THEN mode ELSE g, Nothing} :
             answer' = [answer EXCEPT ![g][k] = value]
      BY <1>1 DEF Answers
    <2>2. QED
      BY <1>1, <2>1 DEF Answers, AnswersAreOwn, TypeOK
  <1>2. ASSUME NEW g \in Generations, Prepare(g) PROVE AnswersAreOwn'
    <2>1. PICK fresh \in SUBSET {k \in Explicit : cache[k] /= Nothing} :
             work' = [work EXCEPT ![g] =
                [k \in Segments |-> IF k \in fresh THEN "none" ELSE "ready"]]
      BY <1>2 DEF Prepare
    <2>2. QED
      BY <1>2, <2>1 DEF Prepare, AnswersAreOwn, TypeOK
  <1>3. ASSUME NEW g \in Generations, StopPublishing(g) PROVE AnswersAreOwn'
    <2>1. answer' = [answer EXCEPT ![g] = Blank]
      BY <1>3 DEF StopPublishing
    <2>2. \A h \in Generations, k \in Segments :
             h /= g => work'[h][k] = work[h][k]
      BY <1>3 DEF StopPublishing, TypeOK
    <2>3. QED
      BY <2>1, <2>2 DEF AnswersAreOwn, Blank, TypeOK
  <1>4. ASSUME NEW g \in Generations, NEW k \in Segments,
               NEW w \in {"started", "waiting", "received", "quit"},
               w = "received" => work[g][k] = "sent",
               work' = [work EXCEPT ![g][k] = w], answer' = answer
        PROVE  AnswersAreOwn'
    BY <1>4 DEF AnswersAreOwn, TypeOK
  <1>5. ASSUME NEW g \in Generations, NEW k \in Segments,
               PublishResult(g, k) \/ Collect(g, k)
        PROVE  AnswersAreOwn'
    BY <1>4, <1>5 DEF PublishResult, Collect, Receive
  <1>6. ASSUME NEW g \in Generations, NEW k \in Segments, Worker(g, k)
        PROVE  AnswersAreOwn'
    <2>1. CASE WorkerStarts(g, k)
      BY <1>4, <2>1 DEF WorkerStarts
    <2>2. CASE GetProvider(g, k)
      BY <1>4, <2>2 DEF GetProvider
    <2>3. CASE WorkerQuits(g, k)
      BY <1>4, <2>3 DEF WorkerQuits
    <2>4. QED
      BY <1>6, <2>1, <2>2, <2>3 DEF Worker
  <1>7. ASSUME UNCHANGED <<work, answer>> PROVE AnswersAreOwn'
    BY <1>7 DEF AnswersAreOwn
  <1>8. ASSUME NEW g \in Generations,
               \/ Begin(g) \/ Latch(g) \/ Cancel(g) \/ MarkTimedOut(g)
               \/ PublishComplete(g)
        PROVE  AnswersAreOwn'
    BY <1>7, <1>8 DEF Begin, Latch, Cancel, MarkTimedOut, PublishComplete
  <1>9. CASE ReRender \/ ChangeMode \/ PrimaryRepaint \/ UNCHANGED vars
    BY <1>7, <1>9 DEF ReRender, ChangeMode, PrimaryRepaint, vars
  <1>10. QED
    BY <1>1, <1>2, <1>3, <1>5, <1>6, <1>8, <1>9 DEF Next, Publisher

(* A context that is cancelled stays so.                                   *)
LEMMA CancelledGrows ==
  ASSUME [Next]_vars
  PROVE  cancelled \subseteq cancelled'
  <1> USE DEF genVars
  <1>1. ASSUME NEW g \in Generations, Begin(g) \/ Prepare(g) \/ Latch(g)
        PROVE  cancelled' = cancelled
    BY <1>1 DEF Begin, Prepare, Latch
  <1>2. ASSUME NEW g \in Generations, Cancel(g)
        PROVE  cancelled \subseteq cancelled'
    BY <1>2 DEF Cancel
  <1>3. ASSUME NEW g \in Generations, Publisher(g)
        PROVE  cancelled' = cancelled
    BY <1>3 DEF Publisher, PublishResult, MarkTimedOut, PublishComplete,
       StopPublishing
  <1>4. ASSUME NEW g \in Generations, NEW k \in Segments,
               Collect(g, k) \/ Worker(g, k) \/ Answers(g, k)
        PROVE  cancelled' = cancelled
    BY <1>4 DEF Collect, Worker, WorkerStarts, GetProvider, WorkerQuits,
       Answers
  <1>5. CASE ReRender \/ ChangeMode \/ PrimaryRepaint \/ UNCHANGED vars
    BY <1>5 DEF ReRender, ChangeMode, PrimaryRepaint, vars
  <1>6. QED
    BY <1>1, <1>2, <1>3, <1>4, <1>5 DEF Next

(* A drawn segment that showed, or was going to show, the current          *)
(* generation's answer still does.                                         *)
Shows(k) == \/ text[k] = current
            \/ text[k] = Nothing /\ data[k] = current

LEMMA StepShows ==
  ASSUME TypeOK, AnswersAreOwn, AnswersAreShownUnrepainted, [Next]_vars
  PROVE  AnswersAreShownUnrepainted'
  <1> USE DEF genVars, workVars, promptVars, segmentVars, vimVars
  <1> SUFFICES ASSUME ~vimRepainted', NEW k \in Delivered'
               PROVE  Shows(k)'
    BY DEF AnswersAreShownUnrepainted, AnswersAreShown, Shows
  <1>a. /\ k \in Segments \ {Vim} /\ current' /= 0
        /\ current' \notin cancelled' /\ work'[current'][k] = "received"
        /\ answer'[current'][k] /= Nothing
    BY DEF Delivered
  <1>b. ASSUME ~vimRepainted, k \in Delivered PROVE Shows(k)
    BY <1>b DEF AnswersAreShownUnrepainted, AnswersAreShown, Shows
  <1>c. current' \in Generations /\ cancelled \subseteq cancelled'
    <2>1. TypeOK'
      BY StepTypes
    <2>2. cancelled \subseteq cancelled'
      BY CancelledGrows
    <2>3. QED
      BY <1>a, <2>1, <2>2 DEF TypeOK
  <1>1. ASSUME vimRepainted' = vimRepainted, current' = current,
               work'[current][k] = work[current][k],
               answer'[current][k] = answer[current][k],
               data'[k] = data[k],
               \/ text'[k] = text[k]
               \/ text[k] = Nothing /\ text'[k] = data[k]
        PROVE  Shows(k)'
    <2>1. k \in Delivered
      BY <1>1, <1>a, <1>c DEF Delivered
    <2>2. Shows(k)
      BY <1>1, <1>b, <2>1
    <2>3. current /= Nothing
      BY <1>1, <1>c, EngineAssumption DEF Generations
    <2>4. QED
      BY <1>1, <2>2, <2>3 DEF Shows
  <1>2. ASSUME NEW g \in Generations, Prepare(g) PROVE Shows(k)'
    <2>1. PICK fresh \in SUBSET {j \in Explicit : cache[j] /= Nothing} :
             work' = [work EXCEPT ![g] =
                [j \in Segments |-> IF j \in fresh THEN "none" ELSE "ready"]]
      BY <1>2 DEF Prepare
    <2>2. work'[g][k] \in {"none", "ready"}
      BY <1>a, <2>1 DEF TypeOK
    <2>3. QED
      BY <1>2, <1>a, <2>2 DEF Prepare
  <1>3. ASSUME NEW g \in Generations, Latch(g) PROVE Shows(k)'
    <2>1. Draw(Segments, pending \cup (Segments \ Completed(g)), text, data)
      BY <1>3 DEF Latch
    <2>2. UNCHANGED <<vimRepainted, current, work, answer, data>>
      BY <1>3 DEF Latch
    <2>3. \/ text'[k] = text[k]
          \/ text[k] = Nothing /\ text'[k] = data[k]
      BY <1>a, <2>1, DrawnText DEF TypeOK
    <2>4. QED
      BY <1>1, <2>2, <2>3
  <1>4. ASSUME NEW g \in Generations, NEW j \in Segments,
               work[g][j] = "sent",
               work' = [work EXCEPT ![g][j] = "received"],
               UNCHANGED <<answer, vimRepainted, current, cancelled>>,
               Merge(g, j)
        PROVE  Shows(k)'
    <2>1. CASE g = current /\ j = k
      <3>1. data' = [data EXCEPT ![k] = answer[g][k]]
            /\ text' = [text EXCEPT ![k] = Nothing]
        BY <1>4, <1>a, <2>1 DEF Merge
      <3>2. answer[g][k] = current
        BY <1>4, <1>a, <2>1 DEF AnswersAreOwn
      <3>3. QED
        BY <1>4, <1>a, <2>1, <3>1, <3>2 DEF Shows, TypeOK
    <2>2. CASE ~(g = current /\ j = k)
      <3>1. work'[current][k] = work[current][k]
        BY <1>4, <1>a, <1>c, <2>2 DEF TypeOK
      <3>2. data'[k] = data[k] /\ text'[k] = text[k]
        BY <1>4, <1>a, <2>2 DEF Merge, TypeOK
      <3>3. QED
        BY <1>1, <1>4, <3>1, <3>2
    <2>3. QED
      BY <2>1, <2>2
  <1>5. ASSUME NEW g \in Generations, NEW j \in Segments,
               PublishResult(g, j) \/ Collect(g, j)
        PROVE  Shows(k)'
    BY <1>4, <1>5 DEF PublishResult, Collect, Receive
  <1>6. ASSUME NEW g \in Generations, StopPublishing(g) PROVE Shows(k)'
    <2>1. g /= current
      BY <1>6, <1>a, <1>c DEF StopPublishing
    <2>2. work'[current] = work[current] /\ answer'[current] = answer[current]
      BY <1>6, <1>c, <2>1 DEF StopPublishing, TypeOK
    <2>3. QED
      BY <1>1, <1>6, <2>2 DEF StopPublishing
  <1>7. ASSUME NEW g \in Generations, NEW j \in Segments,
               Worker(g, j) \/ Answers(g, j)
        PROVE  Shows(k)'
    <2>1. UNCHANGED <<vimRepainted, current, data, text>>
      BY <1>7 DEF Worker, WorkerStarts, GetProvider, WorkerQuits, Answers
    <2>2. work'[g][j] /= "received"
      BY <1>7 DEF Worker, WorkerStarts, GetProvider, WorkerQuits, Answers,
         TypeOK
    <2>3. g /= current \/ j /= k
      BY <1>a, <2>1, <2>2
    <2>4. work'[current][k] = work[current][k]
      BY <1>7, <1>a, <1>c, <2>1, <2>3 DEF Worker, WorkerStarts, GetProvider,
         WorkerQuits, Answers, TypeOK
    <2>5. answer'[current][k] = answer[current][k]
      BY <1>7, <1>a, <1>c, <2>1, <2>3 DEF Worker, WorkerStarts, GetProvider,
         WorkerQuits, Answers, TypeOK
    <2>6. QED
      BY <1>1, <2>1, <2>4, <2>5
  <1>8. ASSUME NEW g \in Generations,
               \/ Begin(g) \/ Cancel(g) \/ MarkTimedOut(g)
               \/ PublishComplete(g)
        PROVE  Shows(k)'
    BY <1>1, <1>8 DEF Begin, Cancel, MarkTimedOut, PublishComplete
  <1>9. CASE ReRender
    <2>1. Draw(Segments, pending, text, data)
      BY <1>9 DEF ReRender
    <2>2. QED
      BY <1>1, <1>9, <1>a, <2>1, DrawnText DEF ReRender, TypeOK
  <1>10. CASE ChangeMode \/ UNCHANGED vars
    BY <1>1, <1>10 DEF ChangeMode, vars
  <1>11. CASE PrimaryRepaint
    BY <1>11 DEF PrimaryRepaint
  <1>12. QED
    BY <1>2, <1>3, <1>5, <1>6, <1>7, <1>8, <1>9, <1>10, <1>11
       DEF Next, Publisher

(* As long as a prompt is not repainted, every result that reached the     *)
(* engine is what the prompt shows, however the generations interleave.    *)
THEOREM AnswersReachThePrompt == Spec => []AnswersAreShownUnrepainted
  <1>1. Init => AnswersAreOwn /\ AnswersAreShownUnrepainted
    BY DEF Init, AnswersAreOwn, AnswersAreShownUnrepainted, AnswersAreShown,
       Delivered
  <1>2. TypeOK /\ AnswersAreOwn /\ AnswersAreShownUnrepainted /\ [Next]_vars
           => (TypeOK /\ AnswersAreOwn /\ AnswersAreShownUnrepainted)'
    BY StepTypes, StepAnswersOwn, StepShows
  <1>3. QED
    BY <1>1, <1>2, InitTypes, PTL DEF Spec
-----------------------------------------------------------------------------
(* The engine's renders are what RenderLife says.                          *)

Unreceived(g) == {k \in Segments : work[g][k] \notin {"none", "received"}}

(* A deadline is set with a prompt, only a cancelled publisher stops, and  *)
(* the placeholders of a live render are the results it has not received.  *)
Tally ==
    \A g \in Generations :
        /\ phase[g] \in {"new", "reset"} => ~armed[g]
        /\ phase[g] = "stopped" => g \in cancelled
        /\ phase[g] = "streaming" /\ g \notin cancelled
              => pending = Unreceived(g)

(* Of the other generations, while one collects or owns the engine's       *)
(* fields, those that are not cancelled have not prepared yet.             *)
LEMMA OthersWait ==
  ASSUME TypeOK, InOrder, NEW g \in Generations, Collecting(g) \/ g = current,
         NEW h \in Generations, h \notin cancelled, h /= g
  PROVE  phase[h] \in {"new", "reset"}
  <1>1. h < g \/ g < h
    BY GenerationsAreNumbers
  <1>2. CASE Collecting(g)
    BY <1>1, <1>2 DEF InOrder, Collecting
  <1>3. CASE g = current
    <2>1. phase[g] /= "new" /\ g \in Nat /\ h \in Nat
      BY <1>3, GenerationsAreNumbers DEF InOrder
    <2>2. h < g => h \in cancelled
      BY <2>1 DEF InOrder
    <2>3. QED
      BY <1>1, <1>3, <2>1, <2>2 DEF InOrder
  <1>4. QED
    BY <1>2, <1>3

(* A worker that has not been received is not received by what it does.    *)
LEMMA AtWork ==
  ASSUME TypeOK, NEW g \in Generations, NEW k \in Segments,
         Worker(g, k) \/ Answers(g, k)
  PROVE  \A h \in Generations : Unreceived(h)' = Unreceived(h)
  <1>1. ASSUME NEW w \in {"started", "waiting", "sent", "quit"},
               work[g][k] \in {"ready", "started", "waiting"},
               work' = [work EXCEPT ![g][k] = w]
        PROVE  \A h \in Generations : Unreceived(h)' = Unreceived(h)
    BY <1>1 DEF Unreceived, TypeOK
  <1>2. CASE WorkerStarts(g, k)
    BY <1>1, <1>2 DEF WorkerStarts
  <1>3. CASE GetProvider(g, k)
    BY <1>1, <1>3 DEF GetProvider
  <1>4. CASE WorkerQuits(g, k)
    BY <1>1, <1>4 DEF WorkerQuits
  <1>5. CASE Answers(g, k)
    BY <1>1, <1>5 DEF Answers
  <1>6. QED
    BY <1>2, <1>3, <1>4, <1>5 DEF Worker

LEMMA InitTally == Init => Tally
  BY DEF Init, Tally

LEMMA StepTally ==
  ASSUME Serial, TypeOK, InOrder, Placeholders, Tally, [Next]_vars
  PROVE  Tally'
  <1> USE DEF genVars, workVars, promptVars, segmentVars, vimVars
  <1>1. ASSUME NEW g \in Generations, Begin(g) PROVE Tally'
    BY <1>1 DEF Begin, Tally, Unreceived, TypeOK
  <1>2. ASSUME NEW g \in Generations, Prepare(g) PROVE Tally'
    <2>1. \A h \in Generations :
             h \notin cancelled /\ h /= g => phase[h] \in {"new", "reset"}
      BY <1>2, OthersWait DEF Prepare, Collecting
    <2>2. /\ phase' = [phase EXCEPT ![g] = "collecting"]
          /\ cancelled' = cancelled
          /\ \E set \in BOOLEAN : armed' = [armed EXCEPT ![g] = set]
      BY <1>2 DEF Prepare
    <2>3. QED
      BY <2>1, <2>2 DEF Tally, TypeOK
  <1>3. ASSUME NEW g \in Generations, Latch(g) PROVE Tally'
    <2>1. \A h \in Generations :
             h \notin cancelled /\ h /= g => phase[h] \in {"new", "reset"}
      BY <1>3, OthersWait DEF Latch, Collecting
    <2>2. g = current /\ current /= 0
      BY <1>3, LiveIsCurrent, GenerationsAreNumbers DEF Latch
    <2>3. pending' = Unreceived(g)'
      BY <1>3, <2>2 DEF Latch, Placeholders, Completed, Unreceived
    <2>4. /\ \A h \in Generations :
                h /= g => phase'[h] = phase[h] /\ armed'[h] = armed[h]
          /\ phase'[g] \in {"quiet", "streaming"} /\ cancelled' = cancelled
      BY <1>3 DEF Latch, TypeOK
    <2>5. QED
      BY <2>1, <2>3, <2>4 DEF Tally, TypeOK
  <1>4. ASSUME NEW g \in Generations, Cancel(g) PROVE Tally'
    BY <1>4 DEF Cancel, Tally, Unreceived
  <1>5. ASSUME NEW g \in Generations, NEW k \in Segments, PublishResult(g, k)
        PROVE  Tally'
    <2>1. g = current
      BY <1>5, LiveIsCurrent DEF PublishResult
    <2>2. \A h \in Generations :
             h \notin cancelled /\ h /= g => phase[h] \in {"new", "reset"}
      BY <2>1, OthersWait
    <2>3. work' = [work EXCEPT ![g][k] = "received"]
      BY <1>5 DEF PublishResult, Receive
    <2>4. Unreceived(g)' = Unreceived(g) \ {k}
      BY <2>3 DEF Unreceived, TypeOK
    <2>5. QED
      BY <1>5, <2>2, <2>4 DEF PublishResult, Tally
  <1>6. ASSUME NEW g \in Generations, NEW k \in Segments, Collect(g, k)
        PROVE  Tally'
    <2>1. \A h \in Generations : h /= g => work'[h] = work[h]
      BY <1>6 DEF Collect, Receive, TypeOK
    <2>2. QED
      BY <1>6, <2>1 DEF Collect, Tally, Unreceived
  <1>7. ASSUME NEW g \in Generations, MarkTimedOut(g) PROVE Tally'
    BY <1>7 DEF MarkTimedOut, Tally, Unreceived, TypeOK
  <1>8. ASSUME NEW g \in Generations, PublishComplete(g) PROVE Tally'
    BY <1>8 DEF PublishComplete, Tally, Unreceived, TypeOK
  <1>9. ASSUME NEW g \in Generations, StopPublishing(g) PROVE Tally'
    <2>1. \A h \in Generations : h /= g => work'[h] = work[h]
      BY <1>9 DEF StopPublishing, TypeOK
    <2>2. QED
      BY <1>9, <2>1 DEF StopPublishing, Tally, Unreceived, TypeOK
  <1>10. ASSUME \A g \in Generations : Unreceived(g)' = Unreceived(g),
                UNCHANGED <<phase, cancelled, armed, pending>>
         PROVE  Tally'
    BY <1>10 DEF Tally
  <1>11. ASSUME NEW g \in Generations, NEW k \in Segments,
                Worker(g, k) \/ Answers(g, k)
         PROVE  Tally'
    <2>1. \A h \in Generations : Unreceived(h)' = Unreceived(h)
      BY <1>11, AtWork
    <2>2. UNCHANGED <<phase, cancelled, armed, pending>>
      BY <1>11 DEF Worker, WorkerStarts, GetProvider, WorkerQuits, Answers
    <2>3. QED
      BY <1>10, <2>1, <2>2
  <1>12. CASE ReRender \/ ChangeMode \/ PrimaryRepaint \/ UNCHANGED vars
    BY <1>10, <1>12 DEF ReRender, ChangeMode, PrimaryRepaint, vars, Unreceived
  <1>13. QED
    BY <1>1, <1>2, <1>3, <1>4, <1>5, <1>6, <1>7, <1>8, <1>9, <1>11, <1>12
       DEF Next, Publisher

(* A render whose own state stays, and whose placeholders do if it lives,  *)
(* is as far as it was.                                                    *)
LEMMA SameProgress ==
  ASSUME NEW h \in Generations, phase'[h] = phase[h],
         h \in cancelled' <=> h \in cancelled,
         \/ phase[h] \in {"new", "reset"}
         \/ /\ h \notin cancelled => pending' = pending
            /\ Unreceived(h)' = Unreceived(h)
  PROVE  Progress(h)' = Progress(h)
  BY DEF Progress, Outstanding, Unreceived

(* What a step for one render leaves of the others.                        *)
LEMMA OthersStay ==
  ASSUME TypeOK, InOrder, NEW g \in Generations,
         Collecting(g) \/ g = current \/ pending' = pending,
         \A h \in Generations \ {g} : phase'[h] = phase[h] /\ work'[h] = work[h],
         cancelled' = cancelled
  PROVE  \A h \in Generations \ {g} : Progress(h)' = Progress(h)
  <1> SUFFICES ASSUME NEW h \in Generations \ {g}
               PROVE  Progress(h)' = Progress(h)
    OBVIOUS
  <1>1. h \notin cancelled /\ (Collecting(g) \/ g = current)
           => phase[h] \in {"new", "reset"}
    BY OthersWait
  <1>2. Unreceived(h)' = Unreceived(h)
    BY DEF Unreceived
  <1>3. QED
    BY <1>1, <1>2, SameProgress

LEMMA StagesStay ==
  ASSUME \A h \in Generations : Progress(h)' = Progress(h)
  PROVE  Stages' = Stages
  BY DEF Stages

LEMMA StageMoves ==
  ASSUME NEW g \in Generations, NEW from, NEW to,
         Progress(g) = from, Progress(g)' = to,
         \A h \in Generations \ {g} : Progress(h)' = Progress(h)
  PROVE  Life!Moves(g, from, to)
  BY DEF Stages, Life!Moves

LEMMA DeadlineGoes ==
  ASSUME TypeOK, NEW g \in Generations, armed' = [armed EXCEPT ![g] = FALSE]
  PROVE  Deadlines' = Deadlines \ {g}
  BY DEF Deadlines, TypeOK

EngineInv == TypeOK /\ InOrder /\ Placeholders /\ Tally

LEMMA InitLife == Init => Life!LifeInit
  BY DEF Init, Life!LifeInit, Stages, Deadlines, Late, Progress

LEMMA PrepareCollects ==
  ASSUME EngineInv, NEW g \in Generations, Prepare(g)
  PROVE  Life!Collects(g)
  <1> USE DEF EngineInv
  <1>1. /\ phase[g] = "reset" /\ phase' = [phase EXCEPT ![g] = "collecting"]
        /\ cancelled' = cancelled /\ pending' = {} /\ timedOut' = {}
    BY DEF Prepare
  <1>2. \A h \in Generations \ {g} : phase'[h] = phase[h] /\ work'[h] = work[h]
    BY DEF Prepare, TypeOK
  <1>3. Progress(g) = "none" /\ Progress(g)' = "collecting"
    BY <1>1 DEF Progress, Outstanding, TypeOK
  <1>4. Life!Moves(g, "none", "collecting")
    BY <1>1, <1>2, <1>3, OthersStay, StageMoves DEF Collecting
  <1>5. Deadlines' \in {Deadlines, Deadlines \cup {g}}
    <2>1. PICK set \in BOOLEAN : armed' = [armed EXCEPT ![g] = set]
      BY DEF Prepare
    <2>2. ~armed[g]
      BY <1>1 DEF Tally
    <2>3. QED
      BY <2>1, <2>2 DEF Deadlines, TypeOK
  <1>6. Late' = {}
    BY <1>1 DEF Late
  <1>7. QED
    BY <1>1, <1>4, <1>5, <1>6 DEF Life!Collects

LEMMA LatchCollected ==
  ASSUME EngineInv, NEW g \in Generations, Latch(g)
  PROVE  Life!Collected(g)
  <1> USE DEF EngineInv
  <1> DEFINE outstanding == pending \cup (Segments \ Completed(g))
  <1>1. /\ phase[g] = "collecting" /\ pending' = outstanding
        /\ phase' = [phase EXCEPT ![g] =
              IF outstanding = {} THEN "quiet" ELSE "streaming"]
        /\ armed' = [armed EXCEPT ![g] = @ /\ outstanding /= {}]
        /\ UNCHANGED <<cancelled, work, current, timedOut>>
    BY DEF Latch, workVars
  <1>2. g = current /\ pending = {} /\ timedOut = {}
    BY <1>1, LiveIsCurrent, GenerationsAreNumbers DEF Placeholders
  <1>3. outstanding = Unreceived(g)
    BY <1>2 DEF Completed, Unreceived
  <1> HIDE DEF outstanding
  <1>4. Progress(g) = "collecting"
    BY <1>1, <1>2 DEF Progress, Outstanding
  <1>5. Progress(g)' = IF outstanding = {} THEN "ended" ELSE "streaming"
    BY <1>1, <1>3 DEF Progress, Outstanding, Unreceived, TypeOK
  <1>6. Life!Moves(g, "collecting",
                   IF outstanding = {} THEN "ended" ELSE "streaming")
    BY <1>1, <1>2, <1>4, <1>5, OthersStay, StageMoves DEF TypeOK
  <1>7. Deadlines' = IF outstanding = {} THEN Deadlines \ {g} ELSE Deadlines
    BY <1>1 DEF Deadlines, TypeOK
  <1>8. Late' = Late
    BY <1>1 DEF Late
  <1>9. QED
    BY <1>1, <1>6, <1>7, <1>8 DEF Life!Collected

LEMMA ResultReplaces ==
  ASSUME EngineInv, NEW g \in Generations, NEW k \in Segments,
         PublishResult(g, k)
  PROVE  \/ Life!ReplacesLast(g) \/ Life!ReplacesLastMarked(g)
         \/ UNCHANGED Life!lifeVars
  <1> USE DEF EngineInv
  <1>1. /\ phase[g] = "streaming" /\ g \notin cancelled
        /\ work[g][k] = "sent" /\ work' = [work EXCEPT ![g][k] = "received"]
        /\ pending' = pending \ {k} /\ timedOut' = timedOut \ {k}
        /\ UNCHANGED <<phase, cancelled, armed, current>>
    BY DEF PublishResult, Receive, genVars
  <1>2. g = current
    BY <1>1, LiveIsCurrent
  <1>3. k \in pending /\ timedOut \subseteq pending
    BY <1>1 DEF Tally, Unreceived, Placeholders
  <1>4. Progress(g) = "streaming"
    BY <1>1, <1>3 DEF Progress, Outstanding
  <1>5. \A h \in Generations \ {g} : Progress(h)' = Progress(h)
    BY <1>1, <1>2, OthersStay DEF TypeOK
  <1>6. Deadlines' = Deadlines /\ Life!Live(g)
    BY <1>1 DEF Deadlines, Life!Live
  <1>7. CASE pending' = {}
    <2>1. Progress(g)' = "drained"
      BY <1>1, <1>7 DEF Progress, Outstanding
    <2>2. Late' = Late \ {g}
      BY <1>1, <1>2, <1>3, <1>7 DEF Late
    <2>3. Life!Moves(g, "streaming", "drained")
      BY <1>4, <1>5, <2>1, StageMoves
    <2>4. QED
      BY <1>1, <1>6, <2>2, <2>3 DEF Life!ReplacesLast
  <1>8. CASE pending' /= {}
    <2>1. Progress(g)' = "streaming"
      BY <1>1, <1>8 DEF Progress, Outstanding
    <2>2. Stages' = Stages /\ Stages[g] = "streaming"
      BY <1>4, <1>5, <2>1, StagesStay DEF Stages
    <2>3. Late' \in {Late, Late \ {g}}
      BY <1>1, <1>2 DEF Late
    <2>4. QED
      BY <1>1, <1>6, <2>2, <2>3 DEF Life!ReplacesLastMarked, Life!lifeVars
  <1>9. QED
    BY <1>7, <1>8

LEMMA MarkIsDeadline ==
  ASSUME EngineInv, NEW g \in Generations, MarkTimedOut(g)
  PROVE  Life!DeadlinePasses(g)
  <1> USE DEF EngineInv
  <1>1. /\ phase[g] = "streaming" /\ armed[g]
        /\ armed' = [armed EXCEPT ![g] = FALSE]
        /\ timedOut' = IF g \in cancelled THEN timedOut
                       ELSE timedOut \cup pending
        /\ UNCHANGED <<phase, cancelled, work, current, pending>>
    BY DEF MarkTimedOut, workVars
  <1>2. Stages' = Stages
    BY <1>1, SameProgress, StagesStay DEF Unreceived
  <1>3. g \in Deadlines /\ Deadlines' = Deadlines \ {g}
    BY <1>1, DeadlineGoes DEF Deadlines
  <1>4. CASE g \in cancelled
    BY <1>1, <1>2, <1>3, <1>4 DEF Late, Life!DeadlinePasses, Life!Live
  <1>5. CASE g \notin cancelled
    <2>1. g = current
      BY <1>1, <1>5, LiveIsCurrent
    <2>2. Stages[g] = IF pending /= {} THEN "streaming" ELSE "drained"
      BY <1>1, <1>5 DEF Stages, Progress, Outstanding
    <2>3. Late' = IF pending /= {} THEN Late \cup {g} ELSE Late
      BY <1>1, <1>5, <2>1 DEF Late
    <2>4. QED
      BY <1>1, <1>2, <1>3, <1>5, <2>2, <2>3
         DEF Life!DeadlinePasses, Life!Live
  <1>6. QED
    BY <1>4, <1>5

LEMMA CompleteCompletes ==
  ASSUME EngineInv, NEW g \in Generations, PublishComplete(g)
  PROVE  Life!Completes(g)
  <1> USE DEF EngineInv
  <1>1. /\ phase[g] = "streaming" /\ g \notin cancelled /\ Drained(g)
        /\ phase' = [phase EXCEPT ![g] = "complete"]
        /\ armed' = [armed EXCEPT ![g] = FALSE]
        /\ UNCHANGED <<cancelled, work, current, pending, timedOut>>
    BY DEF PublishComplete, workVars, promptVars
  <1>2. pending = {}
    BY <1>1 DEF Drained, Tally, Unreceived, Placeholders
  <1>3. Progress(g) = "drained" /\ Progress(g)' = "ended"
    BY <1>1, <1>2 DEF Progress, Outstanding, TypeOK
  <1>4. Life!Moves(g, "drained", "ended")
    BY <1>1, <1>3, OthersStay, StageMoves DEF TypeOK
  <1>5. Deadlines' = Deadlines \ {g} /\ Late' = Late
    BY <1>1, DeadlineGoes DEF Late
  <1>6. QED
    BY <1>1, <1>4, <1>5 DEF Life!Completes, Life!Live

LEMMA StopAborts ==
  ASSUME EngineInv, NEW g \in Generations, StopPublishing(g)
  PROVE  Life!Aborts(g)
  <1> USE DEF EngineInv
  <1>1. /\ phase[g] = "streaming" /\ g \in cancelled
        /\ phase' = [phase EXCEPT ![g] = "stopped"]
        /\ armed' = [armed EXCEPT ![g] = FALSE]
        /\ UNCHANGED <<cancelled, current, pending, timedOut>>
    BY DEF StopPublishing, promptVars
  <1>2. \A h \in Generations \ {g} : phase'[h] = phase[h] /\ work'[h] = work[h]
    BY DEF StopPublishing, TypeOK
  <1>3. Progress(g) \in {"streaming", "drained"} /\ Progress(g)' = "ended"
    BY <1>1 DEF Progress, Outstanding, TypeOK
  <1>4. Life!Moves(g, "streaming", "ended") \/ Life!Moves(g, "drained", "ended")
    BY <1>1, <1>2, <1>3, OthersStay, StageMoves
  <1>5. Deadlines' = Deadlines \ {g} /\ Late' = Late
    BY <1>1, DeadlineGoes DEF Late
  <1>6. QED
    BY <1>1, <1>4, <1>5 DEF Life!Aborts, Life!Live

LEMMA CancelCancels ==
  ASSUME EngineInv, NEW g \in Generations, Cancel(g)
  PROVE  Life!Cancel(g)
  <1> USE DEF EngineInv
  <1>1. /\ phase[g] /= "new" /\ g \notin cancelled
        /\ cancelled' = cancelled \cup {g}
        /\ UNCHANGED <<phase, armed, work, current, pending, timedOut>>
    BY DEF Cancel, workVars, promptVars
  <1>2. ASSUME NEW h \in Generations \ {g} PROVE Progress(h)' = Progress(h)
    BY <1>1, SameProgress DEF Unreceived
  <1>3. Progress(g)' = Progress(g)
    <2>1. CASE phase[g] \in {"new", "reset"}
      BY <1>1, <2>1 DEF Progress
    <2>2. CASE phase[g] \notin {"new", "reset"}
      <3>1. g = current /\ current /= 0
        <4>1. g <= current /\ g \in Nat \ {0}
          BY <2>2, GenerationsAreNumbers DEF InOrder
        <4>2. current \in Generations /\ current /= 0
          BY <4>1 DEF TypeOK
        <4>3. QED
          BY <1>1, <2>2, <4>2, OthersWait
      <3>2. CASE phase[g] = "streaming"
        BY <1>1, <3>2 DEF Progress, Outstanding, Tally, Unreceived
      <3>3. CASE phase[g] \in {"collecting", "quiet", "complete"}
        <4>1. pending = {}
          BY <1>1, <3>1, <3>3 DEF Placeholders, NothingOutlivesTheEnd
        <4>2. QED
          BY <1>1, <3>3, <4>1 DEF Progress, Outstanding
      <3>4. phase[g] /= "stopped"
        BY <1>1 DEF Tally
      <3>5. QED
        BY <2>2, <3>2, <3>3, <3>4 DEF TypeOK
    <2>3. QED
      BY <2>1, <2>2
  <1>4. Stages' = Stages
    BY <1>2, <1>3, StagesStay
  <1>5. Deadlines' = Deadlines /\ Late' = Late
    BY <1>1 DEF Deadlines, Late
  <1>6. QED
    BY <1>1, <1>4, <1>5 DEF Life!Cancel

(* A step of the engine is a step of a render's life, or none.             *)
LEMMA StepLife ==
  EngineInv /\ [Next]_vars => [Life!LifeNext]_(Life!lifeVars)
  <1> SUFFICES ASSUME EngineInv, [Next]_vars
               PROVE  Life!LifeNext \/ UNCHANGED Life!lifeVars
    OBVIOUS
  <1> USE DEF genVars, workVars, promptVars, segmentVars, vimVars
  <1>1. ASSUME UNCHANGED <<cancelled, armed, current, timedOut>>,
               \A h \in Generations : Progress(h)' = Progress(h)
        PROVE  UNCHANGED Life!lifeVars
    BY <1>1, StagesStay DEF Life!lifeVars, Deadlines, Late
  <1>2. ASSUME UNCHANGED <<genVars, current, pending, timedOut>>,
               \A h \in Generations : Unreceived(h)' = Unreceived(h)
        PROVE  UNCHANGED Life!lifeVars
    BY <1>1, <1>2, SameProgress
  <1>3. ASSUME NEW g \in Generations,
               Prepare(g) \/ Latch(g) \/ Cancel(g)
        PROVE  Life!LifeNext
    BY <1>3, PrepareCollects, LatchCollected, CancelCancels DEF Life!LifeNext
  <1>4. ASSUME NEW g \in Generations, Publisher(g)
        PROVE  Life!LifeNext \/ UNCHANGED Life!lifeVars
    BY <1>4, ResultReplaces, MarkIsDeadline, CompleteCompletes, StopAborts
       DEF Publisher, Life!LifeNext
  <1>5. ASSUME NEW g \in Generations, Begin(g)
        PROVE  UNCHANGED Life!lifeVars
    <2>1. /\ phase[g] = "new" /\ phase' = [phase EXCEPT ![g] = "reset"]
          /\ UNCHANGED <<cancelled, armed, current, pending, timedOut, work>>
      BY <1>5 DEF Begin
    <2>2. ASSUME NEW h \in Generations PROVE Progress(h)' = Progress(h)
      <3>1. CASE h = g
        BY <2>1, <3>1 DEF Progress, EngineInv, TypeOK
      <3>2. CASE h /= g
        BY <2>1, <3>2, SameProgress DEF Unreceived, EngineInv, TypeOK
      <3>3. QED
        BY <3>1, <3>2
    <2>3. QED
      BY <1>1, <2>1, <2>2
  <1>6. ASSUME NEW g \in Generations, NEW k \in Segments, Collect(g, k)
        PROVE  UNCHANGED Life!lifeVars
    <2>1. /\ phase[g] = "collecting"
          /\ UNCHANGED <<genVars, current, pending, timedOut>>
          /\ work' = [work EXCEPT ![g][k] = "received"]
      BY <1>6 DEF Collect, Receive
    <2>2. Progress(g)' = Progress(g)
      BY <2>1 DEF Progress, Outstanding
    <2>3. \A h \in Generations \ {g} : Progress(h)' = Progress(h)
      BY <2>1, OthersStay DEF EngineInv, TypeOK
    <2>4. QED
      BY <1>1, <2>1, <2>2, <2>3
  <1>7. ASSUME NEW g \in Generations, NEW k \in Segments,
               Worker(g, k) \/ Answers(g, k)
        PROVE  UNCHANGED Life!lifeVars
    <2>1. UNCHANGED <<genVars, current, pending, timedOut>>
      BY <1>7 DEF Worker, WorkerStarts, GetProvider, WorkerQuits, Answers
    <2>2. QED
      BY <1>2, <1>7, <2>1, AtWork DEF EngineInv
  <1>8. CASE ReRender \/ ChangeMode \/ PrimaryRepaint \/ UNCHANGED vars
    BY <1>2, <1>8 DEF ReRender, ChangeMode, PrimaryRepaint, vars, Unreceived
  <1>9. QED
    BY <1>3, <1>4, <1>5, <1>6, <1>7, <1>8 DEF Next

(* The engine implements RenderLife: whatever its workers, publishers and  *)
(* deadlines do, and however many generations there are, every render goes *)
(* through the same stages, and a cancelled one touches no prompt.         *)
THEOREM EngineImplementsRenders ==
  ASSUME Serial
  PROVE  Spec => ImplementsRenders
  <1>1. Init => EngineInv
    BY InitTypes, InitOrder, InitPlaceholders, InitTally DEF EngineInv
  <1>2. EngineInv /\ [Next]_vars => EngineInv'
    BY StepTypes, StepOrder, StepPlaceholders, StepTally DEF EngineInv
  <1>3. QED
    BY <1>1, <1>2, InitLife, StepLife, PTL
       DEF Spec, ImplementsRenders, Life!LifeSpec
=============================================================================
