-------------------------- MODULE UpdateHubProofs ---------------------------
(***************************************************************************)
(* The update hub is correct for any number of relays, renders and         *)
(* publishes and any window: HubInv is inductive, it gives the safety      *)
(* properties, and under it every step of the hub is a step of UpdateLog   *)
(* or changes nothing there.  What a relay may be handed is decided when   *)
(* it subscribes or a publisher takes it off the list, long before it      *)
(* receives; Answers says why the decision still stands then.              *)
(***************************************************************************)
EXTENDS UpdateHub, SequenceTheorems, TLAPS

(* Update u is what reader c is to get next: published, past the cursor,   *)
(* with nothing skipped that is within the window.                         *)
Answers(c, u) ==
    /\ u.seq \in cursor[c] + 1 .. Len(history)
    /\ history[u.seq] = u.render
    /\ \A j \in cursor[c] + 1 .. u.seq - 1 : j <= Len(history) - HistoryLimit

(* What the relay's loop stepped over since it last returned.              *)
PassedRightly(c) ==
    \A j \in seen[c] + 1 .. cursor[c] :
        /\ j <= Len(history)
        /\ Matches(wants[c], history[j]) => j <= Len(history) - HistoryLimit

(* A relay in Next has one channel, and it is in line, owed or full.       *)
InLine(w) ==
    /\ at[w.reader] \in {"waiting", "done"}
    /\ at[w.reader] = "waiting" =>
          /\ w.after = cursor[w.reader]
          /\ box[w.reader] = NoUpdate
          /\ \A s \in sending : s.reader /= w.reader

Owed(s) ==
    /\ at[s.reader] \in {"waiting", "done"}
    /\ at[s.reader] = "waiting" =>
          /\ Answers(s.reader, s.snapshot)
          /\ box[s.reader] = NoUpdate
          /\ \A t \in sending : t.reader = s.reader => t = s

Full(c) ==
    box[c] /= NoUpdate => at[c] = "waiting" /\ Answers(c, box[c])

HubInv ==
    /\ TypeOK
    /\ HistoryIsWindow
    /\ NobodyWaitsForThePast
    /\ \A w \in waiters : InLine(w)
    /\ \A s \in sending : Owed(s)
    /\ \A c \in Readers : Full(c) /\ PassedRightly(c)
    /\ EveryChannelIsAnswered

(* Trimming keeps the newest entries: at least HistoryLimit of them if     *)
(* there were as many, at most twice as many.                              *)
LEMMA TrimKeepsNewest ==
  ASSUME NEW us \in Seq(Snapshots), Len(us) <= 2 * HistoryLimit + 1
  PROVE  /\ Trim(us) \in Seq(Snapshots)
         /\ Len(Trim(us)) \in Nat
         /\ Len(Trim(us)) <= 2 * HistoryLimit
         /\ Len(Trim(us)) <= Len(us)
         /\ Len(Trim(us)) = Len(us) \/ Len(Trim(us)) = HistoryLimit
         /\ \A i \in 1 .. Len(Trim(us)) :
               Trim(us)[i] = us[Len(us) - Len(Trim(us)) + i]
  <1> USE HubAssumption
  <1>1. CASE Len(us) > 2 * HistoryLimit
    <2> DEFINE m == Len(us) - HistoryLimit + 1
               n == Len(us)
    <2>1. m \in Int /\ n \in Int /\ m >= 1 /\ m <= n
      BY <1>1, LenProperties
    <2>2. \A i \in m .. n : us[i] \in Snapshots
      BY <2>1, LenProperties
    <2>3. /\ SubSeq(us, m, n) \in Seq(Snapshots)
          /\ Len(SubSeq(us, m, n)) = HistoryLimit
          /\ \A i \in 1 .. HistoryLimit : SubSeq(us, m, n)[i] = us[m + i - 1]
      <3> HIDE DEF m, n
      <3>1. /\ SubSeq(us, m, n) \in Seq(Snapshots)
            /\ Len(SubSeq(us, m, n)) = IF m <= n THEN n - m + 1 ELSE 0
            /\ \A i \in 1 .. n - m + 1 : SubSeq(us, m, n)[i] = us[m + i - 1]
        BY <2>1, <2>2, SubSeqProperties
      <3>2. n - m + 1 = HistoryLimit
        BY LenProperties DEF m, n
      <3>3. QED
        BY <3>1, <3>2, <2>1
    <2>4. Trim(us) = SubSeq(us, m, n)
      BY <1>1 DEF Trim
    <2>5. QED
      BY <1>1, <2>3, <2>4, LenProperties
  <1>2. CASE Len(us) <= 2 * HistoryLimit
    <2>1. Len(us) \in Nat
      BY LenProperties
    <2>2. Trim(us) = us
      BY <1>2, <2>1 DEF Trim
    <2>3. \A i \in 1 .. Len(us) : us[i] = us[Len(us) - Len(us) + i]
      BY <2>1
    <2>4. QED
      BY <1>2, <2>1, <2>2, <2>3
  <1>3. QED
    BY <1>1, <1>2, LenProperties

(* An answer from the history is published, past the reader's number, and  *)
(* what it skips has left the window.                                      *)
LEMMA NextAfterAnswers ==
  ASSUME HubInv, NEW c \in Readers, cursor[c] < sequence
  PROVE  /\ NextAfter(cursor[c]) \in Snapshots
         /\ NextAfter(cursor[c]) /= NoUpdate
         /\ Answers(c, NextAfter(cursor[c]))
  <1> DEFINE a == cursor[c]
             behind == Len(updates) - (sequence - a)
             i == (IF behind > 0 THEN behind ELSE 0) + 1
             k == sequence - Len(updates) + i
  <1>1. /\ a \in Nat /\ sequence \in Nat /\ Len(updates) \in Nat
        /\ Len(history) = sequence /\ Len(updates) <= sequence /\ a < sequence
        /\ Len(updates) >= IF sequence < HistoryLimit THEN sequence ELSE HistoryLimit
    BY LenProperties DEF HubInv, TypeOK, HistoryIsWindow
  <1>2. i \in 1 .. Len(updates) /\ k \in a + 1 .. sequence
    BY <1>1, HubAssumption
  <1>3. updates[i] = [seq |-> k, render |-> history[k]]
    BY <1>2 DEF HubInv, HistoryIsWindow
  <1>4. \A j \in a + 1 .. k - 1 : j <= sequence - HistoryLimit
    BY <1>1, HubAssumption
  <1>5. updates[i] \in Snapshots
    BY <1>2, LenProperties DEF HubInv, TypeOK
  <1>6. NextAfter(a) = updates[i]
    BY DEF NextAfter
  <1>7. k /= 0
    BY <1>1, <1>2
  <1> HIDE DEF i, k, behind
  <1>8. QED
    BY <1>1, <1>2, <1>3, <1>4, <1>5, <1>6, <1>7 DEF Answers, NoUpdate

LEMMA HubInitInv == Init => HubInv
  <1> SUFFICES ASSUME Init PROVE HubInv
    OBVIOUS
  <1>1. Len(updates) = 0 /\ Len(history) = 0
    BY DEF Init
  <1>2. cursor \in [Readers -> Nat]
    BY HubAssumption DEF Init
  <1>3. TypeOK
    BY <1>2 DEF Init, TypeOK, NoUpdate, Snapshots, Ids
  <1>4. HistoryIsWindow
    BY <1>1, HubAssumption DEF Init, HistoryIsWindow
  <1>5. QED
    BY <1>2, <1>3, <1>4 DEF Init, HubInv, NobodyWaitsForThePast, Full,
       PassedRightly, EveryChannelIsAnswered

(* What was answered or passed stays so as the history grows.              *)
LEMMA HistoryGrows ==
  ASSUME HubInv, NEW render \in Ids, history' = Append(history, render)
  PROVE  /\ history' \in Seq(Ids)
         /\ Len(history) \in Nat
         /\ Len(history') = Len(history) + 1
         /\ \A j \in 1 .. Len(history) : history'[j] = history[j]
         /\ history'[Len(history) + 1] = render
  BY AppendProperties, LenProperties DEF HubInv, TypeOK

LEMMA PublishKeepsWindow ==
  ASSUME HubInv, NEW render \in Ids, Publish(render)
  PROVE  /\ HistoryIsWindow'
         /\ updates' \in Seq(Snapshots)
  <1> DEFINE new == [seq |-> sequence + 1, render |-> render]
             us == Append(updates, new)
             old == Len(updates)
  <1>1. new \in Snapshots
    BY DEF HubInv, TypeOK, Snapshots
  <1>2. /\ us \in Seq(Snapshots)
        /\ Len(us) = old + 1
        /\ \A i \in 1 .. old : us[i] = updates[i]
        /\ us[old + 1] = new
    BY <1>1, AppendProperties DEF HubInv, TypeOK
  <1>3. old \in Nat /\ old <= 2 * HistoryLimit /\ old <= sequence /\ sequence \in Nat
    BY LenProperties DEF HubInv, TypeOK, HistoryIsWindow
  <1>4. updates' = Trim(us) /\ sequence' = sequence + 1 /\ history' = Append(history, render)
    BY DEF Publish
  <1> DEFINE kept == Len(Trim(us))
  <1>5. /\ Trim(us) \in Seq(Snapshots)
        /\ kept \in Nat
        /\ kept <= 2 * HistoryLimit
        /\ kept <= old + 1
        /\ kept = old + 1 \/ kept = HistoryLimit
        /\ \A i \in 1 .. kept : Trim(us)[i] = us[old + 1 - kept + i]
    <2>1. us \in Seq(Snapshots) /\ Len(us) <= 2 * HistoryLimit + 1
      BY <1>2, <1>3, HubAssumption
    <2> HIDE DEF us
    <2>2. /\ Trim(us) \in Seq(Snapshots)
          /\ kept \in Nat
          /\ kept <= 2 * HistoryLimit
          /\ kept <= Len(us)
          /\ kept = Len(us) \/ kept = HistoryLimit
          /\ \A i \in 1 .. kept : Trim(us)[i] = us[Len(us) - kept + i]
      BY <2>1, TrimKeepsNewest
    <2> HIDE DEF kept
    <2>3. QED
      BY <1>2, <2>2
  <1>6. /\ Len(history) = sequence
        /\ Len(history') = sequence + 1
        /\ \A j \in 1 .. sequence : history'[j] = history[j]
        /\ history'[sequence + 1] = render
    BY <1>4, HistoryGrows DEF HubInv, HistoryIsWindow
  <1>7. \A i \in 1 .. old : updates[i] =
           [seq |-> sequence - old + i, render |-> history[sequence - old + i]]
    BY DEF HubInv, HistoryIsWindow
  <1> HIDE DEF us, old, kept
  <1>8. ASSUME NEW i \in 1 .. kept
        PROVE  Trim(us)[i] = [seq |-> sequence + 1 - kept + i,
                              render |-> history'[sequence + 1 - kept + i]]
    <2> DEFINE p == old + 1 - kept + i
    <2>1. p \in 1 .. old + 1 /\ Trim(us)[i] = us[p]
      BY <1>3, <1>5, <1>8
    <2>2. CASE p = old + 1
      <3>1. sequence + 1 - kept + i = sequence + 1
        BY <1>3, <1>5, <2>2
      <3>2. QED
        BY <2>1, <2>2, <3>1, <1>2, <1>6
    <2>3. CASE p \in 1 .. old
      <3>1. sequence - old + p = sequence + 1 - kept + i /\ sequence - old + p \in 1 .. sequence
        BY <1>3, <1>5, <2>3
      <3>2. QED
        BY <2>1, <2>3, <3>1, <1>2, <1>6, <1>7
    <2>4. QED
      BY <2>1, <2>2, <2>3, <1>3
  <1>9. kept >= IF sequence + 1 < HistoryLimit THEN sequence + 1 ELSE HistoryLimit
    <2>1. old >= IF sequence < HistoryLimit THEN sequence ELSE HistoryLimit
      BY DEF HubInv, HistoryIsWindow, old
    <2>2. QED
      BY <2>1, <1>3, <1>5, HubAssumption
  <1>10. Len(updates') = kept
    BY <1>4 DEF kept
  <1>11. \A i \in 1 .. Len(updates') :
           updates'[i] = [seq |-> sequence' - Len(updates') + i,
                          render |-> history'[sequence' - Len(updates') + i]]
    <2>1. updates' = Trim(us) /\ sequence' - Len(updates') = sequence + 1 - kept
      BY <1>3, <1>4, <1>5, <1>10
    <2>2. QED
      BY <1>8, <1>10, <2>1
  <1>12. /\ Len(history') = sequence'
         /\ Len(updates') <= 2 * HistoryLimit
         /\ Len(updates') <= sequence'
         /\ Len(updates') >= IF sequence' < HistoryLimit THEN sequence' ELSE HistoryLimit
    BY <1>3, <1>4, <1>5, <1>6, <1>9, <1>10
  <1>13. QED
    BY <1>4, <1>5, <1>11, <1>12 DEF HistoryIsWindow

(* What an update answers, it still answers after a publish.               *)
LEMMA AnswersGrow ==
  ASSUME HubInv, NEW render \in Ids, Publish(render),
         NEW c \in Readers, NEW u \in Snapshots, Answers(c, u)
  PROVE  Answers(c, u)'
  <1>1. /\ Len(history) \in Nat
        /\ Len(history') = Len(history) + 1
        /\ \A j \in 1 .. Len(history) : history'[j] = history[j]
    BY HistoryGrows DEF Publish
  <1>2. cursor' = cursor /\ cursor[c] \in Nat /\ u.seq \in Nat
    BY DEF Publish, readerVars, HubInv, TypeOK, Snapshots
  <1>3. u.seq \in 1 .. Len(history)
    BY <1>1, <1>2 DEF Answers
  <1>4. QED
    BY <1>1, <1>2, <1>3, HubAssumption DEF Answers

LEMMA PublishInv ==
  ASSUME HubInv, NEW render \in Ids, Publish(render)
  PROVE  HubInv'
  <1> DEFINE new == [seq |-> sequence + 1, render |-> render]
             ready == {w \in waiters : sequence + 1 > w.after}
  <1>1. /\ UNCHANGED <<box, at, cursor, seen, wants>>
        /\ sequence' = sequence + 1
        /\ waiters' = waiters \ ready
        /\ sending' = sending \cup {[reader |-> w.reader, snapshot |-> new] : w \in ready}
    BY DEF Publish, readerVars
  <1>2. /\ TypeOK
        /\ sequence \in Nat
        /\ waiters \subseteq [reader : Readers, after : Nat]
        /\ Len(history) = sequence
        /\ \A w \in waiters : w.after >= sequence
    BY DEF HubInv, TypeOK, HistoryIsWindow, NobodyWaitsForThePast
  <1>3. new \in Snapshots
    BY <1>2 DEF Snapshots
  <1>4. /\ history' \in Seq(Ids)
        /\ Len(history') = sequence + 1
        /\ \A j \in 1 .. sequence : history'[j] = history[j]
        /\ history'[sequence + 1] = render
    BY <1>2, HistoryGrows DEF Publish
  <1>5. HistoryIsWindow' /\ updates' \in Seq(Snapshots)
    BY PublishKeepsWindow
  <1>6. TypeOK'
    <2>1. sending' \subseteq [reader : Readers, snapshot : Snapshots]
      BY <1>1, <1>2, <1>3 DEF TypeOK
    <2>2. QED
      BY <1>1, <1>2, <1>4, <1>5, <2>1 DEF TypeOK
  <1>7. NobodyWaitsForThePast'
    BY <1>1, <1>2 DEF NobodyWaitsForThePast
  <1>8. ASSUME NEW c \in Readers, cursor[c] = sequence, NEW u, u = new
        PROVE  Answers(c, u)'
    <2>1. u.seq = sequence + 1 /\ u.render = render /\ cursor'[c] = sequence
      BY <1>1, <1>8
    <2>2. u.seq \in cursor'[c] + 1 .. Len(history') /\ history'[u.seq] = render
      BY <1>2, <1>4, <2>1
    <2>3. cursor'[c] + 1 .. u.seq - 1 = {}
      BY <1>2, <2>1
    <2>4. QED
      BY <2>1, <2>2, <2>3 DEF Answers
  <1>9. ASSUME NEW w \in waiters' PROVE InLine(w)'
    <2>1. w \in waiters /\ w \notin ready /\ w.reader \in Readers
      BY <1>1, <1>2, <1>9
    <2>2. InLine(w)
      BY <2>1 DEF HubInv
    <2>3. ASSUME at[w.reader] = "waiting", NEW s \in sending'
          PROVE  s.reader /= w.reader
      <3>1. CASE s \in sending
        BY <2>2, <2>3, <3>1 DEF InLine
      <3>2. ASSUME NEW v \in ready, s = [reader |-> v.reader, snapshot |-> new],
                   v.reader = w.reader
            PROVE  FALSE
        <4>1. InLine(v) /\ v \in waiters
          BY <3>2 DEF HubInv
        <4>2. v.after = w.after
          BY <2>2, <2>3, <3>2, <4>1 DEF InLine
        <4>3. QED
          BY <2>1, <3>2, <4>2, <4>1
      <3>3. QED
        BY <1>1, <2>3, <3>1, <3>2
    <2>4. QED
      BY <1>1, <2>2, <2>3 DEF InLine
  <1>10. ASSUME NEW s \in sending' PROVE Owed(s)'
    <2>1. CASE s \in sending
      <3>1. Owed(s) /\ s.reader \in Readers /\ s.snapshot \in Snapshots
        BY <1>2, <2>1 DEF HubInv, TypeOK
      <3>2. ASSUME at[s.reader] = "waiting", NEW v \in ready PROVE v.reader /= s.reader
        BY <2>1, <3>2 DEF HubInv, InLine
      <3>3. ASSUME at[s.reader] = "waiting" PROVE Answers(s.reader, s.snapshot)'
        BY <3>1, <3>3, AnswersGrow DEF Owed
      <3>4. QED
        BY <1>1, <3>1, <3>2, <3>3 DEF Owed
    <2>2. ASSUME NEW v \in ready, s = [reader |-> v.reader, snapshot |-> new]
          PROVE  Owed(s)'
      <3>1. InLine(v) /\ v \in waiters /\ v.reader \in Readers /\ v.after \in Nat
        BY <1>2, <2>2 DEF HubInv
      <3>2. v.after = sequence
        BY <1>2, <3>1, <2>2
      <3>3. s.reader = v.reader /\ s.snapshot = new
        BY <2>2
      <3>4. ASSUME at[s.reader] = "waiting" PROVE Answers(s.reader, s.snapshot)'
        BY <1>8, <3>1, <3>2, <3>3, <3>4 DEF InLine
      <3>5. ASSUME at[s.reader] = "waiting", NEW t \in sending', t.reader = s.reader
            PROVE  t = s
        BY <1>1, <2>2, <3>1, <3>5 DEF InLine
      <3>6. at[s.reader] \in {"waiting", "done"}
            /\ (at[s.reader] = "waiting" => box[s.reader] = NoUpdate)
        BY <3>1, <3>3 DEF InLine
      <3>7. QED
        BY <1>1, <3>4, <3>5, <3>6 DEF Owed
    <2>3. QED
      BY <1>1, <1>10, <2>1, <2>2
  <1>11. ASSUME NEW c \in Readers PROVE Full(c)' /\ PassedRightly(c)'
    <2>1. Full(c) /\ PassedRightly(c) /\ box[c] \in Snapshots
      BY <1>2 DEF HubInv, TypeOK
    <2>2. Full(c)'
      BY <1>1, <2>1, AnswersGrow DEF Full
    <2>3. seen[c] \in Nat /\ cursor[c] \in Nat
      BY <1>2 DEF TypeOK
    <2>4. PassedRightly(c)'
      BY <1>1, <1>2, <1>4, <2>1, <2>3, HubAssumption DEF PassedRightly, Matches
    <2>5. QED
      BY <2>2, <2>4
  <1>12. EveryChannelIsAnswered'
    <2> SUFFICES ASSUME NEW c \in Readers, at[c] = "waiting"
                 PROVE  \/ box[c] /= NoUpdate
                        \/ \E w \in waiters' : w.reader = c
                        \/ \E s \in sending' : s.reader = c
      BY <1>1 DEF EveryChannelIsAnswered
    <2>1. \/ box[c] /= NoUpdate
          \/ \E w \in waiters : w.reader = c
          \/ \E s \in sending : s.reader = c
      BY DEF HubInv, EveryChannelIsAnswered
    <2>2. ASSUME NEW w \in ready PROVE \E s \in sending' : s.reader = w.reader
      <3>1. [reader |-> w.reader, snapshot |-> new] \in sending'
        BY <1>1, <2>2
      <3>2. QED
        BY <3>1
    <2>3. QED
      BY <1>1, <2>1, <2>2
  <1>13. QED
    BY <1>5, <1>6, <1>7, <1>9, <1>10, <1>11, <1>12 DEF HubInv

(* A step that publishes nothing keeps the hub's own invariants, and what  *)
(* was answered stands while the reader's cursor does.                     *)
LEMMA QuietStep ==
  ASSUME HubInv, UNCHANGED <<sequence, updates, history>>
  PROVE  /\ HistoryIsWindow'
         /\ \A c, u : cursor'[c] = cursor[c] /\ Answers(c, u) => Answers(c, u)'
         /\ \A c : UNCHANGED <<cursor, seen, wants>> /\ PassedRightly(c) => PassedRightly(c)'
  BY DEF HubInv, HistoryIsWindow, Answers, PassedRightly

LEMMA SendInv ==
  ASSUME HubInv, NEW s \in sending, Send(s)
  PROVE  HubInv'
  <1>1. /\ UNCHANGED <<sequence, updates, waiters, history, at, cursor, seen, wants>>
        /\ sending' = sending \ {s}
        /\ box' = IF at[s.reader] = "waiting"
                  THEN [box EXCEPT ![s.reader] = s.snapshot] ELSE box
    BY DEF Send
  <1>2. /\ TypeOK
        /\ s.reader \in Readers /\ s.snapshot \in Snapshots
        /\ Owed(s)
    BY DEF HubInv, TypeOK
  <1>3. HistoryIsWindow' /\ \A c, u : Answers(c, u) => Answers(c, u)'
    BY <1>1, QuietStep
  <1>4. TypeOK' /\ NobodyWaitsForThePast'
    <2>1. NobodyWaitsForThePast'
      BY <1>1 DEF HubInv, NobodyWaitsForThePast
    <2>2. box' \in [Readers -> Snapshots]
      BY <1>1, <1>2 DEF TypeOK
    <2>3. QED
      BY <1>1, <1>2, <2>1, <2>2 DEF TypeOK
  <1>5. ASSUME NEW w \in waiters PROVE InLine(w)'
    BY <1>1, <1>2 DEF HubInv, TypeOK, InLine
  <1>6. ASSUME NEW t \in sending' PROVE Owed(t)'
    <2>1. Owed(t) /\ t \in sending /\ t /= s
      BY <1>1, <1>6 DEF HubInv
    <2>2. at[t.reader] = "waiting" => t.reader /= s.reader
      BY <2>1, <1>2 DEF Owed
    <2>3. QED
      BY <1>1, <1>2, <1>3, <2>1, <2>2 DEF Owed, TypeOK
  <1>7. ASSUME NEW c \in Readers PROVE Full(c)' /\ PassedRightly(c)'
    <2>1. Full(c) /\ PassedRightly(c)
      BY DEF HubInv
    <2>2. PassedRightly(c)'
      BY <1>1, <2>1, QuietStep
    <2>3. CASE at[c] = "waiting" /\ c = s.reader
      <3>1. box'[c] = s.snapshot /\ at'[c] = "waiting"
        BY <1>1, <1>2, <2>3 DEF TypeOK
      <3>2. Answers(c, s.snapshot)
        BY <1>2, <2>3 DEF Owed
      <3>3. Full(c)'
        BY <1>1, <3>1, <3>2 DEF Full, Answers
      <3>4. QED
        BY <2>2, <3>3
    <2>4. CASE at[c] /= "waiting" \/ c /= s.reader
      <3>1. box'[c] = box[c] /\ at'[c] = at[c]
        BY <1>1, <1>2, <2>4 DEF TypeOK
      <3>2. Full(c)'
        BY <1>1, <2>1, <3>1 DEF Full, Answers
      <3>3. QED
        BY <2>2, <3>2
    <2>5. QED
      BY <2>3, <2>4
  <1>8. EveryChannelIsAnswered'
    <2> SUFFICES ASSUME NEW c \in Readers, at[c] = "waiting"
                 PROVE  \/ box'[c] /= NoUpdate
                        \/ \E w \in waiters : w.reader = c
                        \/ \E t \in sending' : t.reader = c
      BY <1>1 DEF EveryChannelIsAnswered
    <2>1. CASE c = s.reader
      <3>1. Answers(c, s.snapshot) /\ cursor[c] \in Nat
        BY <1>2, <2>1 DEF Owed, TypeOK
      <3>2. s.snapshot.seq /= 0
        BY <3>1 DEF Answers
      <3>3. box'[c] = s.snapshot
        BY <1>1, <1>2, <2>1 DEF TypeOK
      <3>4. QED
        BY <3>2, <3>3 DEF NoUpdate
    <2>2. CASE c /= s.reader
      BY <1>1, <1>2, <2>2 DEF HubInv, EveryChannelIsAnswered, TypeOK
    <2>3. QED
      BY <2>1, <2>2
  <1>9. QED
    BY <1>1, <1>3, <1>4, <1>5, <1>6, <1>7, <1>8 DEF HubInv

LEMMA SubscribeInv ==
  ASSUME HubInv, NEW c \in Readers, Subscribe(c)
  PROVE  HubInv'
  <1>1. /\ at[c] \in {"idle", "looping"}
        /\ at' = [at EXCEPT ![c] = "waiting"]
        /\ UNCHANGED <<sequence, updates, sending, history, cursor, seen, wants>>
        /\ \/ /\ cursor[c] < sequence
              /\ box' = [box EXCEPT ![c] = NextAfter(cursor[c])]
              /\ waiters' = waiters
           \/ /\ cursor[c] >= sequence
              /\ waiters' = waiters \cup {[reader |-> c, after |-> cursor[c]]}
              /\ box' = box
    BY DEF Subscribe
  <1>2. TypeOK /\ cursor[c] \in Nat /\ sequence \in Nat
    BY DEF HubInv, TypeOK
  <1>3. /\ HistoryIsWindow'
        /\ \A d, u : Answers(d, u) => Answers(d, u)'
        /\ \A d : PassedRightly(d) => PassedRightly(d)'
    BY <1>1, QuietStep
  <1>4. /\ \A w \in waiters : w.reader /= c
        /\ \A s \in sending : s.reader /= c
        /\ box[c] = NoUpdate
    BY <1>1 DEF HubInv, InLine, Owed, Full
  <1>5. CASE cursor[c] < sequence
    <2>1. /\ NextAfter(cursor[c]) \in Snapshots
          /\ NextAfter(cursor[c]) /= NoUpdate
          /\ Answers(c, NextAfter(cursor[c]))
      BY <1>5, NextAfterAnswers
    <2> DEFINE next == NextAfter(cursor[c])
    <2>2. PICK u : u = next
      OBVIOUS
    <2>3. box' = [box EXCEPT ![c] = u] /\ waiters' = waiters
      BY <1>1, <1>2, <1>5, <2>2
    <2>4. u \in Snapshots /\ u /= NoUpdate /\ Answers(c, u)'
      BY <1>3, <2>1, <2>2
    <2> HIDE DEF next
    <2>5. TypeOK' /\ NobodyWaitsForThePast'
      <3>1. NobodyWaitsForThePast'
        BY <1>1, <2>3 DEF HubInv, NobodyWaitsForThePast
      <3>2. QED
        BY <1>1, <1>2, <2>3, <2>4, <3>1 DEF TypeOK
    <2>6. \A w \in waiters' : InLine(w)'
      BY <1>1, <1>2, <1>4, <2>3 DEF HubInv, TypeOK, InLine
    <2>7. \A s \in sending' : Owed(s)'
      <3> SUFFICES ASSUME NEW s \in sending PROVE Owed(s)'
        BY <1>1
      <3>1. Owed(s) /\ s.reader /= c /\ s.reader \in Readers
        BY <1>2, <1>4 DEF HubInv, TypeOK
      <3>2. at'[s.reader] = at[s.reader] /\ box'[s.reader] = box[s.reader]
        BY <1>1, <1>2, <2>3, <3>1 DEF TypeOK
      <3>3. QED
        BY <1>1, <1>3, <3>1, <3>2 DEF Owed
    <2>8. \A d \in Readers : Full(d)' /\ PassedRightly(d)'
      BY <1>1, <1>2, <1>3, <2>3, <2>4 DEF HubInv, TypeOK, Full
    <2>9. EveryChannelIsAnswered'
      BY <1>1, <1>2, <2>3, <2>4 DEF HubInv, TypeOK, EveryChannelIsAnswered
    <2>10. QED
      BY <1>3, <2>5, <2>6, <2>7, <2>8, <2>9 DEF HubInv
  <1>6. CASE cursor[c] >= sequence
    <2> DEFINE new == [reader |-> c, after |-> cursor[c]]
    <2>1. box' = box /\ waiters' = waiters \cup {new}
      BY <1>1, <1>2, <1>6
    <2>2. TypeOK'
      BY <1>1, <1>2, <2>1 DEF TypeOK
    <2>3. NobodyWaitsForThePast'
      BY <1>1, <1>6, <2>1 DEF HubInv, NobodyWaitsForThePast
    <2>4. ASSUME NEW w \in waiters' PROVE InLine(w)'
      <3>1. CASE w \in waiters
        BY <1>1, <1>2, <1>4, <2>1, <3>1 DEF HubInv, TypeOK, InLine
      <3>2. CASE w = new
        BY <1>1, <1>2, <1>4, <2>1, <3>2 DEF TypeOK, InLine
      <3>3. QED
        BY <2>1, <2>4, <3>1, <3>2
    <2>5. \A s \in sending' : Owed(s)'
      <3> SUFFICES ASSUME NEW s \in sending PROVE Owed(s)'
        BY <1>1
      <3>1. Owed(s) /\ s.reader /= c /\ s.reader \in Readers
        BY <1>2, <1>4 DEF HubInv, TypeOK
      <3>2. at'[s.reader] = at[s.reader] /\ box'[s.reader] = box[s.reader]
        BY <1>1, <1>2, <2>1, <3>1 DEF TypeOK
      <3>3. QED
        BY <1>1, <1>3, <3>1, <3>2 DEF Owed
    <2>6. \A d \in Readers : Full(d)' /\ PassedRightly(d)'
      BY <1>1, <1>2, <1>3, <1>4, <2>1 DEF HubInv, TypeOK, Full
    <2>7. EveryChannelIsAnswered'
      <3>1. new \in waiters' /\ new.reader = c
        BY <2>1
      <3> HIDE DEF new
      <3>2. \A d \in Readers : at'[d] = "waiting" => d = c \/ at[d] = "waiting"
        BY <1>1, <1>2 DEF TypeOK
      <3>3. QED
        BY <1>1, <2>1, <3>1, <3>2 DEF HubInv, EveryChannelIsAnswered
    <2>8. QED
      BY <1>3, <2>2, <2>3, <2>4, <2>5, <2>6, <2>7 DEF HubInv
  <1>7. QED
    BY <1>2, <1>5, <1>6

LEMMA ReceiveInv ==
  ASSUME HubInv, NEW c \in Readers, Receive(c)
  PROVE  HubInv'
  <1>1. /\ at[c] = "waiting" /\ box[c] /= NoUpdate
        /\ box' = [box EXCEPT ![c] = NoUpdate]
        /\ cursor' = [cursor EXCEPT ![c] = IF box[c].seq > @ THEN box[c].seq ELSE @]
        /\ \/ /\ Matches(wants[c], box[c].render)
              /\ at' = [at EXCEPT ![c] = "idle"]
              /\ seen' = [seen EXCEPT ![c] = box[c].seq]
           \/ /\ ~Matches(wants[c], box[c].render)
              /\ at' = [at EXCEPT ![c] = "looping"]
              /\ seen' = seen
        /\ UNCHANGED <<sequence, updates, waiters, sending, history, wants>>
    BY DEF Receive, hubVars
  <1>2. /\ TypeOK /\ box[c] \in Snapshots /\ cursor[c] \in Nat /\ seen[c] \in Nat
        /\ box[c].seq \in Nat /\ seen[c] <= cursor[c]
        /\ Len(history) \in Nat
    BY LenProperties DEF HubInv, TypeOK, Snapshots
  <1>3. Full(c) /\ Answers(c, box[c]) /\ PassedRightly(c)
    BY <1>1 DEF HubInv, Full
  <1>4. cursor' = [cursor EXCEPT ![c] = box[c].seq]
    <2>1. box[c].seq > cursor[c]
      BY <1>2, <1>3 DEF Answers
    <2>2. QED
      BY <1>1, <2>1
  <1>5. /\ \A w \in waiters : w.reader /= c /\ w.reader \in Readers
        /\ \A s \in sending : s.reader /= c /\ s.reader \in Readers
    BY <1>1, <1>2 DEF HubInv, InLine, Owed, TypeOK
  <1>6. /\ \A d \in Readers \ {c} : /\ at'[d] = at[d] /\ box'[d] = box[d]
                                   /\ cursor'[d] = cursor[d] /\ seen'[d] = seen[d]
        /\ at'[c] \in {"idle", "looping"} /\ box'[c] = NoUpdate
        /\ cursor'[c] = box[c].seq
        /\ seen'[c] \in {seen[c], box[c].seq}
    BY <1>1, <1>2, <1>4 DEF TypeOK
  <1>7. HistoryIsWindow' /\ NobodyWaitsForThePast'
    BY <1>1 DEF HubInv, HistoryIsWindow, NobodyWaitsForThePast
  <1>8. TypeOK'
    <2>1. NoUpdate \in Snapshots
      BY DEF NoUpdate, Snapshots, Ids
    <2>2. \A d \in Readers : seen'[d] <= cursor'[d]
      BY <1>2, <1>3, <1>6 DEF TypeOK, Answers
    <2>3. /\ box' \in [Readers -> Snapshots] /\ cursor' \in [Readers -> Nat]
          /\ seen' \in [Readers -> Nat]
          /\ at' \in [Readers -> {"idle", "looping", "waiting", "done"}]
      BY <1>1, <1>2, <1>4, <2>1 DEF TypeOK
    <2>4. QED
      BY <1>1, <1>2, <2>2, <2>3 DEF TypeOK
  <1>9. \A w \in waiters' : InLine(w)'
    BY <1>1, <1>5, <1>6 DEF HubInv, InLine
  <1>10. \A s \in sending' : Owed(s)'
    <2> SUFFICES ASSUME NEW s \in sending PROVE Owed(s)'
      BY <1>1
    <2>1. Owed(s) /\ s.reader \in Readers \ {c}
      BY <1>5 DEF HubInv
    <2>2. Answers(s.reader, s.snapshot) => Answers(s.reader, s.snapshot)'
      BY <1>1, <1>6, <2>1 DEF Answers
    <2>3. QED
      BY <1>1, <1>6, <2>1, <2>2 DEF Owed
  <1>11. ASSUME NEW d \in Readers \ {c} PROVE Full(d)' /\ PassedRightly(d)'
    BY <1>1, <1>6, <1>11 DEF HubInv, Full, Answers, PassedRightly
  <1>12. Full(c)'
    BY <1>6 DEF Full
  <1>13. PassedRightly(c)'
    <2>1. CASE seen'[c] = box[c].seq
      BY <1>2, <1>6, <2>1 DEF PassedRightly
    <2>2. CASE ~Matches(wants[c], box[c].render) /\ seen' = seen
      <3>1. ASSUME NEW j \in seen[c] + 1 .. box[c].seq
            PROVE  /\ j <= Len(history)
                   /\ Matches(wants[c], history[j]) => j <= Len(history) - HistoryLimit
        <4>1. CASE j <= cursor[c]
          BY <1>2, <1>3, <3>1, <4>1 DEF PassedRightly
        <4>2. CASE j > cursor[c] /\ j < box[c].seq
          BY <1>2, <1>3, <3>1, <4>2, HubAssumption DEF Answers
        <4>3. CASE j = box[c].seq
          BY <1>2, <1>3, <2>2, <4>3 DEF Answers
        <4>4. QED
          BY <1>2, <3>1, <4>1, <4>2, <4>3
      <3>2. QED
        BY <1>1, <1>6, <2>2, <3>1 DEF PassedRightly
    <2>3. QED
      BY <1>1, <1>2, <2>1, <2>2 DEF TypeOK
  <1>14. EveryChannelIsAnswered'
    BY <1>1, <1>6 DEF HubInv, EveryChannelIsAnswered
  <1>15. QED
    BY <1>7, <1>8, <1>9, <1>10, <1>11, <1>12, <1>13, <1>14 DEF HubInv

LEMMA GiveUpInv ==
  ASSUME HubInv, NEW c \in Readers, GiveUp(c)
  PROVE  HubInv'
  <1>1. /\ at[c] = "waiting"
        /\ at' = [at EXCEPT ![c] = "done"]
        /\ box' = [box EXCEPT ![c] = NoUpdate]
        /\ UNCHANGED <<sequence, updates, waiters, sending, history, cursor, seen, wants>>
    BY DEF GiveUp, hubVars
  <1>2. TypeOK
    BY DEF HubInv
  <1>3. /\ HistoryIsWindow'
        /\ \A d, u : Answers(d, u) => Answers(d, u)'
        /\ \A d : PassedRightly(d) => PassedRightly(d)'
    BY <1>1, QuietStep
  <1>4. /\ \A d \in Readers \ {c} : at'[d] = at[d] /\ box'[d] = box[d]
        /\ at'[c] = "done" /\ box'[c] = NoUpdate
    BY <1>1, <1>2 DEF TypeOK
  <1>5. TypeOK' /\ NobodyWaitsForThePast'
    <2>1. NoUpdate \in Snapshots
      BY DEF NoUpdate, Snapshots, Ids
    <2>2. NobodyWaitsForThePast'
      BY <1>1 DEF HubInv, NobodyWaitsForThePast
    <2>3. QED
      BY <1>1, <1>2, <2>1, <2>2 DEF TypeOK
  <1>6. \A w \in waiters' : InLine(w)'
    BY <1>1, <1>2, <1>4 DEF HubInv, TypeOK, InLine
  <1>7. \A s \in sending' : Owed(s)'
    <2> SUFFICES ASSUME NEW s \in sending PROVE Owed(s)'
      BY <1>1
    <2>1. Owed(s) /\ s.reader \in Readers
      BY <1>2 DEF HubInv, TypeOK
    <2>2. CASE s.reader = c
      BY <1>4, <2>2 DEF Owed
    <2>3. CASE s.reader /= c
      BY <1>1, <1>3, <1>4, <2>1, <2>3 DEF Owed
    <2>4. QED
      BY <2>2, <2>3
  <1>8. \A d \in Readers : Full(d)'
    BY <1>1, <1>4 DEF HubInv, Full, Answers
  <1>9. \A d \in Readers : PassedRightly(d)'
    BY <1>3 DEF HubInv
  <1>10. EveryChannelIsAnswered'
    BY <1>1, <1>4 DEF HubInv, EveryChannelIsAnswered
  <1>11. QED
    BY <1>3, <1>5, <1>6, <1>7, <1>8, <1>9, <1>10 DEF HubInv

LEMMA HubStepInv == HubInv /\ [Next]_vars => HubInv'
  <1> SUFFICES ASSUME HubInv, [Next]_vars PROVE HubInv'
    OBVIOUS
  <1>1. CASE UNCHANGED vars
    BY <1>1 DEF vars, hubVars, readerVars, HubInv, TypeOK, HistoryIsWindow,
       NobodyWaitsForThePast, EveryChannelIsAnswered, InLine, Owed, Full,
       PassedRightly, Answers
  <1>2. QED
    BY <1>1, PublishInv, SendInv, SubscribeInv, ReceiveInv, GiveUpInv DEF Next

(* The retained updates are the newest published, in order and without a   *)
(* gap, whatever the limit and however many renders publish.               *)
THEOREM HubKeepsOrder == Spec => []HistoryIsWindow
  <1>1. HubInv => HistoryIsWindow
    BY DEF HubInv
  <1>2. QED
    BY <1>1, HubInitInv, HubStepInv, PTL DEF Spec

(* Nobody stands in line for an update that is already published, so no    *)
(* wakeup is missed.                                                       *)
THEOREM HubWakesEveryone == Spec => []NobodyWaitsForThePast
  <1>1. HubInv => NobodyWaitsForThePast
    BY DEF HubInv
  <1>2. QED
    BY <1>1, HubInitInv, HubStepInv, PTL DEF Spec

(* A relay blocked on its channel is in line, owed a send, or answered.    *)
THEOREM HubLosesNobody == Spec => []EveryChannelIsAnswered
  <1>1. HubInv => EveryChannelIsAnswered
    BY DEF HubInv
  <1>2. QED
    BY <1>1, HubInitInv, HubStepInv, PTL DEF Spec

(* The initial states and every step of the hub and its relays are those   *)
(* of the abstract update stream: a publish appends, a relay that returns  *)
(* delivers, and every other step is invisible to the clients.             *)
LEMMA HubStartsLikeLog == Init => Log!LogInit
  BY HubAssumption DEF Init, Log!LogInit, Ids

LEMMA ReceiveDelivers ==
  ASSUME HubInv, NEW c \in Readers, Receive(c), Matches(wants[c], box[c].render)
  PROVE  \E k \in 1 .. Len(history) : Log!Deliver(c, k)
  <1> DEFINE k == box[c].seq
  <1>1. /\ seen' = [seen EXCEPT ![c] = k]
        /\ UNCHANGED <<history, wants>>
        /\ Answers(c, box[c]) /\ PassedRightly(c)
    BY DEF Receive, hubVars, HubInv, Full
  <1>2. /\ cursor[c] \in Nat /\ seen[c] \in Nat /\ seen[c] <= cursor[c]
        /\ Len(history) \in Nat
    BY LenProperties DEF HubInv, TypeOK
  <1>3. k \in 1 .. Len(history) /\ k > seen[c] /\ history[k] = box[c].render
    BY <1>1, <1>2 DEF Answers
  <1>4. ASSUME NEW j \in seen[c] + 1 .. k - 1
        PROVE  ~Matches(wants[c], history[j]) \/ j <= Len(history) - HistoryLimit
    BY <1>1, <1>2, <1>4 DEF Answers, PassedRightly
  <1> HIDE DEF k
  <1>5. Log!Deliver(c, k)
    BY <1>1, <1>3, <1>4 DEF Log!Deliver, Log!Follows, Matches
  <1>6. QED
    BY <1>3, <1>5

LEMMA HubStepsLikeLog ==
  HubInv /\ [Next]_vars => [Log!LogNext]_(Log!logVars)
  <1> SUFFICES ASSUME HubInv, [Next]_vars
               PROVE  Log!LogNext \/ UNCHANGED Log!logVars
    OBVIOUS
  <1>1. ASSUME NEW render \in Ids, Publish(render) PROVE Log!LogNext
    BY <1>1 DEF Publish, readerVars, Log!LogNext, Log!Append1, Ids
  <1>2. ASSUME NEW s \in sending, Send(s) PROVE UNCHANGED Log!logVars
    BY <1>2 DEF Send, Log!logVars
  <1>3. ASSUME NEW c \in Readers, Subscribe(c) PROVE UNCHANGED Log!logVars
    BY <1>3 DEF Subscribe, Log!logVars
  <1>4. ASSUME NEW c \in Readers, Receive(c)
        PROVE  Log!LogNext \/ UNCHANGED Log!logVars
    <2>1. CASE Matches(wants[c], box[c].render)
      BY <1>4, <2>1, ReceiveDelivers DEF Log!LogNext
    <2>2. CASE ~Matches(wants[c], box[c].render)
      BY <1>4, <2>2 DEF Receive, hubVars, Log!logVars
    <2>3. QED
      BY <2>1, <2>2
  <1>5. ASSUME NEW c \in Readers, GiveUp(c) PROVE UNCHANGED Log!logVars
    BY <1>5 DEF GiveUp, hubVars, Log!logVars
  <1>6. CASE UNCHANGED vars
    BY <1>6 DEF vars, hubVars, readerVars, Log!logVars
  <1>7. QED
    BY <1>1, <1>2, <1>3, <1>4, <1>5, <1>6 DEF Next

(* The hub and its relays implement the update stream the clients are      *)
(* promised.                                                               *)
THEOREM HubImplementsLog == Spec => ImplementsLog
  <1>1. Spec => []HubInv
    BY HubInitInv, HubStepInv, PTL DEF Spec
  <1>2. QED
    BY <1>1, HubStartsLikeLog, HubStepsLikeLog, PTL DEF Spec, ImplementsLog, Log!LogSpec
=============================================================================
