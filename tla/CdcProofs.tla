----------------------------- MODULE CdcProofs -----------------------------
(***************************************************************************)
(* Theorems about Cdc, for any documents and sinks, any length of the      *)
(* stream and any number of stops, faults and changes of the sinks.        *)
(***************************************************************************)
EXTENDS Cdc, SequenceTheorems, FiniteSetTheorems, TLAPS

USE CdcAssumption

ChangeEvent == [kind : {"Updated", "Removed"}, doc : Docs, version : Versions]

\* The change an event tells of.
ChangeOf(e) == <<e.doc, e.version>>

\* The task has a change in hand.
Working == pc \in {"get_cursor", "list_sinks", "deliver", "set_cursor"}

\* An event is the Initial one or tells of a change.
LEMMA EventKinds ==
    ASSUME NEW e \in Events
    PROVE  \/ e.kind = "Initial"
           \/ /\ e.kind \in {"Updated", "Removed"} /\ e.doc \in Docs /\ e.version \in Nat
              /\ ChangeOf(e) \in Changes
BY DEF Events, Versions, Changes, ChangeOf

\* recv takes the first event off the channel and leaves the rest as it is.
LEMMA WithoutFirst ==
    ASSUME NEW S, NEW s \in Seq(S), s # <<>>
    PROVE  /\ s[1] \in S
           /\ Without(s, 1) \in Seq(S)
           /\ Len(Without(s, 1)) = Len(s) - 1
           /\ \A i \in 1..Len(Without(s, 1)) : Without(s, 1)[i] = s[i + 1] /\ i + 1 \in 1..Len(s)
<1>1. Len(s) \in Nat \ {0} /\ \A i \in 1..Len(s) : s[i] \in S
  OBVIOUS
<1>2. SubSeq(s, 1, 0) = <<>>
  BY SubSeqEmpty
<1>3. PICK n \in Nat \ {0} : n = Len(s)
  BY <1>1
<1>4. /\ SubSeq(s, 2, n) \in Seq(S)
      /\ Len(SubSeq(s, 2, n)) = n - 1
      /\ \A i \in 1..n - 1 : SubSeq(s, 2, n)[i] = s[i + 1]
  <2>1. \A i \in 2..n : s[i] \in S
    BY <1>1, <1>3
  <2>2. /\ SubSeq(s, 2, n) \in Seq(S)
        /\ Len(SubSeq(s, 2, n)) = IF 2 <= n THEN n - 2 + 1 ELSE 0
        /\ \A i \in 1..n - 2 + 1 : SubSeq(s, 2, n)[i] = s[2 + i - 1]
    BY <2>1, SubSeqProperties
  <2>3. \A i \in 1..n - 1 : i \in 1..n - 2 + 1 /\ 2 + i - 1 = i + 1
    OBVIOUS
  <2> QED
    BY <2>2, <2>3
<1>5. Without(s, 1) = SubSeq(s, 2, n)
  <2>1. Without(s, 1) = SubSeq(s, 1, 0) \o SubSeq(s, 2, n)
    BY <1>3 DEF Without
  <2> QED
    BY <1>2, <1>4, <2>1, ConcatEmptySeq
<1>6. \A i \in 1..n - 1 : i + 1 \in 1..n
  OBVIOUS
<1>7. s[1] \in S
  BY <1>1, <1>3
<1> HIDE DEF Without
<1> QED
  BY <1>3, <1>4, <1>5, <1>6, <1>7

-----------------------------------------------------------------------------
(* Types.                                                                   *)

TInv ==
    /\ TypeOK
    /\ Working => event.kind # "Initial"

\* The gateway starts with an empty document store and no task.
LEMMA TypeInit == Init => TInv
<1> SUFFICES ASSUME Init PROVE TInv
  OBVIOUS
<1>1. stream \in Seq(Events) /\ event \in Events
  BY DEF Init, NoEvent, Events
<1>2. sinks \in [Sinks -> SinkRows] /\ pc \in Steps /\ ~Working
  BY DEF Init, SinkRows, Steps, Working
<1>3. open \in BOOLEAN /\ handle \in BOOLEAN
  BY Zenon DEF Init
<1>4. /\ version \in [Docs -> Versions] /\ removed \subseteq Docs /\ todo \subseteq Sinks
      /\ attempt \in 0..MaxRetries /\ cursors \in [Docs -> Versions] /\ late \subseteq Changes
      /\ stops \in Nat /\ ends \in Nat /\ published \subseteq Changes
      /\ received \in [Sinks -> SUBSET Changes] /\ newest \in [Sinks -> [Docs -> Versions]]
      /\ strays \in [Sinks -> SUBSET Changes]
  BY DEF Init, Versions
<1> QED
  BY <1>1, <1>2, <1>3, <1>4 DEF TInv, TypeOK

\* What the task has in hand is a change.
LEMMA InHand ==
    ASSUME TInv, Working
    PROVE  /\ event.doc \in Docs /\ event.version \in Versions /\ event.version \in Nat
           /\ ChangeOf(event) \in Changes
BY EventKinds DEF TInv, TypeOK, Versions

\* What sending it to a sink changes.
LEMMA SentEffect ==
    ASSUME TInv, Working, NEW s \in Sinks, Sent(s)
    PROVE  /\ received' \in [Sinks -> SUBSET Changes]
           /\ newest' \in [Sinks -> [Docs -> Versions]]
           /\ strays' \in [Sinks -> SUBSET Changes]
           /\ \A x \in Sinks, d \in Docs :
                 newest'[x][d] = IF x = s /\ d = event.doc THEN event.version ELSE newest[x][d]
           /\ \A x \in Sinks : \/ strays'[x] = strays[x]
                               \/ /\ x = s /\ s \notin enabled
                                  /\ strays'[x] = strays[x] \cup {ChangeOf(event)}
<1>1. event.doc \in Docs /\ event.version \in Versions /\ <<event.doc, event.version>> \in Changes
  BY InHand DEF ChangeOf
<1>2. /\ received \in [Sinks -> SUBSET Changes] /\ newest \in [Sinks -> [Docs -> Versions]]
      /\ strays \in [Sinks -> SUBSET Changes]
  BY DEF TInv, TypeOK
<1>3. received' \in [Sinks -> SUBSET Changes]
  BY <1>1, <1>2 DEF Sent
<1>4. newest' = [newest EXCEPT ![s] = [newest[s] EXCEPT ![event.doc] = event.version]]
  BY DEF Sent
<1>5. [newest[s] EXCEPT ![event.doc] = event.version] \in [Docs -> Versions]
  BY <1>1, <1>2
<1>6. newest' \in [Sinks -> [Docs -> Versions]]
  BY <1>2, <1>4, <1>5
<1>7. \A x \in Sinks, d \in Docs :
          newest'[x][d] = IF x = s /\ d = event.doc THEN event.version ELSE newest[x][d]
  BY <1>2, <1>4
<1>8. CASE s \in enabled
  BY <1>2, <1>3, <1>6, <1>7, <1>8 DEF Sent
<1>9. CASE s \notin enabled
  <2>1. strays' = [strays EXCEPT ![s] = @ \cup {<<event.doc, event.version>>}]
    BY <1>9 DEF Sent
  <2>2. strays' \in [Sinks -> SUBSET Changes]
    BY <1>1, <1>2, <2>1
  <2>3. \A x \in Sinks : \/ strays'[x] = strays[x]
                         \/ x = s /\ strays'[x] = strays[x] \cup {ChangeOf(event)}
    BY <1>2, <2>1 DEF ChangeOf
  <2> QED
    BY <1>3, <1>6, <1>7, <1>9, <2>2, <2>3
<1> QED
  BY <1>8, <1>9

\* What an attempt at a sink changes.
LEMMA DeliveryEffect ==
    ASSUME TInv, NEW s \in Sinks, DeliverOk(s) \/ DeliverError(s) \/ DeliverRefused(s)
    PROVE  /\ pc = "deliver" /\ Working /\ Working'
           /\ s \in todo /\ todo' \subseteq todo /\ attempt' \in 0..MaxRetries
           /\ UNCHANGED <<docstore, handle, pc, event, cursors, late, sinks, bounds, published>>
           /\ Sent(s) \/ Unsent
<1>1. pc = "deliver" /\ s \in todo /\ Working /\ pc' = pc
  BY DEF DeliverOk, DeliverError, DeliverRefused, Serving, Working
<1>2. /\ UNCHANGED <<docstore, handle, pc, event, cursors, late, sinks, bounds, published>>
      /\ Sent(s) \/ Unsent
  BY DEF DeliverOk, DeliverError, DeliverRefused, history, Unsent
<1>3. \/ todo' = todo \ {s} /\ attempt' = 0
      \/ todo' = todo /\ attempt' = attempt + 1 /\ attempt < MaxRetries
  BY DEF DeliverOk, DeliverError, DeliverRefused, SinkDone, MayRetry
<1>4. attempt \in 0..MaxRetries
  BY DEF TInv, TypeOK
<1>5. attempt' \in 0..MaxRetries
  BY <1>3, <1>4
<1> QED
  BY <1>1, <1>2, <1>3, <1>5 DEF Working

\* What becomes of the event a recv takes.
LEMMA RecvEffect ==
    ASSUME TInv, Recv
    PROVE  /\ event' = stream[1] /\ event' \in Events
           /\ stream' \in Seq(Events) /\ Len(stream') = Len(stream) - 1
           /\ \A i \in 1..Len(stream') : stream'[i] = stream[i + 1] /\ i + 1 \in 1..Len(stream)
           /\ \/ event'.kind = "Initial" /\ pc' = "recv"
              \/ event'.kind # "Initial" /\ pc' \in {"get_cursor", "list_sinks"}
<1>1. stream \in Seq(Events) /\ stream # <<>>
  BY DEF Recv, TInv, TypeOK
<1>2. event' = stream[1] /\ pc' = FirstStep(stream[1]) /\ stream' = Without(stream, 1)
  BY DEF Recv, NextIndex
<1>3. stream[1] \in Events
  BY <1>1
<1>4. \/ stream[1].kind = "Initial" /\ pc' = "recv"
      \/ stream[1].kind # "Initial" /\ pc' \in {"get_cursor", "list_sinks"}
  BY <1>2, <1>3, EventKinds DEF FirstStep
<1> QED
  BY <1>1, <1>2, <1>3, <1>4, WithoutFirst

\* Attempts stay within MAX_RETRIES and an Initial event is never worked on.
LEMMA TypeStep == TInv /\ [Next]_vars => TInv'
<1> SUFFICES ASSUME TInv, [Next]_vars PROVE TInv'
  OBVIOUS
<1> USE DEF TInv, TypeOK
<1>1. CASE UNCHANGED vars
  BY <1>1 DEF vars, docstore, task, bounds, history, Working
<1>2. ASSUME NEW d \in Docs, NEW e, UNCHANGED <<open, handle, task, cursors, late, sinks, bounds, history>>,
             Emit(e), e \in Events, version' \in [Docs -> Versions], removed' \subseteq Docs
      PROVE  TInv'
  <2>1. stream' \in Seq(Events)
    BY <1>2, AppendProperties DEF Emit
  <2> QED
    BY <1>2, <2>1 DEF task, bounds, history, Working
<1>3. ASSUME NEW d \in Docs, NEW kind \in {"Updated", "Removed"}, Change(d, kind)
      PROVE  TInv'
  <2>1. version[d] + 1 \in Versions
    BY DEF Versions
  <2>2. [kind |-> kind, doc |-> d, version |-> version[d] + 1] \in Events
    BY <2>1 DEF Events
  <2>3. version' \in [Docs -> Versions] /\ removed' \subseteq Docs
    BY <1>3, <2>1 DEF Change
  <2> QED
    BY <1>2, <1>3, <2>2, <2>3 DEF Change
<1>4. ASSUME NEW d \in Docs, Resend(d)
      PROVE  TInv'
  <2>1. [kind |-> "Updated", doc |-> d, version |-> version[d]] \in Events
    BY DEF Events
  <2> QED
    BY <1>2, <1>4, <2>1 DEF Resend
<1>5. CASE CloseStream
  <2>1. ends' \in Nat
    BY <1>5 DEF CloseStream
  <2>2. open' \in BOOLEAN
    BY <1>5, Zenon DEF CloseStream
  <2> QED
    BY <1>5, <2>1, <2>2 DEF CloseStream, task, history, Working
<1>6. CASE Watch
  <2>1. open' \in BOOLEAN /\ handle' \in BOOLEAN
    BY <1>6, Zenon DEF Watch
  <2>2. stream' \in Seq(Events) /\ pc' \in Steps /\ ~Working'
    BY <1>6 DEF Watch, Events, Steps, Working
  <2> QED
    BY <1>6, <2>1, <2>2 DEF Watch, bounds, history
<1>7. CASE Stop
  <2>1. open' \in BOOLEAN /\ handle' \in BOOLEAN
    BY <1>7, Zenon DEF Stop
  <2>2. /\ stream' \in Seq(Events) /\ pc' \in Steps /\ ~Working' /\ event' \in Events
        /\ todo' \subseteq Sinks /\ attempt' \in 0..MaxRetries /\ stops' \in Nat
    BY <1>7 DEF Stop, Events, Steps, Working, NoEvent
  <2>3. late' \subseteq Changes
    <3>1. pc = "set_cursor" => <<event.doc, event.version>> \in Changes
      BY InHand DEF Working, ChangeOf
    <3> QED
      BY <1>7, <3>1 DEF Stop
  <2> QED
    BY <1>7, <2>1, <2>2, <2>3 DEF Stop, history
<1>8. CASE LateCursorWrite
  <2>1. PICK w \in late : SetCursor(w[1], w[2]) /\ late' = late \ {w}
    BY <1>8 DEF LateCursorWrite
  <2>2. w[1] \in Docs /\ w[2] \in Versions
    BY <2>1 DEF Changes
  <2>3. cursors' \in [Docs -> Versions] /\ late' \subseteq Changes
    BY <2>1, <2>2 DEF SetCursor
  <2> QED
    BY <1>8, <2>3 DEF LateCursorWrite, docstore, task, bounds, history, Working
<1>9. CASE Recv
  <2>1. pc' \in Steps /\ (Working' => event'.kind # "Initial")
    BY <1>9, RecvEffect DEF Steps, Working
  <2>2. event' \in Events /\ stream' \in Seq(Events)
    BY <1>9, RecvEffect
  <2> QED
    BY <1>9, <2>1, <2>2 DEF Recv, bounds, history
<1>10. CASE StreamEnded
  BY <1>10 DEF StreamEnded, Goto, Steps, Working, docstore, bounds, history
<1>11. CASE CheckCursor
  <2>1. Working /\ pc' \in Steps /\ UNCHANGED <<event, todo, attempt>>
    BY <1>11 DEF CheckCursor, Goto, Steps, Working
  <2> QED
    BY <1>11, <2>1 DEF CheckCursor, docstore, bounds, history
<1>12. CASE ListSinks
  <2>1. Working /\ pc' \in Steps /\ UNCHANGED <<event, attempt>> /\ todo' \subseteq Sinks
    BY <1>12 DEF ListSinks, Goto, Steps, Working, Listing, enabled, AfterFailedPublish
  <2> QED
    BY <1>12, <2>1 DEF ListSinks, docstore, bounds, history
<1>13. ASSUME NEW s \in Sinks, DeliverOk(s) \/ DeliverError(s) \/ DeliverRefused(s)
       PROVE  TInv'
  <2>1. /\ Working /\ Working' /\ pc' \in Steps /\ todo' \subseteq todo /\ attempt' \in 0..MaxRetries
        /\ UNCHANGED <<docstore, handle, pc, event, cursors, late, sinks, bounds, published>>
        /\ Sent(s) \/ Unsent
    BY <1>13, DeliveryEffect DEF Working
  <2>2. /\ received' \in [Sinks -> SUBSET Changes] /\ newest' \in [Sinks -> [Docs -> Versions]]
        /\ strays' \in [Sinks -> SUBSET Changes]
    BY <2>1, SentEffect DEF Unsent
  <2> QED
    BY <2>1, <2>2 DEF docstore, bounds
<1>14. CASE PublishOk
  <2>1. Working /\ pc' \in Steps /\ UNCHANGED <<event, todo, attempt>>
    BY <1>14 DEF PublishOk, Goto, Steps, Working
  <2>2. published' \subseteq Changes
    BY <1>14, <2>1, InHand DEF PublishOk, ChangeOf
  <2> QED
    BY <1>14, <2>1, <2>2 DEF PublishOk, docstore, bounds
<1>15. CASE PersistCursor
  <2>1. Working /\ pc' \in Steps /\ ~Working' /\ UNCHANGED <<event, todo, attempt>>
    BY <1>15 DEF PersistCursor, Goto, Steps, Working
  <2>2. cursors' \in [Docs -> Versions]
    BY <1>15, <2>1, InHand DEF PersistCursor, SetCursor
  <2> QED
    BY <1>15, <2>1, <2>2 DEF PersistCursor, docstore, bounds, history
<1>16. ASSUME NEW s \in Sinks, NEW row \in SinkRows, SetSink(s, row)
       PROVE  TInv'
  <2>1. sinks' \in [Sinks -> SinkRows] /\ strays' \in [Sinks -> SUBSET Changes]
    BY <1>16 DEF SetSink
  <2> QED
    BY <1>16, <2>1 DEF SetSink, docstore, task, bounds, Working
<1>17. ASSUME NEW s \in Sinks, CreateSink(s) \/ ToggleSink(s) \/ DeleteSink(s)
       PROVE  \E row \in SinkRows : SetSink(s, row)
  BY <1>17 DEF CreateSink, ToggleSink, DeleteSink, SinkRows
<1> HIDE DEF TInv, TypeOK
<1> QED
  BY <1>1, <1>3, <1>4, <1>5, <1>6, <1>7, <1>8, <1>9, <1>10, <1>11, <1>12, <1>13, <1>14,
     <1>15, <1>16, <1>17 DEF Next, TaskStep, Deliver

\* Type correctness.
THEOREM TypeCorrect == Spec => []TypeOK
<1>1. TInv => TypeOK
  BY DEF TInv
<1> QED
  BY <1>1, TypeInit, TypeStep, PTL DEF Spec

-----------------------------------------------------------------------------
(* The cursor.                                                              *)

\* The cursors written, the writes still running and the one about to be
\* issued all stand at changes that publish has accepted.
CursorInv ==
    /\ CursorOnlyPublished
    /\ late \subseteq published
    /\ pc = "set_cursor" => ChangeOf(event) \in published

\* Every cursor write comes after the publish of its change.
LEMMA CursorStep == TInv /\ CursorInv /\ [Next]_vars => CursorInv'
<1> SUFFICES ASSUME TInv, CursorInv, [Next]_vars PROVE CursorInv'
  OBVIOUS
<1> USE DEF CursorInv, CursorOnlyPublished
<1>0. cursors \in [Docs -> Versions]
  BY DEF TInv, TypeOK
<1>1. ASSUME UNCHANGED <<cursors, late, published>>, pc' # "set_cursor" \/ UNCHANGED <<pc, event>>
      PROVE  CursorInv'
  BY <1>1 DEF ChangeOf
<1>2. CASE UNCHANGED vars
  BY <1>1, <1>2 DEF vars, task, history
<1>3. ASSUME NEW d \in Docs, (\E kind : Change(d, kind)) \/ Resend(d)
      PROVE  CursorInv'
  <2>1. UNCHANGED <<cursors, late, published, pc, event>>
    BY <1>3 DEF Change, Resend, history, task
  <2> QED
    BY <1>1, <2>1
<1>4. CASE Stop
  BY <1>4 DEF Stop, history, ChangeOf
<1>5. CASE LateCursorWrite
  <2>1. PICK w \in late : SetCursor(w[1], w[2]) /\ late' = late \ {w}
    BY <1>5 DEF LateCursorWrite
  <2>2. w \in published /\ w = <<w[1], w[2]>>
    BY <2>1 DEF TInv, TypeOK, Changes
  <2>3. \A d \in Docs : cursors'[d] = cursors[d] \/ (d = w[1] /\ cursors'[d] = w[2])
    BY <1>0, <2>1 DEF SetCursor
  <2>4. UNCHANGED <<published, pc, event>>
    BY <1>5 DEF LateCursorWrite, history, task
  <2> QED
    BY <2>1, <2>2, <2>3, <2>4 DEF ChangeOf
<1>6. CASE Recv
  <2>1. pc' # "set_cursor" /\ UNCHANGED <<cursors, late, published>>
    BY <1>6, RecvEffect DEF Recv, history
  <2> QED
    BY <1>1, <2>1
<1>7. CASE StreamEnded \/ CheckCursor \/ ListSinks
  <2>1. pc' # "set_cursor" /\ UNCHANGED <<cursors, late, published>>
    BY <1>7 DEF StreamEnded, CheckCursor, ListSinks, Goto, AfterFailedPublish, history
  <2> QED
    BY <1>1, <2>1
<1>8. ASSUME NEW s \in Sinks, DeliverOk(s) \/ DeliverError(s) \/ DeliverRefused(s)
      PROVE  CursorInv'
  <2>1. UNCHANGED <<pc, event, cursors, late, published>>
    BY <1>8, DeliveryEffect
  <2> QED
    BY <1>1, <2>1
<1>9. CASE PublishOk
  BY <1>9 DEF PublishOk, Goto, ChangeOf
<1>10. CASE PersistCursor
  <2>1. pc = "set_cursor" /\ pc' = "recv" /\ UNCHANGED <<late, published>>
    BY <1>10 DEF PersistCursor, Goto, history
  <2>2. \A d \in Docs : \/ cursors'[d] = cursors[d]
                        \/ <<d, cursors'[d]>> = ChangeOf(event)
    BY <1>0, <1>10 DEF PersistCursor, SetCursor, ChangeOf
  <2> QED
    BY <2>1, <2>2
<1>11. ASSUME NEW s \in Sinks, CreateSink(s) \/ ToggleSink(s) \/ DeleteSink(s)
       PROVE  CursorInv'
  <2>1. UNCHANGED <<pc, event, cursors, late, published>>
    BY <1>11 DEF CreateSink, ToggleSink, DeleteSink, SetSink, task
  <2> QED
    BY <1>1, <2>1
<1>12. ASSUME CloseStream \/ Watch PROVE CursorInv'
  <2>1. UNCHANGED <<cursors, late, published>>
    BY <1>12 DEF CloseStream, Watch, history
  <2>2. pc' # "set_cursor" \/ UNCHANGED <<pc, event>>
    BY <1>12 DEF CloseStream, Watch, task
  <2> QED
    BY <1>1, <2>1, <2>2
<1> HIDE DEF CursorInv, CursorOnlyPublished
<1> QED
  BY <1>2, <1>3, <1>4, <1>5, <1>6, <1>7, <1>8, <1>9, <1>10, <1>11, <1>12
     DEF Next, TaskStep, Deliver

\* What deduplication will skip has been published: whatever is aborted,
\* crashes, fails or lands late, for any number of tasks one after the other.
THEOREM CursorsPublished == Spec => []CursorOnlyPublished
<1>1. Init => CursorInv
  BY DEF Init, CursorInv, CursorOnlyPublished
<1>2. CursorInv => CursorOnlyPublished
  BY DEF CursorInv
<1> QED
  BY <1>1, <1>2, TypeInit, TypeStep, CursorStep, PTL DEF Spec

-----------------------------------------------------------------------------
(* The task.                                                                *)

\* No failure of a store call or a delivery ends the task: only the end of the
\* stream does, or a stop that takes the handle with it.
THEOREM WatcherNeverDies == Spec => []WatcherSurvives
<1>1. Init => WatcherSurvives
  BY DEF Init, WatcherSurvives
<1>2. TInv /\ WatcherSurvives /\ [Next]_vars => WatcherSurvives'
  <2> SUFFICES ASSUME TInv, WatcherSurvives, [Next]_vars, handle', open', pc' = "off"
               PROVE  FALSE
    BY DEF WatcherSurvives
  <2>1. CASE UNCHANGED vars
    BY <2>1 DEF vars, docstore, task, WatcherSurvives
  <2>2. ASSUME NEW d \in Docs, (\E kind : Change(d, kind)) \/ Resend(d) PROVE FALSE
    BY <2>2 DEF Change, Resend, task, WatcherSurvives
  <2>3. ~CloseStream
    BY Zenon DEF CloseStream
  <2>4. ~Stop
    BY Zenon DEF Stop
  <2>5. ~Watch
    BY DEF Watch
  <2>6. ~LateCursorWrite
    BY DEF LateCursorWrite, docstore, task, WatcherSurvives
  <2>7. ~Recv
    BY RecvEffect
  <2>8. ~StreamEnded
    BY DEF StreamEnded, docstore
  <2>9. ~CheckCursor /\ ~ListSinks /\ ~PublishOk /\ ~PersistCursor
    BY DEF CheckCursor, ListSinks, PublishOk, PersistCursor, Goto, AfterFailedPublish
  <2>10. ASSUME NEW s \in Sinks, DeliverOk(s) \/ DeliverError(s) \/ DeliverRefused(s) PROVE FALSE
    BY <2>10, DeliveryEffect
  <2>11. ASSUME NEW s \in Sinks, CreateSink(s) \/ ToggleSink(s) \/ DeleteSink(s) PROVE FALSE
    BY <2>11 DEF CreateSink, ToggleSink, DeleteSink, SetSink, docstore, task, WatcherSurvives
  <2> QED
    BY <2>1, <2>2, <2>3, <2>4, <2>5, <2>6, <2>7, <2>8, <2>9, <2>10, <2>11
       DEF Next, TaskStep, Deliver
<1> QED
  BY <1>1, <1>2, TypeInit, TypeStep, PTL DEF Spec

-----------------------------------------------------------------------------
(* Order.                                                                   *)

Tells(e) == e.kind # "Initial"

\* Per document, versions only grow along the way from the sinks to the change
\* in hand, through the stream, to the document store.
SinksBehind == \A s \in Sinks, d \in Docs : newest[s][d] <= version[d]

StreamBehind ==
    \A i \in 1..Len(stream) :
        Tells(stream[i]) =>
            /\ stream[i].version <= version[stream[i].doc]
            /\ \A s \in Sinks : newest[s][stream[i].doc] <= stream[i].version

StreamSorted ==
    \A i, j \in 1..Len(stream) :
        i < j /\ Tells(stream[i]) /\ Tells(stream[j]) /\ stream[i].doc = stream[j].doc
        => stream[i].version <= stream[j].version

InHandNext ==
    Working =>
        /\ event.version <= version[event.doc]
        /\ \A s \in Sinks : newest[s][event.doc] <= event.version
        /\ \A i \in 1..Len(stream) :
              Tells(stream[i]) /\ stream[i].doc = event.doc => event.version <= stream[i].version

OrderInv == SinksBehind /\ StreamBehind /\ StreamSorted /\ InHandNext

\* The types the comparisons need.
LEMMA OrderTypes ==
    ASSUME TInv
    PROVE  /\ \A d \in Docs : version[d] \in Nat
           /\ \A s \in Sinks, d \in Docs : newest[s][d] \in Nat
           /\ Len(stream) \in Nat
           /\ \A i \in 1..Len(stream) :
                 /\ stream[i] \in Events
                 /\ Tells(stream[i]) => stream[i].doc \in Docs /\ stream[i].version \in Nat
           /\ Working => event.doc \in Docs /\ event.version \in Nat
<1>1. version \in [Docs -> Nat] /\ newest \in [Sinks -> [Docs -> Nat]] /\ stream \in Seq(Events)
  BY DEF TInv, TypeOK, Versions
<1>2. ASSUME NEW i \in 1..Len(stream)
      PROVE  /\ stream[i] \in Events
             /\ Tells(stream[i]) => stream[i].doc \in Docs /\ stream[i].version \in Nat
  BY <1>1, <1>2, EventKinds DEF Tells
<1>3. Len(stream) \in Nat
  BY <1>1
<1>4. /\ \A d \in Docs : version[d] \in Nat
      /\ \A s \in Sinks, d \in Docs : newest[s][d] \in Nat
  BY <1>1
<1>5. Working => event.doc \in Docs /\ event.version \in Nat
  BY InHand
<1> QED
  BY <1>2, <1>3, <1>4, <1>5

\* The document store tells of a version it has not passed yet.
LEMMA OrderAppend ==
    ASSUME TInv, TInv', OrderInv, NEW d \in Docs, NEW e,
           e.doc = d, e.version = version'[d], e \in Events, Emit(e),
           version[d] <= version'[d], \A x \in Docs \ {d} : version'[x] = version[x],
           UNCHANGED <<task, newest>>
    PROVE  OrderInv'
<1>0. /\ \A x \in Docs : version[x] \in Nat /\ version'[x] \in Nat /\ version[x] <= version'[x]
      /\ \A s \in Sinks, x \in Docs : newest[s][x] \in Nat
      /\ Len(stream) \in Nat /\ stream \in Seq(Events)
      /\ \A i \in 1..Len(stream) :
            Tells(stream[i]) => stream[i].doc \in Docs /\ stream[i].version \in Nat
      /\ Working => event.doc \in Docs /\ event.version \in Nat
      /\ (Working' <=> Working) /\ UNCHANGED event
  <2>1. \A x \in Docs : version[x] \in Nat /\ version'[x] \in Nat
    BY DEF TInv, TypeOK, Versions
  <2>2. stream \in Seq(Events)
    BY DEF TInv, TypeOK
  <2>3. \A x \in Docs : version[x] <= version'[x]
    BY <2>1
  <2> QED
    BY <2>1, <2>2, <2>3, OrderTypes DEF task, Working
<1>1. SinksBehind'
  BY <1>0 DEF OrderInv, SinksBehind
<1>2. ASSUME NEW i \in 1..Len(stream')
      PROVE  \/ i \in 1..Len(stream) /\ stream'[i] = stream[i]
             \/ stream'[i] = e /\ i > Len(stream)
  <2>1. CASE stream' = stream
    BY <1>2, <2>1
  <2>2. CASE stream' = Append(stream, e)
    <3>1. /\ Len(stream') = Len(stream) + 1 /\ \A k \in 1..Len(stream) : stream'[k] = stream[k]
          /\ stream'[Len(stream) + 1] = e
      BY <1>0, <2>2, AppendProperties
    <3>2. i \in 1..Len(stream) \/ i = Len(stream) + 1
      BY <1>0, <1>2, <3>1
    <3> QED
      BY <1>0, <3>1, <3>2
  <2> QED
    BY <2>1, <2>2 DEF Emit
<1>3. StreamBehind'
  <2> SUFFICES ASSUME NEW i \in 1..Len(stream'), Tells(stream'[i])
               PROVE  /\ stream'[i].version <= version'[stream'[i].doc]
                      /\ \A s \in Sinks : newest[s][stream'[i].doc] <= stream'[i].version
    BY DEF StreamBehind, Tells
  <2>1. CASE i \in 1..Len(stream) /\ stream'[i] = stream[i]
    <3>1. /\ stream[i].doc \in Docs /\ stream[i].version \in Nat
          /\ stream[i].version <= version[stream[i].doc]
          /\ \A s \in Sinks : newest[s][stream[i].doc] <= stream[i].version
      BY <1>0, <2>1 DEF OrderInv, StreamBehind
    <3> QED
      BY <1>0, <2>1, <3>1, SMTT(30)
  <2>2. CASE stream'[i] = e
    BY <1>0, <1>1, <2>2 DEF SinksBehind
  <2> QED
    BY <1>2, <2>1, <2>2
<1>4. StreamSorted'
  <2> SUFFICES ASSUME NEW i \in 1..Len(stream'), NEW j \in 1..Len(stream'), i < j,
                      Tells(stream'[i]), Tells(stream'[j]), stream'[i].doc = stream'[j].doc
               PROVE  stream'[i].version <= stream'[j].version
    BY DEF StreamSorted, Tells
  <2>1. CASE j \in 1..Len(stream) /\ stream'[j] = stream[j]
    <3>1. i \in 1..Len(stream) /\ stream'[i] = stream[i]
      BY <1>0, <1>2, <2>1
    <3> QED
      BY <2>1, <3>1 DEF OrderInv, StreamSorted
  <2>2. CASE stream'[j] = e
    <3>1. CASE stream'[i] = e
      BY <1>0, <2>2, <3>1
    <3>2. CASE i \in 1..Len(stream) /\ stream'[i] = stream[i]
      <4>1. stream[i].version <= version[d] /\ stream[i].version \in Nat
        BY <1>0, <2>2, <3>2 DEF OrderInv, StreamBehind
      <4> QED
        BY <1>0, <2>2, <3>2, <4>1, SMTT(30)
    <3> QED
      BY <1>2, <3>1, <3>2
  <2> QED
    BY <1>2, <2>1, <2>2
<1>5. InHandNext'
  <2> SUFFICES ASSUME Working
               PROVE  /\ event.version <= version'[event.doc]
                      /\ \A s \in Sinks : newest[s][event.doc] <= event.version
                      /\ \A i \in 1..Len(stream') :
                            Tells(stream'[i]) /\ stream'[i].doc = event.doc
                            => event.version <= stream'[i].version
    BY <1>0 DEF InHandNext, Tells
  <2>1. /\ event.version <= version[event.doc] /\ event.version \in Nat /\ event.doc \in Docs
        /\ \A s \in Sinks : newest[s][event.doc] <= event.version
        /\ \A i \in 1..Len(stream) :
              Tells(stream[i]) /\ stream[i].doc = event.doc => event.version <= stream[i].version
    BY <1>0 DEF OrderInv, InHandNext
  <2>2. event.version <= version'[event.doc]
    BY <1>0, <2>1
  <2> QED
    BY <1>2, <2>1, <2>2
<1> QED
  BY <1>1, <1>3, <1>4, <1>5 DEF OrderInv

\* The channel is first in, first out, and one task takes from it.
LEMMA OrderStep == TInv /\ TInv' /\ OrderInv /\ [Next]_vars => OrderInv'
<1> SUFFICES ASSUME TInv, TInv', OrderInv, [Next]_vars PROVE OrderInv'
  OBVIOUS
<1>1. ASSUME UNCHANGED <<version, stream, newest>>, Working' => Working /\ UNCHANGED event
      PROVE  OrderInv'
  BY <1>1 DEF OrderInv, SinksBehind, StreamBehind, StreamSorted, InHandNext, Tells
<1>2. CASE UNCHANGED vars
  BY <1>1, <1>2 DEF vars, docstore, task, history, Working
<1>3. ASSUME NEW d \in Docs, NEW kind \in {"Updated", "Removed"}, Change(d, kind)
      PROVE  OrderInv'
  <2>1. PICK e : e = [kind |-> kind, doc |-> d, version |-> version[d] + 1]
    OBVIOUS
  <2>2. version \in [Docs -> Nat]
    BY DEF TInv, TypeOK, Versions
  <2>3. e.doc = d /\ e.version = version'[d] /\ e \in Events
    BY <1>3, <2>1, <2>2 DEF Change, Events, Versions
  <2>4. version[d] <= version'[d] /\ \A x \in Docs \ {d} : version'[x] = version[x]
    BY <1>3, <2>2 DEF Change
  <2>5. Emit(e) /\ UNCHANGED <<task, newest>>
    BY <1>3, <2>1 DEF Change, history
  <2> QED
    BY <2>3, <2>4, <2>5, OrderAppend
<1>4. ASSUME NEW d \in Docs, Resend(d)
      PROVE  OrderInv'
  <2>1. PICK e : e = [kind |-> "Updated", doc |-> d, version |-> version[d]]
    OBVIOUS
  <2>2. version \in [Docs -> Nat] /\ UNCHANGED version
    BY <1>4 DEF TInv, TypeOK, Versions, Resend
  <2>3. e.doc = d /\ e.version = version'[d] /\ e \in Events
    BY <2>1, <2>2 DEF Events, Versions
  <2>4. version[d] <= version'[d] /\ \A x \in Docs \ {d} : version'[x] = version[x]
    BY <2>2
  <2>5. Emit(e) /\ UNCHANGED <<task, newest>>
    BY <1>4, <2>1 DEF Resend, history
  <2> QED
    BY <2>3, <2>4, <2>5, OrderAppend
<1>5. CASE CloseStream \/ LateCursorWrite
  BY <1>1, <1>5 DEF CloseStream, LateCursorWrite, docstore, task, history, Working
<1>6. CASE Watch \/ Stop
  <2>1. UNCHANGED <<version, newest>> /\ ~Working'
    BY <1>6 DEF Watch, Stop, history, Working
  <2>2. \A i \in 1..Len(stream') : ~Tells(stream'[i])
    BY <1>6 DEF Watch, Stop, Tells
  <2> QED
    BY <2>1, <2>2 DEF OrderInv, SinksBehind, StreamBehind, StreamSorted, InHandNext, Tells
<1>7. CASE Recv
  <2>0. /\ Len(stream) \in Nat /\ Len(stream') \in Nat
        /\ \A i \in 1..Len(stream) : Tells(stream[i]) => stream[i].doc \in Docs /\ stream[i].version \in Nat
    <3>1. stream' \in Seq(Events)
      BY DEF TInv, TypeOK
    <3> QED
      BY <3>1, OrderTypes
  <2>1. /\ UNCHANGED <<version, newest>> /\ event' = stream[1]
        /\ \A i \in 1..Len(stream') : stream'[i] = stream[i + 1] /\ i + 1 \in 1..Len(stream)
        /\ Working' => Tells(stream[1])
    BY <1>7, RecvEffect DEF Recv, history, Working, Tells
  <2>2. 1 \in 1..Len(stream)
    <3>1. stream \in Seq(Events) /\ stream # <<>>
      BY <1>7 DEF Recv, TInv, TypeOK
    <3> QED
      BY <3>1
  <2>3. SinksBehind'
    BY <2>1 DEF OrderInv, SinksBehind
  <2>4. StreamBehind'
    BY <2>1 DEF OrderInv, StreamBehind, Tells
  <2>5. StreamSorted'
    <3> SUFFICES ASSUME NEW i \in 1..Len(stream'), NEW k \in 1..Len(stream'), i < k,
                        Tells(stream'[i]), Tells(stream'[k]), stream'[i].doc = stream'[k].doc
                 PROVE  stream'[i].version <= stream'[k].version
      BY DEF StreamSorted, Tells
    <3>1. /\ stream'[i] = stream[i + 1] /\ i + 1 \in 1..Len(stream)
          /\ stream'[k] = stream[k + 1] /\ k + 1 \in 1..Len(stream) /\ i + 1 < k + 1
      BY <2>0, <2>1
    <3> QED
      BY <3>1 DEF OrderInv, StreamSorted
  <2>6. InHandNext'
    <3> SUFFICES ASSUME Working'
                 PROVE  /\ stream[1].version <= version[stream[1].doc]
                        /\ \A s \in Sinks : newest[s][stream[1].doc] <= stream[1].version
                        /\ \A i \in 1..Len(stream') :
                              Tells(stream'[i]) /\ stream'[i].doc = stream[1].doc
                              => stream[1].version <= stream'[i].version
      BY <2>1 DEF InHandNext, Tells
    <3>1. /\ stream[1].version <= version[stream[1].doc]
          /\ \A s \in Sinks : newest[s][stream[1].doc] <= stream[1].version
      BY <2>1, <2>2 DEF OrderInv, StreamBehind
    <3>2. ASSUME NEW i \in 1..Len(stream'), Tells(stream'[i]), stream'[i].doc = stream[1].doc
          PROVE  stream[1].version <= stream'[i].version
      <4>1. stream'[i] = stream[i + 1] /\ i + 1 \in 1..Len(stream) /\ 1 < i + 1
        BY <2>0, <2>1
      <4> QED
        BY <2>1, <2>2, <3>2, <4>1 DEF OrderInv, StreamSorted
    <3> QED
      BY <3>1, <3>2
  <2> QED
    BY <2>3, <2>4, <2>5, <2>6 DEF OrderInv
<1>8. CASE StreamEnded \/ CheckCursor \/ ListSinks \/ PublishOk \/ PersistCursor
  <2>1. UNCHANGED <<version, stream, newest, event>>
    BY <1>8 DEF StreamEnded, CheckCursor, ListSinks, PublishOk, PersistCursor, Goto, docstore, history
  <2>2. Working' => Working
    BY <1>8 DEF StreamEnded, CheckCursor, ListSinks, PublishOk, PersistCursor, Goto, Working
  <2> QED
    BY <1>1, <2>1, <2>2
<1>9. ASSUME NEW s \in Sinks, DeliverOk(s) \/ DeliverError(s) \/ DeliverRefused(s)
      PROVE  OrderInv'
  <2>1. Working /\ Working' /\ UNCHANGED <<version, stream, event>> /\ (Sent(s) \/ Unsent)
    BY <1>9, DeliveryEffect DEF docstore
  <2>2. CASE Unsent
    BY <1>1, <2>1, <2>2 DEF Unsent
  <2>3. CASE Sent(s)
    <3>1. /\ \A x \in Sinks, d \in Docs :
                newest'[x][d] = newest[x][d] \/ (d = event.doc /\ newest'[x][d] = event.version)
          /\ event.doc \in Docs
      BY <2>1, <2>3, SentEffect, InHand
    <3>2. SinksBehind'
      BY <2>1, <3>1 DEF OrderInv, SinksBehind, InHandNext
    <3>3. StreamBehind'
      <4> SUFFICES ASSUME NEW i \in 1..Len(stream), Tells(stream[i])
                   PROVE  /\ stream[i].version <= version[stream[i].doc]
                          /\ \A x \in Sinks : newest'[x][stream[i].doc] <= stream[i].version
        BY <2>1 DEF StreamBehind, Tells
      <4>1. stream[i].doc \in Docs
        BY OrderTypes
      <4>2. stream[i].doc = event.doc => event.version <= stream[i].version
        BY <2>1 DEF OrderInv, InHandNext
      <4> QED
        BY <3>1, <4>1, <4>2 DEF OrderInv, StreamBehind
    <3>4. StreamSorted'
      BY <2>1 DEF OrderInv, StreamSorted, Tells
    <3>5. InHandNext'
      <4>1. event.version <= event.version
        BY <2>1, OrderTypes
      <4> QED
        BY <2>1, <3>1, <4>1 DEF OrderInv, InHandNext, Tells
    <3> QED
      BY <3>2, <3>3, <3>4, <3>5 DEF OrderInv
  <2> QED
    BY <2>1, <2>2, <2>3
<1>10. ASSUME NEW s \in Sinks, CreateSink(s) \/ ToggleSink(s) \/ DeleteSink(s)
       PROVE  OrderInv'
  BY <1>1, <1>10 DEF CreateSink, ToggleSink, DeleteSink, SetSink, docstore, task, Working
<1> QED
  BY <1>2, <1>3, <1>4, <1>5, <1>6, <1>7, <1>8, <1>9, <1>10 DEF Next, TaskStep, Deliver

\* Nothing has been sent at the start.
LEMMA OrderInit == Init => OrderInv
<1> SUFFICES ASSUME Init PROVE OrderInv
  OBVIOUS
<1>1. ~Working /\ stream = <<>> /\ Len(stream) = 0
  BY DEF Init, Working
<1>2. SinksBehind
  BY DEF Init, SinksBehind
<1> QED
  BY <1>1, <1>2 DEF OrderInv, StreamBehind, StreamSorted, InHandNext

\* No sink is sent an older version of a document after a newer one: with any
\* retries, repeated changes, restarts and late cursor writes, over streams of
\* any length.
THEOREM SentInOrder == Spec => InOrder
<1>1. TInv /\ OrderInv /\ [Next]_vars
      => [\A s \in Sinks, d \in Docs : newest'[s][d] >= newest[s][d]]_vars
  <2> SUFFICES ASSUME TInv, OrderInv, [Next]_vars, NEW x \in Sinks, NEW d \in Docs
               PROVE  newest'[x][d] >= newest[x][d]
    OBVIOUS
  <2>0. newest[x][d] \in Nat
    BY OrderTypes
  <2>1. CASE UNCHANGED newest
    BY <2>0, <2>1
  <2>2. ASSUME NEW s \in Sinks, DeliverOk(s) \/ DeliverError(s) \/ DeliverRefused(s)
        PROVE  newest'[x][d] >= newest[x][d]
    <3>1. Working /\ (Sent(s) \/ Unsent)
      BY <2>2, DeliveryEffect
    <3>2. CASE Unsent
      BY <2>1, <3>2 DEF Unsent
    <3>3. CASE Sent(s)
      <4>1. newest'[x][d] = IF x = s /\ d = event.doc THEN event.version ELSE newest[x][d]
        BY <3>1, <3>3, SentEffect
      <4>2. d = event.doc => newest[x][d] <= event.version
        BY <3>1 DEF OrderInv, InHandNext
      <4>3. event.version \in Nat
        BY <3>1, OrderTypes
      <4> QED
        BY <2>0, <4>1, <4>2, <4>3
    <3> QED
      BY <3>1, <3>2, <3>3
  <2>3. \/ UNCHANGED newest
        \/ \E s \in Sinks : DeliverOk(s) \/ DeliverError(s) \/ DeliverRefused(s)
    BY DEF Next, TaskStep, Deliver, Change, Resend, CloseStream, Watch, Stop, LateCursorWrite, Recv,
           StreamEnded, CheckCursor, ListSinks, PublishOk, PersistCursor, CreateSink, ToggleSink,
           DeleteSink, SetSink, history, vars
  <2> QED
    BY <2>1, <2>2, <2>3
<1> QED
  BY <1>1, TypeInit, TypeStep, OrderInit, OrderStep, PTL DEF Spec, InOrder

-----------------------------------------------------------------------------
(* Disabled sinks.                                                          *)

\* A sink that is switched off while its turn is still to come has been sent
\* since then at most the change being fanned out.
StrayInv ==
    \A s \in Sinks :
        /\ strays[s] = {} \/ \E c : strays[s] = {c}
        /\ pc = "deliver" /\ s \in todo /\ s \notin enabled => strays[s] \subseteq {ChangeOf(event)}

\* A listing holds enabled sinks only, and a toggle starts the count again.
LEMMA StrayStep == TInv /\ StrayInv /\ [Next]_vars => StrayInv'
<1> SUFFICES ASSUME TInv, StrayInv, [Next]_vars PROVE StrayInv'
  OBVIOUS
<1>0. strays \in [Sinks -> SUBSET Changes] /\ sinks \in [Sinks -> SinkRows]
  BY DEF TInv, TypeOK
<1>1. ASSUME UNCHANGED <<strays, sinks>>, pc' = "deliver" => pc = "deliver" /\ UNCHANGED <<todo, event>>
      PROVE  StrayInv'
  BY <1>1 DEF StrayInv, enabled, ChangeOf
<1>2. CASE UNCHANGED vars
  BY <1>1, <1>2 DEF vars, task, history
<1>3. ASSUME NEW d \in Docs, (\E kind : Change(d, kind)) \/ Resend(d)
      PROVE  StrayInv'
  BY <1>1, <1>3 DEF Change, Resend, task, history
<1>4. CASE CloseStream \/ LateCursorWrite
  BY <1>1, <1>4 DEF CloseStream, LateCursorWrite, task, history
<1>5. CASE Watch \/ Stop
  <2>1. UNCHANGED <<strays, sinks>> /\ pc' # "deliver"
    BY <1>5 DEF Watch, Stop, history
  <2> QED
    BY <1>1, <2>1
<1>6. CASE Recv
  <2>1. UNCHANGED <<strays, sinks>> /\ pc' # "deliver"
    BY <1>6, RecvEffect DEF Recv, history
  <2> QED
    BY <1>1, <2>1
<1>7. CASE StreamEnded \/ CheckCursor \/ PublishOk \/ PersistCursor
  <2>1. UNCHANGED <<strays, sinks>> /\ pc' # "deliver"
    BY <1>7 DEF StreamEnded, CheckCursor, PublishOk, PersistCursor, Goto, history
  <2> QED
    BY <1>1, <2>1
<1>8. CASE ListSinks
  <2>1. UNCHANGED <<strays, sinks>> /\ (pc' = "deliver" => todo' = enabled)
    BY <1>8 DEF ListSinks, Goto, AfterFailedPublish, Listing, history
  <2> QED
    BY <2>1 DEF StrayInv, enabled
<1>9. ASSUME NEW s \in Sinks, DeliverOk(s) \/ DeliverError(s) \/ DeliverRefused(s)
      PROVE  StrayInv'
  <2>1. /\ pc = "deliver" /\ s \in todo /\ todo' \subseteq todo /\ UNCHANGED <<pc, event, sinks>>
        /\ Working /\ (Sent(s) \/ Unsent)
    BY <1>9, DeliveryEffect
  <2>2. \A x \in Sinks : \/ strays'[x] = strays[x]
                         \/ /\ x = s /\ s \notin enabled
                            /\ strays'[x] = strays[x] \cup {ChangeOf(event)}
    BY <2>1, SentEffect DEF Unsent, Working
  <2> SUFFICES ASSUME NEW x \in Sinks
               PROVE  /\ strays'[x] = {} \/ \E c : strays'[x] = {c}
                      /\ x \in todo' /\ x \notin enabled => strays'[x] \subseteq {ChangeOf(event)}
    BY <2>1 DEF StrayInv, enabled, ChangeOf
  <2>3. CASE strays'[x] = strays[x]
    BY <2>1, <2>3 DEF StrayInv
  <2>4. CASE x = s /\ s \notin enabled /\ strays'[x] = strays[x] \cup {ChangeOf(event)}
    <3>1. strays[x] \subseteq {ChangeOf(event)}
      BY <2>1, <2>4 DEF StrayInv
    <3>2. strays'[x] = {ChangeOf(event)}
      BY <2>4, <3>1
    <3> QED
      BY <3>2
  <2> QED
    BY <2>2, <2>3, <2>4
<1>10. ASSUME NEW s \in Sinks, CreateSink(s) \/ ToggleSink(s) \/ DeleteSink(s)
       PROVE  StrayInv'
  <2>1. PICK row : SetSink(s, row)
    BY <1>10 DEF CreateSink, ToggleSink, DeleteSink
  <2>2. /\ UNCHANGED <<pc, todo, event>>
        /\ \A x \in Sinks \ {s} : strays'[x] = strays[x] /\ sinks'[x] = sinks[x]
        /\ strays'[s] = IF s \in enabled THEN {} ELSE strays[s]
    BY <1>0, <2>1 DEF SetSink, task
  <2> SUFFICES ASSUME NEW x \in Sinks
               PROVE  /\ strays'[x] = {} \/ \E c : strays'[x] = {c}
                      /\ pc = "deliver" /\ x \in todo /\ x \notin enabled'
                            => strays'[x] \subseteq {ChangeOf(event)}
    BY <2>2 DEF StrayInv, ChangeOf
  <2>3. CASE x # s
    BY <2>2, <2>3 DEF StrayInv, enabled
  <2>4. CASE x = s
    BY <2>2, <2>4 DEF StrayInv
  <2> QED
    BY <2>3, <2>4
<1> QED
  BY <1>2, <1>3, <1>4, <1>5, <1>6, <1>7, <1>8, <1>9, <1>10 DEF Next, TaskStep, Deliver

\* Of everything published after a sink is switched off, the sink gets at most
\* the one change that was being fanned out, however often it is switched.
THEOREM DisabledIsLeftAlone == Spec => []DisabledGetsNoMore
<1>1. Init => StrayInv
  BY DEF Init, StrayInv
<1>2. StrayInv => DisabledGetsNoMore
  <2> SUFFICES ASSUME StrayInv, NEW s \in Sinks PROVE Cardinality(strays[s]) <= 1
    BY DEF DisabledGetsNoMore
  <2>1. strays[s] = {} \/ \E c : strays[s] = {c}
    BY DEF StrayInv
  <2>2. Cardinality(strays[s]) = 0 \/ Cardinality(strays[s]) = 1
    BY <2>1, FS_EmptySet, FS_Singleton
  <2> QED
    BY <2>2
<1> QED
  BY <1>1, <1>2, TypeInit, TypeStep, StrayStep, PTL DEF Spec

=============================================================================
