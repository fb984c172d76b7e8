--------------------------------- MODULE Cdc ---------------------------------
(***************************************************************************)
(* Change data capture for one formation: the CdcWatcher task that reads   *)
(* the document store's change stream, the CdcEngine that fans an event    *)
(* out to the org's sinks, the webhook and NATS sinks, and the cursor that *)
(* suppresses duplicates.                                                  *)
(*                                                                         *)
(* The document store is peat-mesh's, outside this repository: it sends a  *)
(* subscriber one Initial event, then Updated and Removed events in order. *)
(* A version number stands for a document's change_hash.                   *)
(***************************************************************************)
EXTENDS Naturals, Sequences, FiniteSets

CONSTANTS Docs,
          Sinks,        \* sinks of the org, numbered in the order of their ids
          Kind,         \* Kind[s] is "webhook", "nats" or "kafka"
          MaxRetries,   \* webhook_sink MAX_RETRIES
          Faults,       \* whether store calls and deliveries may fail
          Toggles,      \* whether sinks are created, switched and deleted meanwhile
          MaxVersion,   \* bound on the changes of one document
          MaxStream,    \* bound on the events waiting in the stream
          MaxStops,     \* bound on stops: unwatch, shutdown, crash
          MaxEnds       \* bound on streams closed by the document store

ASSUME CdcAssumption ==
    /\ Sinks \subseteq Nat
    /\ Kind \in [Sinks -> {"webhook", "nats", "kafka"}]
    /\ {MaxRetries, MaxVersion, MaxStream, MaxStops, MaxEnds} \subseteq Nat
    /\ Faults \in BOOLEAN /\ Toggles \in BOOLEAN

Versions == Nat
Changes == Docs \X Versions
Events == [kind : {"Updated", "Removed"}, doc : Docs, version : Versions]
          \cup [kind : {"Initial"}]

VARIABLES version,    \* the document store: version of each document, 0 none
          removed,    \* documents whose last change removed them
          stream,     \* events sent to the subscriber and not yet received
          open,       \* the document store still holds the sending end
          handle,     \* the formation has an entry in the handles map
          pc,         \* where the watcher task is; "off" when there is none
          event,      \* the event the task is working on
          todo,       \* enabled sinks of the listing it has yet to serve
          attempt,    \* attempts already made at the webhook being served
          cursors,    \* the persisted cursor of each document, 0 none
          late,       \* cursor writes still running after their task's abort
          sinks,      \* the row of each sink; "none" before, "gone" after it has one
          stops, ends,
          published,  \* history: changes for which engine.publish answered Ok
          received,   \* history: changes each sink has received
          newest,     \* history: version each sink was last sent of a document
          strays      \* history: changes sent to a sink since it was disabled

docstore == <<version, removed, stream, open>>
task == <<pc, event, todo, attempt>>
bounds == <<stops, ends>>
history == <<published, received, newest, strays>>
vars == <<docstore, handle, task, cursors, late, sinks, bounds, history>>

SinkRows == {"none", "enabled", "disabled", "gone"}
enabled == {s \in Sinks : sinks[s] = "enabled"}

NoEvent == [kind |-> "Initial"]

Steps == {"off", "recv", "get_cursor", "list_sinks", "deliver", "set_cursor"}

TypeOK ==
    /\ version \in [Docs -> Versions]
    /\ removed \subseteq Docs
    /\ stream \in Seq(Events)
    /\ open \in BOOLEAN
    /\ handle \in BOOLEAN
    /\ pc \in Steps
    /\ event \in Events
    /\ todo \subseteq Sinks
    /\ attempt \in 0..MaxRetries
    /\ cursors \in [Docs -> Versions]
    /\ late \subseteq Changes
    /\ sinks \in [Sinks -> SinkRows]
    /\ stops \in Nat /\ ends \in Nat
    /\ published \subseteq Changes
    /\ received \in [Sinks -> SUBSET Changes]
    /\ newest \in [Sinks -> [Docs -> Versions]]
    /\ strays \in [Sinks -> SUBSET Changes]

Init ==
    /\ version = [d \in Docs |-> 0]
    /\ removed = {}
    /\ stream = <<>> /\ open = FALSE
    /\ handle = FALSE
    /\ pc = "off" /\ event = NoEvent /\ todo = {} /\ attempt = 0
    /\ cursors = [d \in Docs |-> 0] /\ late = {}
    /\ sinks \in [Sinks -> SinkRows \ {"gone"}]
    /\ stops = 0 /\ ends = 0
    /\ published = {}
    /\ received = [s \in Sinks |-> {}]
    /\ newest = [s \in Sinks |-> [d \in Docs |-> 0]]
    /\ strays = [s \in Sinks |-> {}]

-----------------------------------------------------------------------------
(* The document store (external).                                           *)

Emit(e) == stream' = IF open THEN Append(stream, e) ELSE stream

\* A document is written or removed; the subscriber, if any, is told.
Change(d, kind) ==
    /\ version[d] < MaxVersion
    /\ Len(stream) < MaxStream
    /\ kind = "Removed" => version[d] > 0 /\ d \notin removed
    /\ version' = [version EXCEPT ![d] = @ + 1]
    /\ removed' = IF kind = "Removed" THEN removed \cup {d} ELSE removed \ {d}
    /\ Emit([kind |-> kind, doc |-> d, version |-> version[d] + 1])
    /\ UNCHANGED <<open, handle, task, cursors, late, sinks, bounds, history>>

\* The same change arrives again by another sync path.
Resend(d) ==
    /\ version[d] > 0 /\ d \notin removed
    /\ open /\ Len(stream) < MaxStream
    /\ Emit([kind |-> "Updated", doc |-> d, version |-> version[d]])
    /\ UNCHANGED <<version, removed, open, handle, task, cursors, late, sinks,
                   bounds, history>>

\* The document store goes away: the stream ends once it is drained.
CloseStream ==
    /\ open /\ ends < MaxEnds
    /\ open' = FALSE
    /\ ends' = ends + 1
    /\ UNCHANGED <<version, removed, stream, handle, task, cursors, late, sinks, stops, history>>

-----------------------------------------------------------------------------
(* CdcWatcher: watch_formation, unwatch_formation, shutdown.                *)

\* An entry in the handles map, whatever became of its task, is left alone.
Watch ==
    /\ ~handle
    /\ handle' = TRUE
    /\ open' = TRUE
    /\ stream' = <<[kind |-> "Initial"]>>
    /\ pc' = "recv"
    /\ UNCHANGED <<version, removed, event, todo, attempt, cursors, late, sinks,
                   bounds, history>>

\* unwatch_formation and shutdown remove the handle and abort the task, a crash
\* takes both.  A cursor write already handed to the store may still land.
Stop ==
    /\ handle /\ stops < MaxStops
    /\ stops' = stops + 1
    /\ handle' = FALSE
    /\ open' = FALSE /\ stream' = <<>>
    /\ pc' = "off" /\ event' = NoEvent /\ todo' = {} /\ attempt' = 0
    /\ \/ UNCHANGED late
       \/ /\ pc = "set_cursor"
          /\ late' = late \cup {<<event.doc, event.version>>}
    /\ UNCHANGED <<version, removed, cursors, sinks, ends, history>>

SetCursor(d, v) == cursors' = [cursors EXCEPT ![d] = v]

LateCursorWrite ==
    /\ \E w \in late : /\ SetCursor(w[1], w[2])
                       /\ late' = late \ {w}
    /\ UNCHANGED <<docstore, handle, task, sinks, bounds, history>>

-----------------------------------------------------------------------------
(* The watcher task.                                                        *)

Goto(step) == pc' = step /\ UNCHANGED <<event, todo, attempt>>

\* Mutant: the newest event is taken first.
NextIndexLast(s) == Len(s)

\* The channel is a queue.
NextIndex(s) == 1

Without(s, i) == SubSeq(s, 1, i - 1) \o SubSeq(s, i + 1, Len(s))

FirstStep(e) ==
    CASE e.kind = "Updated" -> "get_cursor"
      [] e.kind = "Removed" -> "list_sinks"   \* never deduplicated
      [] e.kind = "Initial" -> "recv"         \* nothing is emitted

Recv ==
    /\ pc = "recv" /\ stream # <<>>
    /\ event' = stream[NextIndex(stream)]
    /\ pc' = FirstStep(stream[NextIndex(stream)])
    /\ stream' = Without(stream, NextIndex(stream))
    /\ UNCHANGED <<version, removed, open, handle, todo, attempt, cursors, late, sinks,
                   bounds, history>>

\* recv() answers None: the task ends and its handle stays in the map.
StreamEnded ==
    /\ pc = "recv" /\ stream = <<>> /\ ~open
    /\ Goto("off")
    /\ UNCHANGED <<docstore, handle, cursors, late, sinks, bounds, history>>

\* Mutant: a document that has a cursor is never sent again.
DuplicateIfAny(cursor, hash) == cursor # 0

Duplicate(cursor, hash) == cursor = hash

\* A failed read counts as no cursor.
CheckCursor ==
    /\ pc = "get_cursor"
    /\ \/ Goto(IF Duplicate(cursors[event.doc], event.version) THEN "recv" ELSE "list_sinks")
       \/ Faults /\ Goto("list_sinks")
    /\ UNCHANGED <<docstore, handle, cursors, late, sinks, bounds, history>>

\* Mutant: the cursor is persisted after a failed publish too.
AfterFailedPublishPersist == "set_cursor"

\* Mutant: a failed publish ends the loop.
AfterFailedPublishReturn == "off"

AfterFailedPublish == "recv"

\* Mutant: the enabled flag is not looked at.
ListingOfAll == Sinks

\* list_sinks, less the sinks that the loop skips.
Listing == enabled

\* engine.publish lists the sinks once; an error there fails the publish.
ListSinks ==
    /\ pc = "list_sinks"
    /\ \/ /\ todo' = Listing
          /\ pc' = "deliver"
          /\ UNCHANGED <<event, attempt>>
       \/ Faults /\ Goto(AfterFailedPublish)
    /\ UNCHANGED <<docstore, handle, cursors, late, sinks, bounds, history>>

Sent(s) ==
    /\ received' = [received EXCEPT ![s] = @ \cup {<<event.doc, event.version>>}]
    /\ newest' = [newest EXCEPT ![s][event.doc] = event.version]
    /\ strays' = IF s \in enabled THEN strays
                 ELSE [strays EXCEPT ![s] = @ \cup {<<event.doc, event.version>>}]

SinkDone(s) == todo' = todo \ {s} /\ attempt' = 0

\* One sink is served at a time, in the order of the listing.
Serving(s) == pc = "deliver" /\ s \in todo /\ \A other \in todo : s <= other

Unsent == UNCHANGED <<received, newest, strays>>

\* The receiver takes the event: the sink is done.
DeliverOk(s) ==
    /\ Serving(s)
    /\ IF Kind[s] = "kafka" THEN Unsent ELSE Sent(s)
    /\ SinkDone(s)
    /\ UNCHANGED <<docstore, handle, pc, event, cursors, late, sinks, bounds, published>>

\* Mutant: one attempt too many.
MayRetryLate(n) == n <= MaxRetries

MayRetry(n) == n < MaxRetries

\* 5xx, timeout or connection error; the event may have got through all the
\* same.  Only webhooks are tried again.
DeliverError(s) ==
    /\ Faults /\ Serving(s) /\ Kind[s] # "kafka"
    /\ Sent(s) \/ Unsent
    /\ IF Kind[s] = "webhook" /\ MayRetry(attempt)
       THEN attempt' = attempt + 1 /\ UNCHANGED todo
       ELSE SinkDone(s)
    /\ UNCHANGED <<docstore, handle, pc, event, cursors, late, sinks, bounds, published>>

\* 4xx, or a NATS sink without a connection: given up at once, with a warning.
DeliverRefused(s) ==
    /\ Faults /\ Serving(s) /\ Kind[s] # "kafka"
    /\ SinkDone(s)
    /\ UNCHANGED <<docstore, handle, pc, event, cursors, late, sinks, bounds, history>>

\* publish answers Ok once every sink has been tried, whatever came of it.
PublishOk ==
    /\ pc = "deliver" /\ todo = {}
    /\ published' = published \cup {<<event.doc, event.version>>}
    /\ Goto("set_cursor")
    /\ UNCHANGED <<docstore, handle, cursors, late, sinks, bounds, received, newest, strays>>

PersistCursor ==
    /\ pc = "set_cursor"
    /\ \/ SetCursor(event.doc, event.version)
       \/ Faults /\ UNCHANGED cursors
    /\ Goto("recv")
    /\ UNCHANGED <<docstore, handle, late, sinks, bounds, history>>

-----------------------------------------------------------------------------
(* The administrator, one call at a time; create_sink's quota is left out.  *)

SetSink(s, row) ==
    /\ Toggles
    /\ sinks' = [sinks EXCEPT ![s] = row]
    /\ strays' = IF s \in enabled THEN [strays EXCEPT ![s] = {}] ELSE strays
    /\ UNCHANGED <<docstore, handle, task, cursors, late, bounds, published, received, newest>>

CreateSink(s) == sinks[s] = "none" /\ SetSink(s, "enabled")

ToggleSink(s) ==
    \/ sinks[s] = "enabled" /\ SetSink(s, "disabled")
    \/ sinks[s] = "disabled" /\ SetSink(s, "enabled")

DeleteSink(s) == sinks[s] \in {"enabled", "disabled"} /\ SetSink(s, "gone")

Deliver == \E s \in Sinks : DeliverOk(s) \/ DeliverError(s) \/ DeliverRefused(s)

TaskStep ==
    \/ Recv \/ StreamEnded \/ CheckCursor \/ ListSinks \/ Deliver \/ PublishOk
    \/ PersistCursor

Next ==
    \/ \E d \in Docs : Change(d, "Updated") \/ Change(d, "Removed") \/ Resend(d)
    \/ CloseStream
    \/ Watch \/ Stop \/ LateCursorWrite
    \/ TaskStep
    \/ \E s \in Sinks : CreateSink(s) \/ ToggleSink(s) \/ DeleteSink(s)

Spec == Init /\ [][Next]_vars

\* The runtime keeps polling a task that can run.
TaskSpec == Spec /\ WF_vars(TaskStep)

\* Besides, a formation that is not watched is watched again after a restart.
RestartSpec == TaskSpec /\ WF_vars(Watch)

-----------------------------------------------------------------------------
(* What change data capture promises.                                       *)

\* A cursor stands only at a change that engine.publish has accepted, so what
\* deduplication skips has been published ("Persist cursor after successful
\* publish"): across aborts, crashes and cursor writes that land late.
CursorOnlyPublished ==
    \A d \in Docs : cursors[d] # 0 => <<d, cursors[d]>> \in published

\* A sink is never sent an older version of a document after a newer one,
\* retries, repeated changes and restarts included (one task, in order).
InOrder ==
    [][\A s \in Sinks, d \in Docs : newest'[s][d] >= newest[s][d]]_vars

\* A sink disabled while an event is being fanned out may still get that event,
\* from the listing made before, and none after it.
DisabledGetsNoMore == \A s \in Sinks : Cardinality(strays[s]) <= 1

Waiting(d, v) ==
    \E i \in 1..Len(stream) :
        stream[i].kind = "Updated" /\ stream[i].doc = d /\ stream[i].version = v

\* With stores and sinks that answer, every version of a document the watcher is
\* sent as Updated reaches every enabled webhook and NATS sink.  The documentation
\* promises it across restarts as well ("the engine replays undelivered changes").
EventuallyDelivered ==
    \A d \in Docs, v \in 1..MaxVersion, s \in Sinks :
        Waiting(d, v) /\ s \in enabled /\ Kind[s] # "kafka"
            ~> <<d, v>> \in received[s]

\* "the set of change hashes successfully delivered": where the cursor stands,
\* every enabled sink has received the change.
CursorMeansDelivered ==
    \A d \in Docs, s \in Sinks :
        cursors[d] # 0 /\ s \in enabled => <<d, cursors[d]>> \in received[s]

\* Whatever fails, the task keeps listening for as long as the document store
\* keeps the stream open.  Once the stream has ended the handle is of a dead
\* task, and watch_formation, which answers Ok for it, starts no other.
WatcherSurvives == handle /\ open => pc # "off"
=============================================================================
