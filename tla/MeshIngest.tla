----------------------------- MODULE MeshIngest -----------------------------
(***************************************************************************)
(* One remote mesh broker and the task that polls it: refresh_once fetches *)
(* node, topology, readiness, peers and every collection in turn, compares *)
(* the result with the snapshot of the poll before, hands what has changed *)
(* to the CDC engine, tells subscribers which peers came and went, and     *)
(* installs the new snapshot, which the API serves.                        *)
(*                                                                         *)
(* The broker changes between any two calls, stops answering, refuses one  *)
(* endpoint or never answers (the HTTP client has no timeout).  Nothing of *)
(* the snapshot survives a restart of the gateway.                         *)
(***************************************************************************)
EXTENDS Naturals, FiniteSets

CONSTANTS Named,          \* collections the PEAT_MESH_BROKERS entry names
          DefaultCollections,
          AppCollection,  \* the collection called like the formation
          Docs,           \* documents a collection may hold
          Identified,     \* those with a string _id or uid
          Versions,       \* contents of a document
          Peers,
          Intervals,      \* values of mesh_poll_interval_ms
          None,
          MaxMoves,       \* bound on changes at the broker
          MaxGlitches,    \* bound on calls that fail though the broker is up
          MaxRestarts     \* bound on restarts of the gateway

ASSUME MeshAssumption ==
    /\ Identified \subseteq Docs
    /\ IsFiniteSet(Peers)
    /\ None \notin Versions
    /\ Intervals \subseteq Nat
    /\ MaxMoves \in Nat /\ MaxGlitches \in Nat /\ MaxRestarts \in Nat

\* parse_mesh_broker_mappings: an entry without collections gets the defaults.
Collections == IF Named = {} THEN DefaultCollections ELSE Named

Documents == [Docs -> Versions \cup {None}]

Snapshot ==
    [peers : SUBSET Peers, peer_count : Nat, ready : BOOLEAN,
     documents : [Collections -> Documents \cup {None}]]

\* Snapshot::new, and the fields refresh_once has not fetched yet.
Blank ==
    [peers |-> {}, peer_count |-> 0, ready |-> FALSE,
     documents |-> [c \in Collections |-> None]]

VARIABLES docs, peers, ready, up,   \* the broker; up: it answers at all
          interval,   \* mesh_poll_interval_ms
          step,       \* where the polling task is
          draft,      \* the new snapshot of the refresh under way
          left,       \* collections still to fetch
          queue,      \* changed documents still to publish
          snapshot,   \* what the API serves
          view,       \* the peers and the count a subscriber knows of
          handed,     \* history: contents the CDC engine took, and shown since
          lost,       \* history: contents it answered an error for, shown since
          moves, glitches, restarts   \* how much of each bound is used

broker == <<docs, peers, ready, up, moves>>
task == <<step, draft, left, queue>>
log == <<handed, lost>>
vars == <<broker, interval, task, snapshot, view, log, glitches, restarts>>

Steps == {"node", "topology", "ready", "peers", "documents", "publish",
          "swap", "wait", "hung", "ended"}

Entries == Collections \X Docs \X Versions

TypeOK ==
    /\ docs \in [Collections -> Documents] /\ peers \subseteq Peers
    /\ ready \in BOOLEAN /\ up \in BOOLEAN
    /\ interval \in Intervals
    /\ step \in Steps
    /\ draft \in Snapshot /\ snapshot \in Snapshot
    /\ left \subseteq Collections /\ queue \subseteq Entries
    /\ view \in [peers : SUBSET Peers, peer_count : Nat]
    /\ handed \subseteq Entries /\ lost \subseteq Entries
    /\ moves \in 0..MaxMoves /\ glitches \in 0..MaxGlitches /\ restarts \in 0..MaxRestarts

\* serve spawns the task and registers its state.
Init ==
    /\ docs = [c \in Collections |-> [d \in Docs |-> None]]
    /\ peers = {}
    /\ ready = TRUE /\ up = TRUE
    /\ interval \in Intervals
    /\ step = "node"
    /\ draft = Blank /\ snapshot = Blank
    /\ left = {} /\ queue = {}
    /\ view = [peers |-> {}, peer_count |-> 0]
    /\ handed = {} /\ lost = {}
    /\ moves = 0 /\ glitches = 0 /\ restarts = 0

-----------------------------------------------------------------------------
(* The broker.                                                              *)

Move == moves < MaxMoves /\ moves' = moves + 1

\* A document is written, rewritten or removed.
DocumentChanges(c, d, v) ==
    /\ Move
    /\ docs[c][d] # v
    /\ docs' = [docs EXCEPT ![c][d] = v]
    /\ UNCHANGED <<peers, ready, up, interval, task, snapshot, view, log, glitches, restarts>>

PeersChange(ps) ==
    /\ Move
    /\ ps # peers
    /\ peers' = ps
    /\ UNCHANGED <<docs, ready, up, interval, task, snapshot, view, log, glitches, restarts>>

ReadinessChanges ==
    /\ Move
    /\ ready' = ~ready
    /\ UNCHANGED <<docs, peers, up, interval, task, snapshot, view, log, glitches, restarts>>

GoesDownOrUp ==
    /\ Move
    /\ up' = ~up
    /\ UNCHANGED <<docs, peers, ready, interval, task, snapshot, view, log, glitches, restarts>>

-----------------------------------------------------------------------------
(* refresh_once, one GET after the other.                                   *)

\* get_json answers Ok, or an error: no connection, a bad status, a bad body.
Answers == up /\ UNCHANGED glitches
Fails == \/ ~up /\ UNCHANGED glitches
         \/ up /\ glitches < MaxGlitches /\ glitches' = glitches + 1

GetNode ==
    /\ step = "node"
    /\ Answers
    /\ step' = "topology"
    /\ UNCHANGED <<broker, interval, draft, left, queue, snapshot, view, log, restarts>>

GetTopology ==
    /\ step = "topology"
    /\ Answers
    /\ draft' = [draft EXCEPT !.peer_count = Cardinality(peers)]
    /\ step' = "ready"
    /\ UNCHANGED <<broker, interval, left, queue, snapshot, view, log, restarts>>

\* A ready probe that fails is an answer: not ready.
GetReady ==
    /\ step = "ready"
    /\ \/ Answers /\ draft' = [draft EXCEPT !.ready = ready]
       \/ Fails /\ draft' = [draft EXCEPT !.ready = FALSE]
    /\ step' = "peers"
    /\ UNCHANGED <<broker, interval, left, queue, snapshot, view, log, restarts>>

GetPeers ==
    /\ step = "peers"
    /\ Answers
    /\ draft' = [draft EXCEPT !.peers = peers]
    /\ left' = Collections
    /\ step' = "documents"
    /\ UNCHANGED <<broker, interval, queue, snapshot, view, log, restarts>>

\* A collection that cannot be fetched is left out of the new snapshot.
GetDocuments(c) ==
    /\ step = "documents" /\ c \in left
    /\ \/ Answers /\ draft' = [draft EXCEPT !.documents[c] = docs[c]]
       \/ Fails /\ UNCHANGED draft
    /\ left' = left \ {c}
    /\ UNCHANGED <<broker, interval, step, queue, snapshot, view, log, restarts>>

\* Mutant: a failed poll leaves the readiness of the last one.
RecordErrorKeepingReady == snapshot

\* Mutant: a failed poll empties the documents.
RecordErrorClearing == [Blank EXCEPT !.peers = snapshot.peers, !.peer_count = snapshot.peer_count]

RecordError == [snapshot EXCEPT !.ready = FALSE]

\* Mutant: the loop ends with the first failed poll.
AfterErrorEnd == "ended"

AfterError == "wait"

\* node, topology and peers: the refresh is given up and record_error called.
RefreshFails ==
    /\ step \in {"node", "topology", "peers"}
    /\ Fails
    /\ snapshot' = RecordError
    /\ draft' = Blank
    /\ step' = AfterError
    /\ UNCHANGED <<broker, interval, left, queue, view, log, restarts>>

\* The client has no timeout: an answer that does not come is waited for.
NeverAnswers ==
    /\ step \in {"node", "topology", "ready", "peers", "documents"}
    /\ glitches < MaxGlitches /\ glitches' = glitches + 1
    /\ step' = "hung"
    /\ draft' = Blank /\ left' = {}
    /\ UNCHANGED <<broker, interval, queue, snapshot, view, log, restarts>>

-----------------------------------------------------------------------------
(* publish_cdc_diffs, emit_diffs and the swap.                              *)

\* The identified documents of a set of collections, some of them not fetched.
Shown(documents, cs) ==
    {e \in Entries : /\ e[1] \in cs /\ documents[e[1]] # None
                     /\ e[2] \in Identified /\ documents[e[1]][e[2]] = e[3]}

\* Mutant: the snapshot is swapped before the comparison.
ChangedAfterSwap ==
    Shown(draft.documents, Collections) \ Shown(draft.documents, Collections)

\* New documents, and those whose hash is not the one in the old snapshot.
Changed == Shown(draft.documents, Collections) \ Shown(snapshot.documents, Collections)

PublishCdcDiffs ==
    /\ step = "documents" /\ left = {}
    /\ queue' = Changed
    /\ step' = "publish"
    /\ UNCHANGED <<broker, interval, draft, left, snapshot, view, log, glitches, restarts>>

\* engine.publish; its error is logged and the document is not tried again.
PublishOne(e) ==
    /\ step = "publish" /\ e \in queue
    /\ \/ /\ handed' = handed \cup {e}
          /\ lost' = lost \ {e} /\ UNCHANGED glitches
       \/ /\ glitches < MaxGlitches /\ glitches' = glitches + 1
          /\ lost' = lost \cup {e} /\ UNCHANGED handed
    /\ queue' = queue \ {e}
    /\ UNCHANGED <<broker, interval, step, draft, left, snapshot, view, restarts>>

\* Mutant: departures are not announced.
ReplayedJoinsOnly ==
    [peers |-> view.peers \cup (draft.peers \ snapshot.peers), peer_count |-> draft.peer_count]

\* Mutant: TopologyChanged carries the difference.
ReplayedDifference ==
    [peers |-> draft.peers, peer_count |-> draft.peer_count - snapshot.peer_count]

\* A subscriber's view after PeerConnected for the peers that are new,
\* PeerDisconnected for those that are missing, and TopologyChanged (its role,
\* and the SyncEvents of documents with a new id, are not part of the view).
Replayed ==
    [peers |-> (view.peers \cup (draft.peers \ snapshot.peers)) \ (snapshot.peers \ draft.peers),
     peer_count |-> IF draft.peer_count # snapshot.peer_count THEN draft.peer_count
                                                             ELSE view.peer_count]

EmitDiffs ==
    /\ step = "publish" /\ queue = {}
    /\ view' = Replayed
    /\ step' = "swap"
    /\ UNCHANGED <<broker, interval, draft, left, queue, snapshot, log, glitches, restarts>>

Swap ==
    /\ step = "swap"
    /\ snapshot' = draft
    /\ handed' = handed \cap Shown(draft.documents, Collections)
    /\ lost' = lost \cap Shown(draft.documents, Collections)
    /\ draft' = Blank
    /\ step' = "wait"
    /\ UNCHANGED <<broker, interval, left, queue, view, glitches, restarts>>

\* tokio::time::interval panics on a period of zero.
NextPoll ==
    /\ step = "wait"
    /\ step' = IF interval = 0 THEN "ended" ELSE "node"
    /\ UNCHANGED <<broker, interval, draft, left, queue, snapshot, view, log, glitches, restarts>>

-----------------------------------------------------------------------------
\* The gateway is started again with the same configuration: a new task, an
\* empty snapshot, new subscribers.
Restart ==
    /\ restarts < MaxRestarts
    /\ restarts' = restarts + 1
    /\ step' = "node"
    /\ draft' = Blank /\ snapshot' = Blank
    /\ left' = {} /\ queue' = {}
    /\ view' = [peers |-> {}, peer_count |-> 0]
    /\ handed' = {} /\ lost' = {}
    /\ UNCHANGED <<broker, interval, glitches>>

BrokerStep ==
    \/ \E c \in Collections, d \in Docs, v \in Versions \cup {None} : DocumentChanges(c, d, v)
    \/ \E ps \in SUBSET Peers : PeersChange(ps)
    \/ ReadinessChanges
    \/ GoesDownOrUp

TaskStep ==
    \/ GetNode \/ GetTopology \/ GetReady \/ GetPeers
    \/ \E c \in Collections : GetDocuments(c)
    \/ RefreshFails
    \/ PublishCdcDiffs
    \/ \E e \in Entries : PublishOne(e)
    \/ EmitDiffs \/ Swap \/ NextPoll

Next == BrokerStep \/ TaskStep \/ NeverAnswers \/ Restart

\* The runtime keeps running the task, and a call it waits for returns, unless
\* it is one that never does.
Spec == Init /\ [][Next]_vars /\ WF_vars(TaskStep)

-----------------------------------------------------------------------------
(* What the API serves from the snapshot.                                   *)

ListPeers == snapshot.peers

\* list_documents prefers the collection with the formation's name; documents
\* without an id, which it lists as "unknown", are left out here.
ListDocuments ==
    IF AppCollection \in Collections /\ snapshot.documents[AppCollection] # None
    THEN Shown(snapshot.documents, {AppCollection})
    ELSE Shown(snapshot.documents, DefaultCollections)

\* Every document the API lists has been given to the CDC engine by this
\* process, in the contents that are listed (publish before swap), whatever
\* polls failed or were incomplete before; an error of the engine is final.
ListedWasHanded == ListDocuments \subseteq handed \cup lost

\* Between two polls a subscriber that replays the events since the start
\* knows the peers and the peer count that the API serves, also after polls
\* that failed half way.
EventsTrackSnapshot ==
    step # "swap" => view = [peers |-> ListPeers, peer_count |-> snapshot.peer_count]

\* Contents that the snapshots have shown ever since they were published are
\* not published again: a failed poll does not make the next one repeat them.
NoRepeat == queue \cap (handed \cup lost) = {}

\* The polling task still runs: only an answer that never comes, or a poll
\* interval of zero, stops it.
Polling == step # "hung" /\ interval # 0

\* A broker that stays away is not reported ready for ever.
DownIsNoticed == <>[](~up /\ Polling) => <>[]~snapshot.ready

\* A document that stays at the broker unchanged is eventually given to the
\* CDC engine, however many polls failed or missed its collection before.
EventuallyHanded ==
    \A c \in Collections, d \in Identified, v \in Versions :
        <>[](up /\ docs[c][d] = v /\ Polling) => <>[](<<c, d, v>> \in handed \cup lost)
=============================================================================
