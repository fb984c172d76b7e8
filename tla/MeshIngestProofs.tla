-------------------------- MODULE MeshIngestProofs --------------------------
(***************************************************************************)
(* Theorems about MeshIngest, for every set of collections, documents and  *)
(* peers: what the API lists has been given to the CDC engine, the events  *)
(* keep a subscriber up to date, and nothing is published twice.           *)
(***************************************************************************)
EXTENDS MeshIngest, FiniteSetTheorems, TLAPS

USE MeshAssumption

\* A fetched collection is a table of documents, and a count is a number.
LEMMA PeerCountType ==
    ASSUME peers \subseteq Peers
    PROVE  Cardinality(peers) \in Nat
BY FS_Subset, FS_CardinalityType

\* Recording a collection in the draft keeps it a snapshot.
LEMMA FetchType ==
    ASSUME NEW s \in Snapshot, NEW c \in Collections, NEW t \in Documents
    PROVE  [s EXCEPT !.documents[c] = t] \in Snapshot
<1>1. s.documents \in [Collections -> Documents \cup {None}]
  BY DEF Snapshot
<1>2. [s.documents EXCEPT ![c] = t] \in [Collections -> Documents \cup {None}]
  BY <1>1
<1> QED
  BY <1>2 DEF Snapshot

\* The types hold initially.
LEMMA TypeInit == Init => TypeOK
<1> SUFFICES ASSUME Init PROVE TypeOK
  OBVIOUS
<1>1. Blank \in Snapshot
  BY DEF Blank, Snapshot
<1>2. [c \in Collections |-> [d \in Docs |-> None]] \in [Collections -> Documents]
  BY DEF Documents
<1> QED
  BY <1>1, <1>2 DEF Init, TypeOK, Steps

\* Every step of the broker, the task or a restart keeps the types.
LEMMA TypeStep == TypeOK /\ [Next]_vars => TypeOK'
<1> SUFFICES ASSUME TypeOK, [Next]_vars PROVE TypeOK'
  OBVIOUS
<1>0. Blank \in Snapshot
  BY DEF Blank, Snapshot
<1> USE DEF TypeOK, Steps, broker, task, log, Answers, Fails
<1>1. ASSUME NEW c \in Collections, NEW d \in Docs, NEW v \in Versions \cup {None},
             DocumentChanges(c, d, v)
      PROVE  TypeOK'
  <2>1. docs' \in [Collections -> Documents]
    BY <1>1 DEF DocumentChanges, Documents
  <2> QED
    BY <1>1, <2>1 DEF DocumentChanges, Move
<1>2. ASSUME NEW ps \in SUBSET Peers, PeersChange(ps)
      PROVE  TypeOK'
  BY <1>2 DEF PeersChange, Move
<1>3. CASE ReadinessChanges
  <2>1. ready' \in BOOLEAN
    BY <1>3, Zenon DEF ReadinessChanges
  <2> QED
    BY <1>3, <2>1 DEF ReadinessChanges, Move
<1>4. CASE GoesDownOrUp
  <2>1. up' \in BOOLEAN
    BY <1>4, Zenon DEF GoesDownOrUp
  <2> QED
    BY <1>4, <2>1 DEF GoesDownOrUp, Move
<1>5. CASE GetNode
  BY <1>5 DEF GetNode
<1>6. CASE GetTopology
  <2>1. draft' \in Snapshot
    BY <1>6, PeerCountType DEF GetTopology, Snapshot
  <2> QED
    BY <1>6, <2>1 DEF GetTopology
<1>7. CASE GetReady
  <2>1. draft' \in Snapshot
    BY <1>7 DEF GetReady, Snapshot
  <2>2. glitches' \in 0..MaxGlitches
    BY <1>7 DEF GetReady
  <2> QED
    BY <1>7, <2>1, <2>2 DEF GetReady
<1>8. CASE GetPeers
  <2>1. draft' \in Snapshot
    BY <1>8 DEF GetPeers, Snapshot
  <2> QED
    BY <1>8, <2>1 DEF GetPeers
<1>9. ASSUME NEW c \in Collections, GetDocuments(c)
      PROVE  TypeOK'
  <2>1. docs[c] \in Documents
    OBVIOUS
  <2>2. draft' \in Snapshot
    BY <1>9, <2>1, FetchType DEF GetDocuments
  <2> QED
    BY <1>9, <2>2 DEF GetDocuments
<1>10. CASE RefreshFails
  <2>1. snapshot' \in Snapshot
    BY <1>10 DEF RefreshFails, RecordError, Snapshot
  <2> QED
    BY <1>0, <1>10, <2>1 DEF RefreshFails, AfterError
<1>11. CASE PublishCdcDiffs
  BY <1>11 DEF PublishCdcDiffs, Changed, Shown
<1>12. ASSUME NEW e \in Entries, PublishOne(e)
       PROVE  TypeOK'
  BY <1>12 DEF PublishOne
<1>13. CASE EmitDiffs
  <2>1. Replayed \in [peers : SUBSET Peers, peer_count : Nat]
    BY DEF Replayed, Snapshot
  <2> QED
    BY <1>13, <2>1 DEF EmitDiffs
<1>14. CASE Swap
  BY <1>0, <1>14 DEF Swap
<1>15. CASE NextPoll
  BY <1>15 DEF NextPoll
<1>16. CASE NeverAnswers
  BY <1>0, <1>16 DEF NeverAnswers
<1>17. CASE Restart
  BY <1>0, <1>17 DEF Restart
<1>18. CASE UNCHANGED vars
  BY <1>18 DEF vars
<1> QED
  BY <1>1, <1>2, <1>3, <1>4, <1>5, <1>6, <1>7, <1>8, <1>9, <1>10, <1>11, <1>12,
     <1>13, <1>14, <1>15, <1>16, <1>17, <1>18
     DEF Next, BrokerStep, TaskStep

\* What the broker answers and what the task keeps of it stay well-formed: the
\* snapshot the API serves has all its fields, of the right kind, after every
\* poll, failed or not, and after every restart.
THEOREM TypeCorrect == Spec => []TypeOK
BY TypeInit, TypeStep, PTL DEF Spec

-----------------------------------------------------------------------------
(* The invariant behind the safety properties.                              *)

Shows == Shown(snapshot.documents, Collections)
Drafted == Shown(draft.documents, Collections)
Known == handed \cup lost

\* What the snapshot shows has been to the engine; of the draft, once the
\* comparison is made, everything but what is still queued.
PublishedFirst ==
    /\ Shows \subseteq Known
    /\ step = "publish" => Drafted \subseteq Known \cup queue
    /\ step = "swap" => Drafted \subseteq Known

\* The history holds nothing the snapshot does not show, outside a
\* publication; the queue lives for one publication only.
NothingElseKnown ==
    /\ step \notin {"publish", "swap"} => Known \subseteq Shows
    /\ step # "publish" => queue = {}
    /\ queue \cap Known = {}

\* The subscriber is at the snapshot, or, between the events and the swap, at
\* the draft.
ViewFollows ==
    LET at == IF step = "swap" THEN draft ELSE snapshot
    IN  view = [peers |-> at.peers, peer_count |-> at.peer_count]

IngestInv == PublishedFirst /\ NothingElseKnown /\ ViewFollows

\* The invariant holds of a started task.
LEMMA IngestInit == Init => IngestInv
BY DEF Init, Blank, IngestInv, PublishedFirst, NothingElseKnown, ViewFollows,
       Shows, Drafted, Known, Shown

\* Recording an error leaves what the snapshot shows and who is in it alone.
LEMMA ErrorKeeps ==
    ASSUME TypeOK
    PROVE  /\ RecordError.documents = snapshot.documents
           /\ RecordError.peers = snapshot.peers
           /\ RecordError.peer_count = snapshot.peer_count
BY DEF RecordError, TypeOK, Snapshot

\* Replaying the differences to a subscriber at the old snapshot brings it to
\* the draft.
LEMMA ReplayReaches ==
    ASSUME TypeOK, view = [peers |-> snapshot.peers, peer_count |-> snapshot.peer_count]
    PROVE  Replayed = [peers |-> draft.peers, peer_count |-> draft.peer_count]
<1>1. Replayed.peers = draft.peers
  BY DEF Replayed, TypeOK, Snapshot
<1>2. Replayed.peer_count = draft.peer_count
  BY DEF Replayed, TypeOK, Snapshot
<1> QED
  BY <1>1, <1>2 DEF Replayed

\* Every step keeps the invariant.
LEMMA IngestStep == TypeOK /\ IngestInv /\ [Next]_vars => IngestInv'
<1> SUFFICES ASSUME TypeOK, IngestInv, [Next]_vars PROVE IngestInv'
  OBVIOUS
<1> USE DEF IngestInv, PublishedFirst, NothingElseKnown, ViewFollows, Shows, Drafted, Known
<1>1. CASE UNCHANGED <<task, snapshot, view, log>>
  BY <1>1 DEF task, log
<1>2. CASE \/ GetNode \/ GetTopology \/ GetReady \/ GetPeers \/ NextPoll
           \/ \E c \in Collections : GetDocuments(c)
  <2>1. /\ step \notin {"publish", "swap"} /\ step' \notin {"publish", "swap"}
        /\ UNCHANGED <<snapshot, view, handed, lost, queue>>
    BY <1>2 DEF GetNode, GetTopology, GetReady, GetPeers, NextPoll, GetDocuments, log
  <2> QED
    BY <2>1
<1>3. CASE RefreshFails
  <2>1. /\ step \notin {"publish", "swap"} /\ step' \notin {"publish", "swap"}
        /\ UNCHANGED <<view, handed, lost, queue>>
    BY <1>3 DEF RefreshFails, AfterError, log
  <2>2. /\ snapshot'.documents = snapshot.documents
        /\ snapshot'.peers = snapshot.peers
        /\ snapshot'.peer_count = snapshot.peer_count
    BY <1>3, ErrorKeeps DEF RefreshFails
  <2> QED
    BY <2>1, <2>2
<1>4. CASE PublishCdcDiffs
  BY <1>4 DEF PublishCdcDiffs, Changed, log
<1>5. ASSUME NEW e \in Entries, PublishOne(e)
      PROVE  IngestInv'
  <2>1. /\ step = "publish" /\ UNCHANGED <<step, draft, snapshot, view>>
        /\ Known' = Known \cup {e} /\ queue' = queue \ {e} /\ e \in queue
    BY <1>5 DEF PublishOne
  <2> QED
    BY <2>1
<1>6. CASE EmitDiffs
  BY <1>6, ReplayReaches DEF EmitDiffs, log
<1>7. CASE Swap
  BY <1>7 DEF Swap
<1>8. CASE NeverAnswers
  BY <1>8 DEF NeverAnswers, log
<1>9. CASE Restart
  BY <1>9 DEF Restart, Blank, Shown
<1>10. ASSUME NEW c \in Collections, NEW d \in Docs, NEW v \in Versions \cup {None},
              DocumentChanges(c, d, v)
       PROVE  UNCHANGED <<task, snapshot, view, log>>
  BY <1>10 DEF DocumentChanges
<1>11. BrokerStep => UNCHANGED <<task, snapshot, view, log>>
  BY <1>10 DEF BrokerStep, PeersChange, ReadinessChanges, GoesDownOrUp
<1> QED
  BY <1>1, <1>2, <1>3, <1>4, <1>5, <1>6, <1>7, <1>8, <1>9, <1>11
     DEF Next, TaskStep, vars

\* The invariant holds throughout.
LEMMA IngestAlways == Spec => [](TypeOK /\ IngestInv)
BY TypeInit, TypeStep, IngestInit, IngestStep, PTL DEF Spec

\* Whatever polls failed, were incomplete or were cut short by a restart, the
\* API lists no document that this process has not given to the CDC engine in
\* those contents: publish_cdc_diffs runs to its end before the swap.
THEOREM ListedHanded == Spec => []ListedWasHanded
<1>1. IngestInv => ListedWasHanded
  <2>1. ListDocuments \subseteq Shows
    BY DEF ListDocuments, Shows, Shown, Entries
  <2> QED
    BY <2>1 DEF ListedWasHanded, IngestInv, PublishedFirst, Known
<1> QED
  BY <1>1, IngestAlways, PTL

\* A subscriber that replays the peer events is at the API's snapshot except
\* between emit_diffs and the swap, also after polls that failed half way:
\* record_error touches neither the peers nor the count.
THEOREM EventsTrack == Spec => []EventsTrackSnapshot
<1>1. IngestInv => EventsTrackSnapshot
  BY DEF IngestInv, ViewFollows, EventsTrackSnapshot, ListPeers
<1> QED
  BY <1>1, IngestAlways, PTL

\* A document in the queue is none the engine has had since the snapshot began
\* to show it: failed polls keep the documents of the old snapshot, so the next
\* comparison does not repeat them.
THEOREM NeverRepeated == Spec => []NoRepeat
<1>1. IngestInv => NoRepeat
  BY DEF IngestInv, NothingElseKnown, NoRepeat, Known
<1> QED
  BY <1>1, IngestAlways, PTL

=============================================================================
