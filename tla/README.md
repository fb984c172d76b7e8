# peat-gateway: a TLA+ verification project

peat-gateway is the control plane of peat meshes. Organizations own formations
(meshes), each formation has a root of trust (its genesis), devices enroll in a
formation and get a certificate, and changes of a formation's documents are sent
to sinks. This directory models the parts of the gateway that keep state and
that run concurrently, checks them with TLC on small instances, and proves with TLAPS,
for instances of any size, every safety property that a passing run checks.

Every name `file.rs:n` below is relative to the repository's `src/`.

## The system

One process (`main.rs`) runs an axum HTTP server, a CDC engine and pollers of remote
brokers, which hand the engine what has changed. `CdcWatcher`, with a task per watched
formation, is library code: at this commit only tests construct it, so what is said below
of the watcher concerns a part that the gateway does not start yet. All of them share one
`TenantManager`, which holds no tables of its own: **every request reads and writes
through the `StorageBackend` trait, and every method of the trait is one
transaction, but no operation of the manager is.** There is no lock, no
transaction across two calls and no version number in a row. That is the source of
most of what is hard here.

| Component | State | Operations | Interacts with | What is hard |
|---|---|---|---|---|
| Storage backends (`storage/`) | one table per kind of row | insert, update, delete, list, cascade | called by everything | redb's update is an insert and knows no foreign keys; Postgres refuses duplicates and orphans, its UPDATE of a missing row answers Ok |
| Tokens (`tenant/manager.rs:262-391`, `api/tokens.rs`) | token rows: `uses`, `max_uses`, `expires_at`, `revoked` | create, revoke, delete, validate_and_consume | enroll handler consumes | read, check, write back of a whole row, unlocked |
| Orgs, formations, genesis (`tenant/manager.rs:70-252`, `api/orgs.rs`) | three tables | create, patch, delete | parents of all other rows; genesis signs certificates | quota and uniqueness checked before the insert; two writes for one formation; failures in between |
| Enrollment (`api/enroll.rs`) | the locals of a request | enroll | tokens, IdPs, rules, audit, genesis, an external identity provider | up to eight awaits, each a chance for state to change; rate limit counted before the entry is added |
| IdPs, policy rules, audit (`api/identity.rs`) | three tables | create, toggle, delete, append, list | read by enroll | a limit cast to a signed integer |
| CDC engine, and the watcher that tests start (`cdc/`) | handles map, a task per formation, cursors | watch, unwatch, publish | document store (external), sinks | aborts, restarts, retries, duplicates, a sink that fails |
| Sink configuration (`api/sinks.rs`) | sink rows | create, toggle, delete | listed by the engine | quota checked before the insert; a toggle writes back a row it has read |
| Envelope encryption (`crypto/`) | none (key providers) | build_key_provider, seal, is_envelope, open | genesis at rest | plaintext and sealed records side by side, several providers, providers that are not compiled in |
| Key migration (`cli.rs`) | rewrites genesis rows | migrate_keys | store, perhaps under a running gateway | read, seal, write back; killed half way and run again |
| Remote broker polling (`mesh_ingest.rs`) | snapshot per broker | refresh_once, publish_cdc_diffs, emit_diffs, record_error | CDC engine, event channel, the peers and documents endpoints | a broker that changes between the calls of one poll, failed polls, calls that never return |
| Admin auth, health, config, load test, UI, chart | none that changes | | | nothing to model |

What makes each correct: a token is never worth more than it says and stays
revoked and deleted; a formation, its row and its key material appear and
disappear together, inside their organization and its quota; an enrollment obeys
the policy, the rules and the rate limit; a cursor never runs ahead of what was
published, and every change arrives; a record is sealed once and loads for the
gateway it was sealed for; what the API lists of a remote mesh has been handed to the
sinks and is what subscribers were told. `PROJECT.json` lists the hazards at their
lines and which property watches which.

## Modules

| Module | Models |
|---|---|
| `Storage` | the two backends as operators on one table; the variable `backend` is fixed by `storage::open` at start-up |
| `Tokens` | token requests, each store call a step |
| `TokenLedger` | the abstract specification: a token is redeemed or revoked in one step |
| `Tenants` | organization, formation, genesis, sink, identity provider and policy rule requests, each store call a step |
| `Envelope` | key provider selection, seal, is_envelope, open and load_genesis as operators |
| `KeyMigration` | a gateway process and a migrate-keys process over one store, on top of `Envelope` |
| `MeshIngest` | the polling task of one remote broker, each HTTP call a step, and what the API serves |
| `Enrollment` | the enroll handler, each awaited call a step, beside an administrator |
| `Cdc` | document store (external), watcher task, engine, sinks, cursors |
| `TokensProofs`, `TenantsProofs`, `KeyMigrationProofs`, `MeshIngestProofs`, `EnrollmentProofs`, `CdcProofs` | theorems about the six models |
| `CountingLemmas` | least elements and cardinalities, for `TenantsProofs` and `EnrollmentProofs` |
| `MCTokens`, `MCTenants`, `MCKeyMigration`, `MCMeshIngest`, `MCEnrollment`, `MCCdc` | model values and symmetry for TLC |

### Storage

A table is a function from keys to rows with `NoRow` for an absent key. `Update`
creates a missing row over redb and does nothing over Postgres; `Insert` always
happens over redb and needs a free key and a live organization over Postgres;
`CascadeDelete` is what `delete_org` does to a child table. The encoding of rows is
left out. The models that use the store are parameterised by the set
`Backends` and check both.

### Tokens

A request is `create_token`, `validate_and_consume_token`, `revoke_token` or
`delete_token`; `pc[r]` is the store call it makes next and `copy[r]` the row it has
read. `ConsumeGet`, `ConsumeCheck`, `ConsumeWrite` and `ConsumeReturn` are the four
parts of a consume between which others run; the clock (`Tick`) may pass the expiry
in between. Organizations and formations are deleted and created by single steps,
as seen from the token table. `Drop` is a request that stops between two calls.
Token ids are random in the code and drawn from unused ones here (`FreshIds`).

`calm` is a history variable: no request has arrived while another was in progress. The
refinement below uses it.

### Tenants

`create_formation` is five steps (`get_org`, `list_formations`, `get_formation`, the
row, the genesis), `delete_formation` two, `create_org` and `update_org` two each,
`delete_org` one. The genesis is identified by the request that created it, so that
the model can tell which genesis is stored with which row; sealing is left to
`KeyMigration`. The gateway starts over formations (within the quota) and genesis
records of live organizations, either without the other, as an earlier run leaves them
that was cut short in a create or a delete. Settings start empty, and there is no row of
an organization that is gone: over redb an earlier run can have left some, and a later
gateway does to them what it does to those it leaves itself.

Sinks, identity providers and policy rules are rows of one table `settings`, told apart
by their ids: the calls on the three kinds differ only in that a sink has a quota and a
rule cannot be switched. `create_sink` is three steps, `create_idp` and
`create_policy_rule` two, the toggles two (read, write back), the deletes one. One number
stands for `max_formations` and `max_cdc_sinks`, which are checked alike.

Any request may stop after any call, and `delete_genesis` may fail, which the code
ignores. Since a formation is two rows written and removed by separate calls, history
variables record what can part them: `cutShort` (a create that stopped before its
genesis), `spared` (a delete that did not remove it) and `crossed` (a create whose two
writes another call on the name went between). `overtaken` are the requests during which
their organization was deleted. The properties hold for all requests, overlapping or not, and name
these as the only exceptions. `calm` records that requests have neither overlapped nor
failed, for the few promises that hold only until then.

### Envelope and KeyMigration

Bytes are the mesh they encode and the list of providers that have sealed them.
`BuildKeyProvider` keeps the order of the code (KMS, Vault, local KEK, plaintext) and its
refusals: a feature that is not compiled in, a missing Vault token, a KEK that is not 32
bytes of hex. `Unwraps` is what the providers do with each other's wrapped keys: local
and Vault keys open only their own, KMS Decrypt is not told a key and opens whatever KMS
key wrapped it.

`KeyMigration` runs the two commands of `main.rs` over one store. The gateway is started
with some configuration, creates and deletes formations (the calls of `Tenants` as far as
they touch key material) and stops. `migrate_keys` lists the formations, then for each
reads, skips or seals and verifies, and stores, and prints its summary; it may be a dry
run, be killed anywhere and be started again with another configuration. redb locks its
file, so the two never run at once; over Postgres nothing prevents it, and `disciplined`
records whether the operator did as the comment in `cli.rs` says.

### MeshIngest

`refresh_once` is a step per GET (node, topology, readiness, peers, each collection),
then the comparison, one step per publication, the events and the swap. The broker moves
between any two: documents are written and removed, peers come and go, readiness
changes, it goes away and comes back. A GET is refused (`Fails`) or never returns
(`NeverAnswers`: `Client::new()` sets no timeout). A failed node, topology or peers call
gives the refresh up, a failed readiness call means not ready, a failed collection is
left out of the snapshot. `view` is what a subscriber to the event channel knows who
replays every event since the start. `handed` and `lost` hold the contents the CDC engine
took or answered an error for, and forget those the snapshot no longer shows. A restart
of the gateway empties everything but the broker. The inside of `engine.publish` is
`Cdc`; peer states, roles, `SyncEvent`s and two documents with one id are left out.

### Enrollment

One formation of one organization. A request reads org and formation, counts the
recent audit entries, applies the policy, consumes a token or asks the identity
provider and evaluates the rules, appends its audit entry and loads the genesis to
sign a certificate. `validate_and_consume_token` succeeds or fails (its inside is
`Tokens`); the identity provider answers with any set of claims or not at all. An
administrator deletes and recreates the formation (two writes each), changes the
rules, creates, switches and deletes the provider, deletes the organization, one call at
a time. The quota is a constant; matching of a claim by JSON type, permission bits and the
certificate's bytes are left out. Fields of a request that nothing will read again
are cleared. `ever` and `always` are history: the rules stored at some time, and all
the time, while the identity provider was asked.

### Cdc

The document store sends `Updated`, `Removed` and `Initial` events through a channel;
the task receives one, skips it when the cursor shows the same change (updates only),
lists the sinks, serves each in turn (webhooks are retried, a Kafka sink sends
nothing), and persists the cursor when `publish` answers Ok, which it always does once
the sinks are listed. `Stop` is unwatch, shutdown or a crash: it aborts the task, and a
cursor write already handed to a blocking thread may land later (`LateCursorWrite`).
`CloseStream` ends the stream and leaves the handle of the dead task in the map.
Meanwhile an administrator creates, switches and deletes sinks, one call at a time and
within the quota. Waiting times between retries are left out: they only delay.

## Runs

| Run | Expect | Checks |
|---|---|---|
| `tokens` | pass | `TypeOK`, `UsesWithinMax`, `UsesAccountedFor`, `GrantsJustified`, `NoOrphanTokens`, `RevocationHolds`, `DeletionHolds`, `RefinesLedger` |
| `tokens_overspend` | violation | `GrantsWithinMax` |
| `tokens_unrevoke` | violation | `RevokedStaysRevoked` |
| `tenants` | pass | `TypeOK`, `NoOrphans`, `OneCreateWins`, `QuotaRespected`, `KeypairHasFormation`, `FormationHasKeypair`, `QuotaChangeHolds`, `OrgReturnsByCreateOnly`, `DeletedSettingStaysGone` |
| `migration` | pass | `TypeOK`, `SealedOnce`, `ReportTrue`, `Loadable`, `ConfiguredMeansSealed`, `MigrationKeepsMesh` |
| `mesh` | pass | `TypeOK`, `ListedWasHanded`, `EventsTrackSnapshot`, `NoRepeat`, `DownIsNoticed`, `EventuallyHanded` |
| `enrollment` | pass | `TypeOK`, `RateOvershootBounded`, `PolicyEnforced`, `TierJustified` |
| `enrollment_postgres` | violation | `OpenAdmits` |
| `cdc` | pass | `TypeOK`, `CursorOnlyPublished`, `WatcherSurvives`, `DisabledGetsNoMore`, `InOrder` |
| `cdc_live` | pass | `EventuallyDelivered` |
| `cdc_lost_delivery` | violation | `CursorMeansDelivered` |
| `cdc_restart` | violation | `EventuallyDelivered` |

**tokens.** Three requests in progress at once, one token of no limit or of `max_uses` 0, 1
or 2, both backends. The counter
never passes `max_uses` and never exceeds the approvals it stands for; an approval is
justified by the row the request had read; a revocation or a deletion is undone only
by a request that had read the row before (and a deletion only over redb). Three
requests are enough for two stale writers and one change between them.

`RefinesLedger` says that the token calls implement `TokenLedger`, in which a token is
redeemed at most `max_uses` times and never once revoked, up to the first overlap: the
ledger's variable `kept` is mapped to `calm`, and once that is false the ledger promises
nothing. Together with the two violations this says that the token code is right except
for overlap.

**tenants.** Three requests, two at a time, with failures, three formation names, three
sinks, one identity provider, one rule, quotas of 0 and 1, both backends. Three names and
three sinks leave room above the bound of two that `QuotaRespected` sets once requests
overlap; three requests are two that cross and one that meets what they left. Over
Postgres nothing is orphaned and no name is made twice; over redb the orphans are those of
overtaken requests.
A keypair outlives its formation only where a delete failed or stopped half way or a
create was crossed, and a formation lacks its keypair only where its create was cut short
or crossed. A PATCH that does not name the quotas can only put back those it had
read, and only under overlap. A deleted sink, provider or rule comes back over redb alone,
and only by a toggle that had read it.

**migration.** Two formations, two requests, two starts of each command, six
configurations: no key, a local KEK, one that is malformed, two KMS keys, and a Vault
address in a build without Vault. Two migrations are needed for one that is killed and one
that repeats it, two formations for the killed one to have done half, two keys for the
second to be started with another. The interesting outcome is `MigrationKeepsMesh`: over redb the file lock
protects key material from a concurrent migration, over Postgres only the operator does,
and there a formation deleted during the migration gets its destroyed keypair back.

**mesh.** Two collections (one with the formation's name, one of the defaults), a
document with an id and one without, two contents, one peer, three moves of the broker,
one call that fails or hangs, one restart, poll intervals 0 and 5000. Three moves are
enough for a document to change during and after a poll that failed; one failure at a
time is enough to lose a collection, a probe, a poll or a publication, and an outage
makes any number of polls fail.

**enrollment.** Three requests, two at a time, two changes by the administrator, two
rules with two priorities, a clock of two ticks of which an entry is counted in its
own (`Window = 0`). Three requests are needed to pass the bound of
`RateOvershootBounded`, two rules for an order among them, two changes to delete and
recreate a formation under a request. Over redb only: over Postgres no request
passes the rate limit, which is what `enrollment_postgres` shows.

**cdc.** One document with two versions, a webhook with one retry and a NATS sink,
one restart, one end of the stream. Two versions are enough for an old write after a
new one, one retry for the limit of retries to be met.

**cdc_live.** Two documents, a webhook and a Kafka sink, no faults and no restart. The
property is about `Updated` events: every version waiting in the stream reaches every
enabled sink that sends anything. `Removed` events take the same path and are not
followed to the sinks.

Symmetry (requests, formation names) is used in safety runs, where nothing depends on
their identity, and in no liveness run. `CHECK_DEADLOCK FALSE` appears in the
`Cdc` runs: a watcher with nothing left to receive waits for ever, and one whose
stream has ended is gone; and in `mesh`, where a poller that hangs stays so when the
broker has made its last move. In the other runs a request can always go on until all are
served.

### Fairness

`TaskSpec` adds weak fairness of the watcher task's steps: tokio keeps polling a task
that can run, and with `Faults = FALSE` stores and receivers answer. `RestartSpec` adds
weak fairness of `Watch`, for a gateway that comes back after a stop. Nothing is
assumed of clients, of the document store or of administrators.

`MeshIngest` assumes weak fairness of the polling task alone: tokio runs it, its timer
fires, and a GET returns or fails. The code does not guarantee the last of these, since
the client has no timeout, so a call that hangs is an action of its own without fairness
and both liveness properties are conditional on `Polling`: not hung, and no zero
interval, which makes `tokio::time::interval` panic. Nothing is assumed of the broker; the
properties speak of one that ends up staying down, or up with a document unchanged.

### Disagreements with the repository's own words

* `tokens_overspend`: overlapping enrollments are approved more often than
  `max_uses` (`tenant/manager.rs:380`).
* `tokens_unrevoke`: a consume in progress writes `revoked = false` over a
  revocation that was answered Ok (`tenant/manager.rs:381`).
* `enrollment_postgres`: `usize::MAX as i64` is `LIMIT -1`; over Postgres every
  enrollment is answered 500 (`storage/postgres.rs:516`).
* `cdc_lost_delivery`: the cursor passes a change that a sink never received
  (`cdc/engine.rs:83`).
* `cdc_restart`: a change waiting at a restart is not replayed (`cdc/watcher.rs:198`).

The two `cdc` violations are of the watcher as its tests start it; see above.

Without their exceptions the properties fail for causes of the same kind, kept out of the
list of runs because nothing in the repository says otherwise: quotas are overshot under
overlap; `KeypairHasFormation` when `delete_genesis` fails; `FormationHasKeypair` when a
create is cut short, or crosses the delete of the same name and loses its genesis to it;
`NoOrphans`, `OneCreateWins`, `OrgReturnsByCreateOnly` and `DeletedSettingStaysGone` over
redb; and a rename can undo a change of quotas.

Observed while modelling, without a run:

* `migrate_keys` walks formation rows, so a genesis without one (left by a failed
  `delete_genesis`) stays in the clear, though `cli.rs:10` says "Encrypt all plaintext
  genesis records in-place".
* `load_genesis` logs that a legacy record "will encrypt on next write"
  (`tenant/manager.rs:241`), but no call writes a genesis again except `migrate_keys`.
* Records sealed under an older key are counted as already encrypted; nothing re-wraps
  them for a new one.
* The broker of a formation that was deleted is polled on, and its documents are
  published for it: nothing calls `MeshStateRegistry::deregister`. Two mappings of one
  formation start two pollers, of which the registry shows the last.
* Subscribers are told of peers before the snapshot the API serves has them
  (`mesh_ingest.rs:248`), and one that falls 256 events behind misses some.

## Proofs

Each theorem holds for every value of the constants that meets the named assumptions of
its model, in particular for any number of requests, organizations, formations, tokens,
documents, sinks, versions, restarts and faults, and over either backend.

| Module | Theorem | States |
|---|---|---|
| `TokensProofs` | `TypeCorrect` | `Spec => []TypeOK` |
| | `UsesNeverPassMax` | `Spec => []UsesWithinMax` |
| | `NoTokenOutlivesOrg` | `Spec => []NoOrphanTokens` |
| | `GrantsAreJustified` | `Spec => []GrantsJustified` |
| | `UsesAreAccountedFor` | `Spec => []UsesAccountedFor` |
| | `RevocationIsKept` | `Spec => RevocationHolds` |
| | `DeletionIsKept` | `Spec => DeletionHolds` |
| | `RefinesTokenLedger` | `Spec => RefinesLedger` |
| `TenantsProofs` | `TypeCorrect` | `Spec => []TypeOK` |
| | `NeverOrphans` | `Spec => []NoOrphans` |
| | `OneCreate` | `Spec => []OneCreateWins` |
| | `KeypairsHaveFormations` | `Spec => []KeypairHasFormation` |
| | `FormationsHaveKeypairs` | `Spec => []FormationHasKeypair` |
| | `QuotasHold` | `Spec => []QuotaRespected` |
| | `QuotaChangesHold` | `Spec => QuotaChangeHolds` |
| | `OrgReturns` | `Spec => OrgReturnsByCreateOnly` |
| | `SettingsStayGone` | `Spec => DeletedSettingStaysGone` |
| `KeyMigrationProofs` | `TypeCorrect` | `Spec => []TypeOK` |
| | `NeverSealedTwice` | `Spec => []SealedOnce` |
| | `ConfiguredSealed` | `Spec => []ConfiguredMeansSealed` |
| | `AlwaysLoadable` | `Spec => []Loadable` |
| | `ReportIsTrue` | `Spec => []ReportTrue` |
| | `MeshKept` | `Spec => MigrationKeepsMesh` |
| `MeshIngestProofs` | `TypeCorrect` | `Spec => []TypeOK` |
| | `ListedHanded` | `Spec => []ListedWasHanded` |
| | `EventsTrack` | `Spec => []EventsTrackSnapshot` |
| | `NeverRepeated` | `Spec => []NoRepeat` |
| `EnrollmentProofs` | `TypeCorrect` | `Spec => []TypeOK` |
| | `PolicyHolds` | `Spec => []PolicyEnforced` |
| | `TierHolds` | `Spec => []TierJustified` |
| | `RateHolds` | `Spec => []RateOvershootBounded` |
| `CdcProofs` | `TypeCorrect` | `Spec => []TypeOK` |
| | `CursorsPublished` | `Spec => []CursorOnlyPublished` |
| | `WatcherNeverDies` | `Spec => []WatcherSurvives` |
| | `DisabledIsLeftAlone` | `Spec => []DisabledGetsNoMore` |
| | `SentInOrder` | `Spec => InOrder` |

### Assumptions

Beyond the types of the constants:

* `Requests` is finite in `Tenants` and `Enrollment`, `Apps` in `Tenants` and
  `KeyMigration`, `SinkIds` in `Tenants`, `Peers` in `MeshIngest`. They are counted there,
  and a process serves finitely many requests over finitely many rows.
* A mesh id made by this gateway is none of an earlier one (`MeshIdsAssumption`,
  `RowsAssumption`): they are random in the code.
* Sink, provider and rule ids differ, since `Tenants` keeps the three tables as one.
* `NoRow`, `None` and `Down` are none of the values they stand beside.

### Arguments

Almost no property is inductive as it stands, for one reason: a request acts on what it
read earlier. The strengthening says of each request under way what it still knows.

**Tokens.** `TInv` adds to the types what a request holds at each position. `CopiesWithin`
(in `IInv`): a copy about to be written has room for the use it will record; the check
establishes it, and as the copy is local nobody can spoil it, which is why stale writes
lose uses but never push the counter over the limit. `Accounted`: every stored token and
every copy has an id in `issued`, so that a create cannot bring a deleted id back; the
lemma `RowStep` then reduces every action to what it does to one row (leave it, remove
it, write back a copy, insert a fresh one), from which both action properties follow.
`GrantInv`: from the check to the answer the copy is good for the formation and the time
of arrival. `UsesInv`: a copy counts no more uses than consumes that had reached the store
when it was read, and these only grow.

The refinement rests on `CalmInv`: while `calm`, at most one request is in progress and
its copy is the stored row. `LedgerInit` maps initial states; `LedgerIssue`,
`LedgerRedeem` and `LedgerRetire` map the writes to the ledger's three steps;
`LedgerStep` puts the actions together, all others being stutters. After the first overlap
`kept` is false and the ledger leaves everything open.

**Tenants.** Every step is a request's first or a later one (`StepOfOne`) and moves that
request alone (`Moves`). `OrphanInv` adds to `NoOrphans` that a request past its `get_org`
has its organization or was overtaken. `OneMaker` (Postgres): a name has at most one create
that stored its row, and then the row is there. `OwnedInv`: key material found under a name
belongs to that name or to a create of it that has begun, so that a step on one name leaves
the others' alone. `PairInv` adds to the two keypair properties what a request between
its two writes relies on: a create that was not crossed still owns the row, and a row over
which a delete has yet to remove the genesis was crossed. `Touches` and `PairedAt` reduce
a step to the names it touches: one for a create or a delete, an organization's for
`delete_org`. The refused `store_genesis` of Postgres is where it needs `NoOrphans`: no row
can be there. `CalmInv`: the only request in progress acts on what it has just read.
`QuotaInv` reserves a place for every create that has passed its count, and for every
deleted sink that a redb toggle under way would bring back, so that the sum of rows and
reserved places is bounded at the moment of counting rather than at the insert.

**KeyMigration.** `SealInv` follows key material from hand to hand: the table, a request
between seal and store, and the job between seal and store hold bytes sealed at most
once, and by a provider that encrypts. `ExclusiveInv`: as long as the two processes are
kept apart, what the job has sealed is what the store holds. `CountInv` has the four
counters right for the formations already dealt with (`Tally`), the sum behind the
summary.

**MeshIngest.** `IngestInv` relates four things: what snapshot and draft show, what the
engine was given, the queue, and the subscriber's view. `PublishedFirst` says that nothing
is shown before it was handed over, `NothingElseKnown` that nothing else is remembered (so
that what is queued is new), `ViewFollows` that the subscriber is at the draft between the
events and the swap and at the snapshot otherwise.

**Enrollment.** `PolicyInv` says what each position in the handler has established about
the policy that was read. `TierInv`: while the identity provider is asked, the rules that
stayed all along are in the table and those in the table were there at some time; the
lemma `FirstMatch` shows that a non-empty set of matching rules has a first one by priority
and id, so that `evaluate_policy` decides. `RateInv` adds, for every window, the entries in
it and the requests that have passed the limit and still owe it one.

**Cdc.** `CursorInv` includes writes left behind by aborted tasks and the one about to be
issued. `OrderInv`: per document, versions only grow along the way from the sinks over the
change in hand and the stream to the document store. `StrayInv`: a disabled sink whose turn
is still to come has had at most the change being fanned out.

Two things came to light on the way. The rate limit step of `Enrollment` had been written
with overlapping `CASE` arms, which leave the outcome open; it now has the order of the
code. And the quota bound of `Tenants` holds for sinks over redb only because a toggle
that revives a deleted sink is itself one of the overlapping requests.

### Only model-checked

`DownIsNoticed` and `EventuallyHanded` of `MeshIngest` and `EventuallyDelivered` of `Cdc`
are liveness under fairness, which the prover does not handle. The five violations are
counterexamples and have nothing to prove.

## Plan

All components with state are modelled and their safety properties proved. What is left:

1. Shorten the longest proofs (`TenantsProofs`, `EnrollmentProofs`) where several actions
   repeat one argument, as `Touches` and `PairedAt` do for the keypairs.
2. State facts on the operators of `Storage` and `Envelope` once (which rows a cascade
   leaves, which providers open what) and use them in the three proof modules that now
   derive them in place.
3. Safety facts that the liveness properties rest on, stated without fairness: that every
   refresh ends in a swap or a recorded error, and that a watcher task with a change in hand
   has made progress on it at each of its steps.

## Not modelled

The byte layout of envelopes and damaged records; retries and waiting inside the KMS and
Vault clients (their calls succeed or fail); validation of identifiers, names and URLs
and parsing of the environment, which refuse input before any state is touched; admin
authentication (a stateless comparison); the certificates endpoint, health checks and the
CDC test endpoint (reads, and one call of `publish` with a made-up event that leaves the
cursor alone); the load generator and the web UI, which are clients of the API;
packaging and vendored crates. An audit entry that cannot be stored escapes the rate
limit by design of the code; `Enrollment` has the failure, and no property about it.
