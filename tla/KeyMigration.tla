---------------------------- MODULE KeyMigration ----------------------------
(***************************************************************************)
(* peat-gateway migrate-keys: a second process that seals the genesis      *)
(* records an earlier, unencrypted gateway has left, over a store that a   *)
(* gateway may still be serving.  One organization.                        *)
(*                                                                         *)
(* "Stop the gateway before running this command": redb enforces it, the   *)
(* database file is locked by the process that has it open; over Postgres  *)
(* it is up to the operator.  Both processes may be killed at any step and *)
(* are started again, with whatever configuration the operator gives them. *)
(***************************************************************************)
EXTENDS FiniteSets, Storage, Envelope

CONSTANTS Apps,           \* formation names
          Requests,       \* requests, each served at most once
          Configs,        \* configurations the two commands are started with
          Down,           \* the gateway is not running
          MaxStarts,      \* bound on starts of the gateway
          MaxMigrations   \* bound on starts of migrate-keys

ASSUME MigrationAssumption ==
    /\ Configs \subseteq KeyConfig /\ Down \notin KeyConfig
    /\ IsFiniteSet(Apps)
    /\ MaxStarts \in Nat /\ MaxMigrations \in Nat

\* The identity of a MeshGenesis: the request that created it, or the name of
\* the formation it was created for by an earlier gateway.
MeshIds == Requests \cup Apps

Genesis == [mesh : MeshIds, wraps : Seq(Provider \ {Plaintext})]

\* A row is never mistaken for an absent one, a new mesh for an earlier one.
ASSUME RowsAssumption ==
    /\ NoRow \notin MeshIds /\ NoRow \notin Genesis
    /\ Requests \cap Apps = {}

VARIABLES formations,   \* formation rows: the mesh_id, or NoRow
          genesis,      \* the genesis table
          gateway,      \* the configuration the gateway runs with, or Down
          starts,       \* how often it has been started
          pc, app,      \* a request's position and the formation it names
          bytes,        \* what a create_formation request will store
          job,          \* the migrate-keys process
          runs,         \* how often it has been started
          report,       \* its summary, until something else happens
          disciplined,  \* history: the two commands never ran at once
          sealers,      \* history: providers that have sealed a record
          keyed         \* history: creates under a config that sets a key

store == <<backend, formations, genesis>>
requests == <<pc, app, bytes>>
history == <<disciplined, sealers, keyed>>
vars == <<store, gateway, starts, requests, job, runs, report, history>>

Idle ==
    [step |-> "off", provider |-> Plaintext, dry_run |-> FALSE, todo |-> {}, app |-> None,
     sealed |-> NoRow, migrated |-> 0, already_encrypted |-> 0, missing_genesis |-> 0, total |-> 0]

Job == [step : {"off", "list", "next", "store"}, provider : Provider, dry_run : BOOLEAN,
        todo : SUBSET Apps, app : Apps \cup {None}, sealed : Genesis \cup {NoRow},
        migrated : Nat, already_encrypted : Nat, missing_genesis : Nat, total : Nat]

Report == [dry_run : BOOLEAN, migrated : Nat, already_encrypted : Nat,
           missing_genesis : Nat, total : Nat]

TypeOK ==
    /\ backend \in Backends
    /\ formations \in [Apps -> MeshIds \cup {NoRow}]
    /\ genesis \in [Apps -> Genesis \cup {NoRow}]
    /\ gateway \in Configs \cup {Down}
    /\ gateway # Down => BuildKeyProvider(gateway) \in Provider
    /\ pc \in [Requests -> {"idle", "create_formation", "store_genesis", "delete_genesis", "done"}]
    /\ app \in [Requests -> Apps \cup {None}]
    /\ bytes \in [Requests -> Genesis \cup {NoRow}]
    /\ job \in Job
    /\ job.step # "off" => EncryptEnabled(job.provider)
    /\ job.step = "store" => job.app \in Apps /\ job.sealed # NoRow
    /\ starts \in 0..MaxStarts /\ runs \in 0..MaxMigrations
    /\ report \in Report \cup {None}
    /\ disciplined \in BOOLEAN /\ sealers \subseteq Provider /\ keyed \subseteq Requests

\* A store written by earlier gateways: formations with plaintext records, with
\* records sealed by one provider, with none (a create that was cut short).
Init ==
    /\ backend \in Backends
    /\ \E old \in SUBSET Apps :
          formations = [a \in Apps |-> IF a \in old THEN a ELSE NoRow]
    /\ \E p \in {BuildKeyProvider(c) : c \in Configs} \ {Plaintext, Refused} :
          /\ genesis \in [Apps -> {NoRow} \cup [mesh : Apps, wraps : {<<>>, <<p>>}]]
          /\ sealers = {p}
    /\ \A a \in Apps : Present(genesis, a) => formations[a] = a /\ genesis[a].mesh = a
    /\ gateway = Down
    /\ starts = 0
    /\ pc = [r \in Requests |-> "idle"]
    /\ app = [r \in Requests |-> None]
    /\ bytes = [r \in Requests |-> NoRow]
    /\ job = Idle
    /\ runs = 0
    /\ report = None
    /\ disciplined = TRUE
    /\ keyed = {}

provider == BuildKeyProvider(gateway)

-----------------------------------------------------------------------------
(* The gateway process.                                                     *)

\* Mutant: the database file is not locked.
MayOpenUnlocked(other) == TRUE

\* redb::Database::create fails on a file another process has open.
MayOpen(other) == backend = "postgres" \/ ~other

StartGateway(c) ==
    /\ gateway = Down
    /\ starts < MaxStarts
    /\ BuildKeyProvider(c) # Refused
    /\ MayOpen(job.step # "off")
    /\ gateway' = c
    /\ starts' = starts + 1
    /\ report' = None
    /\ disciplined' = (disciplined /\ job.step = "off")
    /\ UNCHANGED <<store, requests, job, runs, sealers, keyed>>

\* Stopped or killed; requests in progress end where they are.
StopGateway ==
    /\ gateway # Down
    /\ gateway' = Down
    /\ pc' = [r \in Requests |-> IF pc[r] = "idle" THEN "idle" ELSE "done"]
    /\ UNCHANGED <<store, starts, app, bytes, job, runs, report, history>>

-----------------------------------------------------------------------------
(* create_formation and delete_formation, as far as they touch key material *)
(* (Tenants has the rest).                                                  *)

Goto(r, step) == pc' = [pc EXCEPT ![r] = step]

Configured(c) == c.kms_key_arn # None \/ c.vault_addr # None \/ c.kek # None

\* The genesis is created and sealed before the first write.
CreateFormationSeal(r, a) ==
    /\ gateway # Down /\ pc[r] = "idle"
    /\ ~Present(formations, a)
    /\ LET encoded == [mesh |-> r, wraps |-> <<>>]
       IN  bytes' = [bytes EXCEPT ![r] = IF EncryptEnabled(provider)
                                         THEN Seal(provider, encoded) ELSE encoded]
    /\ app' = [app EXCEPT ![r] = a]
    /\ sealers' = IF EncryptEnabled(provider) THEN sealers \cup {provider} ELSE sealers
    /\ keyed' = IF Configured(gateway) THEN keyed \cup {r} ELSE keyed
    /\ Goto(r, "create_formation")
    /\ UNCHANGED <<store, gateway, starts, job, runs, report, disciplined>>

CreateFormationInsert(r) ==
    /\ pc[r] = "create_formation"
    /\ formations' = Insert(formations, app[r], r, TRUE)
    /\ Goto(r, IF InsertOk(formations, app[r], TRUE) THEN "store_genesis" ELSE "done")
    /\ UNCHANGED <<backend, genesis, gateway, starts, app, bytes, job, runs, report, history>>

CreateFormationStoreGenesis(r) ==
    /\ pc[r] = "store_genesis"
    /\ genesis' = Put(genesis, app[r], bytes[r])
    /\ Goto(r, "done")
    /\ UNCHANGED <<backend, formations, gateway, starts, app, bytes, job, runs, report, history>>

DeleteFormationRow(r, a) ==
    /\ gateway # Down /\ pc[r] = "idle"
    /\ Present(formations, a)
    /\ formations' = Remove(formations, a)
    /\ app' = [app EXCEPT ![r] = a]
    /\ Goto(r, "delete_genesis")
    /\ UNCHANGED <<backend, genesis, gateway, starts, bytes, job, runs, report, history>>

DeleteFormationGenesis(r) ==
    /\ pc[r] = "delete_genesis"
    /\ \/ genesis' = Remove(genesis, app[r])
       \/ UNCHANGED genesis
    /\ Goto(r, "done")
    /\ UNCHANGED <<backend, formations, gateway, starts, app, bytes, job, runs, report, history>>

\* A store or KMS error, or a dropped handler future, ends the request.
Drop(r) ==
    /\ pc[r] \notin {"idle", "done"}
    /\ Goto(r, "done")
    /\ UNCHANGED <<store, gateway, starts, app, bytes, job, runs, report, history>>

-----------------------------------------------------------------------------
(* The migrate-keys process.                                                *)

\* Mutant: migrate-keys goes on without a key.
MayMigrateAlways(p) == p # Refused

MayMigrate(p) == p # Refused /\ EncryptEnabled(p)

MigrateStart(c, dry) ==
    /\ job.step = "off"
    /\ runs < MaxMigrations
    /\ MayMigrate(BuildKeyProvider(c))
    /\ MayOpen(gateway # Down)
    /\ job' = [Idle EXCEPT !.step = "list", !.provider = BuildKeyProvider(c), !.dry_run = dry]
    /\ runs' = runs + 1
    /\ report' = None
    /\ disciplined' = (disciplined /\ gateway = Down)
    /\ UNCHANGED <<store, gateway, starts, requests, sealers, keyed>>

MigrateListFormations ==
    /\ job.step = "list"
    /\ job' = [job EXCEPT !.step = "next", !.todo = {a \in Apps : Present(formations, a)}]
    /\ UNCHANGED <<store, gateway, starts, requests, runs, report, history>>

\* Mutant: the first record that needs nothing ends the loop.
CountedAndEnded(a, counter) == [job EXCEPT !.todo = {}, !.total = @ + 1, ![counter] = @ + 1]

\* `continue` to the next formation, one counter higher.
Counted(a, counter) ==
    LET one(name) == IF counter = name THEN 1 ELSE 0
    IN  [job EXCEPT !.todo = @ \ {a}, !.total = @ + 1,
                    !.migrated = @ + one("migrated"),
                    !.already_encrypted = @ + one("already_encrypted"),
                    !.missing_genesis = @ + one("missing_genesis")]

\* get_genesis, and what needs no second store call.
MigrateSkip(a) ==
    /\ job.step = "next" /\ a \in job.todo
    /\ \/ /\ ~Present(genesis, a)
          /\ job' = Counted(a, "missing_genesis")
       \/ /\ Present(genesis, a) /\ IsEnvelope(genesis[a])
          /\ job' = Counted(a, "already_encrypted")
       \/ /\ Present(genesis, a) /\ ~IsEnvelope(genesis[a]) /\ job.dry_run
          /\ job' = Counted(a, "migrated")
    /\ UNCHANGED <<store, gateway, starts, requests, runs, report, history>>

\* get_genesis, seal, and the round trip that must give the record back.
MigrateSeal(a) ==
    /\ job.step = "next" /\ a \in job.todo
    /\ ~job.dry_run
    /\ Present(genesis, a) /\ ~IsEnvelope(genesis[a])
    /\ LET sealed == Seal(job.provider, genesis[a])
           again == Open(job.provider, sealed)
       IN  job' = IF again.result = "some" /\ again.bytes = genesis[a]
                  THEN [job EXCEPT !.step = "store", !.app = a, !.sealed = sealed]
                  ELSE Idle
    /\ sealers' = sealers \cup {job.provider}
    /\ UNCHANGED <<store, gateway, starts, requests, runs, report, disciplined, keyed>>

\* store_genesis is an upsert in both backends.
MigrateStore ==
    /\ job.step = "store"
    /\ genesis' = Put(genesis, job.app, job.sealed)
    /\ job' = [Counted(job.app, "migrated") EXCEPT !.step = "next", !.app = None, !.sealed = NoRow]
    /\ UNCHANGED <<backend, formations, gateway, starts, requests, runs, report, history>>

MigrateFinish ==
    /\ job.step = "next" /\ job.todo = {}
    /\ report' = [dry_run |-> job.dry_run, migrated |-> job.migrated,
                  already_encrypted |-> job.already_encrypted,
                  missing_genesis |-> job.missing_genesis, total |-> job.total]
    /\ job' = Idle
    /\ UNCHANGED <<store, gateway, starts, requests, runs, history>>

\* A store error, a KMS or Vault that does not answer, or a kill.
MigrateAbort ==
    /\ job.step # "off"
    /\ job' = Idle
    /\ UNCHANGED <<store, gateway, starts, requests, runs, report, history>>

-----------------------------------------------------------------------------
\* Nothing is left to start.
Rest ==
    /\ gateway = Down /\ starts = MaxStarts
    /\ job.step = "off" /\ runs = MaxMigrations
    /\ UNCHANGED vars

Next ==
    \/ \E c \in Configs : StartGateway(c) \/ \E dry \in BOOLEAN : MigrateStart(c, dry)
    \/ StopGateway
    \/ \E r \in Requests :
          \/ \E a \in Apps : CreateFormationSeal(r, a) \/ DeleteFormationRow(r, a)
          \/ CreateFormationInsert(r)
          \/ CreateFormationStoreGenesis(r)
          \/ DeleteFormationGenesis(r)
          \/ Drop(r)
    \/ MigrateListFormations
    \/ \E a \in Apps : MigrateSkip(a) \/ MigrateSeal(a)
    \/ MigrateStore
    \/ MigrateFinish
    \/ MigrateAbort
    \/ Rest

Spec == Init /\ [][Next]_vars

-----------------------------------------------------------------------------
(* What sealing and migrating promise.                                      *)

\* No record is sealed twice, however often migrate-keys is run, stopped half
\* way and run again beside a gateway: it would never open again.
SealedOnce == \A a \in Apps : Present(genesis, a) => Len(genesis[a].wraps) <= 1

\* The summary of migrate-keys tells the truth if the gateway was stopped:
\* it counts every formation, and none of those with a genesis is in the clear
\* unless it was a dry run.
ReportTrue ==
    report # None /\ disciplined =>
        LET listed == {a \in Apps : Present(formations, a)}
            sealed == {a \in listed : Present(genesis, a) /\ genesis[a].wraps # <<>>}
            clear == {a \in listed : Present(genesis, a) /\ genesis[a].wraps = <<>>}
        IN  /\ report.total = Cardinality(listed)
            /\ report.missing_genesis = Cardinality(listed \ (sealed \cup clear))
            /\ IF report.dry_run
               THEN /\ report.migrated = Cardinality(clear)
                    /\ report.already_encrypted = Cardinality(sealed)
               ELSE /\ clear = {}
                    /\ report.migrated + report.already_encrypted = Cardinality(sealed)

\* migrate-keys rewrites a record for the mesh it belongs to: it brings no
\* destroyed key material back and puts none in the place of newer material,
\* except over Postgres under an operator who has not stopped the gateway.
MigrationKeepsMesh ==
    [][\A a \in Apps :
          job.step = "store" /\ job'.step = "next" /\ job.app = a
          => \/ Present(genesis, a) /\ genesis'[a].mesh = genesis[a].mesh
             \/ backend = "postgres" /\ ~disciplined]_vars

\* "the gateway handles both transparently": as long as everything that was
\* sealed was sealed for the gateway's own provider, it can load every record,
\* sealed or in the clear, in the middle of a migration or after a broken one.
Loadable ==
    gateway # Down /\ (\A s \in sealers : Unwraps(provider, s)) =>
        \A a \in Apps : Present(genesis, a) => LoadGenesis(provider, genesis[a])

\* "When any key provider is configured, all writes are encrypted": no record
\* made by a gateway whose configuration names a key is ever in the clear; a
\* provider it cannot use stops it from starting.
ConfiguredMeansSealed ==
    \A a \in Apps :
        Present(genesis, a) /\ genesis[a].mesh \in keyed => genesis[a].wraps # <<>>
=============================================================================
