----------------------------- MODULE Tenants -----------------------------
(***************************************************************************)
(* What an organization owns: its formations with their genesis key        *)
(* material, its CDC sinks, identity providers and policy rules.  The      *)
(* calls of the TenantManager that change these tables, run by concurrent  *)
(* HTTP requests.                                                          *)
(*                                                                         *)
(* Every store call is a step of its own.  create_formation makes five and *)
(* delete_formation two, with nothing that ties them together: other       *)
(* requests run in between, and a request may stop after any of them       *)
(* (store or KMS error, dropped future, crash of the gateway).             *)
(***************************************************************************)
EXTENDS Naturals, FiniteSets, Storage

CONSTANTS Orgs, Apps,       \* names of organizations and of formations
          Requests,         \* requests, each served at most once
          SinkIds, IdpIds, RuleIds,   \* ids OsRng may hand out
          Quotas,           \* values of max_formations and max_cdc_sinks
          DefaultQuota,     \* their value in OrgQuotas::default()
          MaxInFlight,      \* bound on requests in progress at the same time
          None

ASSUME TenantsAssumption ==
    /\ Quotas \subseteq Nat /\ DefaultQuota \in Nat
    /\ MaxInFlight \in Nat \ {0}
    /\ IsFiniteSet(Apps) /\ IsFiniteSet(Requests) /\ IsFiniteSet(SinkIds)
    /\ SinkIds \cap (IdpIds \cup RuleIds) = {} /\ IdpIds \cap RuleIds = {}

Keys == Orgs \X Apps

SettingIds == SinkIds \cup IdpIds \cup RuleIds

\* The identity of a MeshGenesis: the request that created it, or, for one that
\* was there before the gateway started, the key it is stored under.
MeshIds == Requests \cup Keys

ASSUME MeshIdsAssumption == Requests \cap Keys = {}

Names == {"first", "second"}

\* One number stands for both limits of OrgQuotas that the gateway enforces.
Organization == [display_name : Names, quotas : Nat]
FormationConfig == [mesh_id : MeshIds]
GenesisRecord == [mesh_id : MeshIds]

\* A CdcSinkConfig, an IdpConfig or a PolicyRule (never switched off): the
\* fields that no call changes are left out.
Setting == [enabled : BOOLEAN]

ASSUME NoRowAssumption ==
    NoRow \notin Organization \cup FormationConfig \cup GenesisRecord \cup Setting

VARIABLES orgs, formations, genesis,   \* the three tables
          settings,                    \* the sink, IdP and rule tables
          pc, org, app, item,          \* a request's position and its path
          seen,       \* the org row a request has read
          patch,      \* a PATCH request's new name and quotas, or enabled flag
          mesh,       \* the mesh id a request creates or destroys
          makers,     \* history: create_formation requests whose row is stored
          cutShort,   \* history: mesh ids whose genesis was never written
          spared,     \* history: mesh ids whose genesis delete_formation left
          crossed,    \* history: mesh ids whose create crossed another call
                      \* on the same name between its two writes
          overtaken,  \* history: requests that delete_org of their org overtook
          peak,       \* history: the largest quota an org has had
          given,      \* history: setting ids that have been handed out
          calm        \* history: no request has overlapped another or failed

tables == <<backend, orgs, formations, genesis, settings>>
local == <<org, app, item, seen, patch, mesh>>
pairing == <<cutShort, spared, crossed>>
history == <<makers, pairing, overtaken, peak, given>>
vars == <<tables, pc, local, history, calm>>

Steps == {"idle", "create_org_insert", "update_org_write", "list_formations",
          "get_formation", "create_formation", "store_genesis",
          "delete_genesis", "list_sinks", "create_sink", "create_idp",
          "create_policy_rule", "update_setting", "done"}

\* UpdateOrgRequest, each field optional, or ToggleSinkRequest, ToggleIdpRequest.
OrgPatches == [display_name : Names \cup {None}, quotas : Nat \cup {None}]
Patches == OrgPatches \cup [enabled : BOOLEAN]

SettingKeys == Orgs \X SettingIds

TypeOK ==
    /\ backend \in Backends
    /\ orgs \in [Orgs -> Organization \cup {NoRow}]
    /\ formations \in [Keys -> FormationConfig \cup {NoRow}]
    /\ genesis \in [Keys -> GenesisRecord \cup {NoRow}]
    /\ settings \in [SettingKeys -> Setting \cup {NoRow}]
    /\ pc \in [Requests -> Steps]
    /\ org \in [Requests -> Orgs \cup {None}]
    /\ app \in [Requests -> Apps \cup {None}]
    /\ item \in [Requests -> SettingIds \cup {None}]
    /\ seen \in [Requests -> Organization \cup {NoRow}]
    /\ patch \in [Requests -> Patches \cup {None}]
    /\ mesh \in [Requests -> MeshIds \cup {None}]
    /\ makers \in [Keys -> SUBSET Requests]
    /\ cutShort \subseteq MeshIds /\ spared \subseteq MeshIds /\ crossed \subseteq MeshIds
    /\ overtaken \subseteq Requests
    /\ peak \in [Orgs -> Nat]
    /\ given \subseteq SettingIds
    /\ calm \in BOOLEAN

FormationsOf(o) == {a \in Apps : Present(formations, <<o, a>>)}

SinksOf(o) == {i \in SinkIds : Present(settings, <<o, i>>)}

\* The gateway starts over a store it has written before: formations within the
\* quota, and genesis material of live organizations, either without the other
\* where an earlier create was cut short or an earlier delete left the genesis.
Init ==
    /\ backend \in Backends
    /\ \E live \in SUBSET Orgs, q \in Quotas :
          orgs = [o \in Orgs |-> IF o \in live
                                 THEN [display_name |-> "first", quotas |-> q]
                                 ELSE NoRow]
    /\ LET owned == {k \in Keys : Present(orgs, k[1])}
       IN  \E old \in SUBSET owned, held \in SUBSET owned :
              /\ formations = [k \in Keys |-> IF k \in old THEN [mesh_id |-> k] ELSE NoRow]
              /\ genesis = [k \in Keys |-> IF k \in held THEN [mesh_id |-> k] ELSE NoRow]
              /\ cutShort = old \ held
              /\ spared = held \ old
    /\ peak = [o \in Orgs |-> IF Present(orgs, o) THEN orgs[o].quotas ELSE 0]
    /\ \A o \in Orgs : Cardinality(FormationsOf(o)) <= peak[o]
    /\ settings = Empty(SettingKeys)
    /\ pc = [r \in Requests |-> "idle"]
    /\ org = [r \in Requests |-> None]
    /\ app = [r \in Requests |-> None]
    /\ item = [r \in Requests |-> None]
    /\ seen = [r \in Requests |-> NoRow]
    /\ patch = [r \in Requests |-> None]
    /\ mesh = [r \in Requests |-> None]
    /\ makers = [k \in Keys |-> {}]
    /\ crossed = {}
    /\ overtaken = {}
    /\ given = {}
    /\ calm = TRUE

InFlight == {r \in Requests : pc[r] \notin {"idle", "done"}}

Goto(r, step) == pc' = [pc EXCEPT ![r] = step]

Arrive(r, o) ==
    /\ pc[r] = "idle"
    /\ Cardinality(InFlight) < MaxInFlight
    /\ org' = [org EXCEPT ![r] = o]
    /\ calm' = (calm /\ InFlight = {})

Key(r) == <<org[r], app[r]>>

\* Creates that have stored their row at k and not yet their genesis, and the
\* deletes of k that have removed the row and not yet the genesis.
Storing(k) == {q \in Requests : pc[q] = "store_genesis" /\ Key(q) = k}
Forgetting(k) == {q \in Requests : pc[q] = "delete_genesis" /\ Key(q) = k}

\* The quota of o after a write of its row, if the write took effect.
RaisePeak(o) ==
    peak' = [peak EXCEPT ![o] = IF Present(orgs', o) /\ orgs'[o].quotas > @
                                THEN orgs'[o].quotas ELSE @]

-----------------------------------------------------------------------------
(* create_org: refuse a name that is taken, then insert.                    *)

CreateOrgGet(r, o) ==
    /\ Arrive(r, o)
    /\ Goto(r, IF Present(orgs, o) THEN "done" ELSE "create_org_insert")
    /\ UNCHANGED <<tables, app, item, seen, patch, mesh, history>>

\* An org has no parent row; redb overwrites a row that has appeared meanwhile.
CreateOrgInsert(r) ==
    /\ pc[r] = "create_org_insert"
    /\ orgs' = Insert(orgs, org[r],
                      [display_name |-> "first", quotas |-> DefaultQuota], TRUE)
    /\ RaisePeak(org[r])
    /\ Goto(r, "done")
    /\ UNCHANGED <<backend, formations, genesis, settings, local, makers, pairing, overtaken, given, calm>>

-----------------------------------------------------------------------------
(* update_org: read the row, replace the fields given, write it back.       *)

UpdateOrgGet(r, o, p) ==
    /\ Arrive(r, o)
    /\ patch' = [patch EXCEPT ![r] = p]
    /\ seen' = [seen EXCEPT ![r] = orgs[o]]
    /\ Goto(r, IF Present(orgs, o) THEN "update_org_write" ELSE "done")
    /\ UNCHANGED <<tables, app, item, mesh, history>>

\* Mutant: a PATCH without quotas resets them to the default.
PatchedWithDefaults(row, p) ==
    [display_name |-> IF p.display_name = None THEN row.display_name ELSE p.display_name,
     quotas |-> IF p.quotas = None THEN DefaultQuota ELSE p.quotas]

\* Mutant: the new quotas are taken off the old ones.
PatchedByDifference(row, p) ==
    [display_name |-> IF p.display_name = None THEN row.display_name ELSE p.display_name,
     quotas |-> IF p.quotas = None THEN row.quotas ELSE row.quotas - p.quotas]

Patched(row, p) ==
    [display_name |-> IF p.display_name = None THEN row.display_name ELSE p.display_name,
     quotas |-> IF p.quotas = None THEN row.quotas ELSE p.quotas]

UpdateOrgWrite(r) ==
    /\ pc[r] = "update_org_write"
    /\ orgs' = Update(orgs, org[r], Patched(seen[r], patch[r]))
    /\ RaisePeak(org[r])
    /\ Goto(r, "done")
    /\ UNCHANGED <<backend, formations, genesis, settings, local, makers, pairing, overtaken, given, calm>>

-----------------------------------------------------------------------------
(* delete_org: one transaction over the org's row and all its children.     *)

Cascade(table, o) ==
    IF backend = "redb" \/ Present(orgs, o)
    THEN [k \in DOMAIN table |-> IF k[1] = o THEN NoRow ELSE table[k]]
    ELSE table

\* Mutant: the genesis table is missing from the cascade.
CascadeGenesisForgotten(o) == genesis

CascadeGenesis(o) == Cascade(genesis, o)

DeleteOrg(r, o) ==
    /\ Arrive(r, o)
    /\ orgs' = Remove(orgs, o)
    /\ formations' = Cascade(formations, o)
    /\ genesis' = CascadeGenesis(o)
    /\ settings' = Cascade(settings, o)
    /\ makers' = [k \in Keys |-> IF k[1] = o THEN {} ELSE makers[k]]
    /\ crossed' = crossed \cup {mesh[q] : q \in {x \in InFlight : org[x] = o /\ pc[x] = "store_genesis"}}
    /\ overtaken' = overtaken \cup {q \in InFlight : org[q] = o}
    /\ Goto(r, "done")
    /\ UNCHANGED <<backend, app, item, seen, patch, mesh, cutShort, spared, peak, given>>

-----------------------------------------------------------------------------
(* create_formation: get_org, list_formations, get_formation, then the two  *)
(* writes.  The genesis is generated and sealed in memory before the first; *)
(* KeyMigration models the sealing.                                         *)

CreateFormationGetOrg(r, o, a) ==
    /\ Arrive(r, o)
    /\ app' = [app EXCEPT ![r] = a]
    /\ mesh' = [mesh EXCEPT ![r] = r]
    /\ seen' = [seen EXCEPT ![r] = orgs[o]]
    /\ Goto(r, IF Present(orgs, o) THEN "list_formations" ELSE "done")
    /\ UNCHANGED <<tables, item, patch, history>>

\* Mutant: the quota check lets one more formation through.
QuotaReachedLate(existing, quota) == existing > quota

QuotaReached(existing, quota) == existing >= quota

CreateFormationCheckQuota(r) ==
    /\ pc[r] = "list_formations"
    /\ Goto(r, IF QuotaReached(Cardinality(FormationsOf(org[r])), seen[r].quotas)
               THEN "done" ELSE "get_formation")
    /\ UNCHANGED <<tables, local, history, calm>>

CreateFormationCheckUnique(r) ==
    /\ pc[r] = "get_formation"
    /\ Goto(r, IF Present(formations, Key(r)) THEN "done" ELSE "create_formation")
    /\ UNCHANGED <<tables, local, history, calm>>

CreateFormationInsert(r) ==
    /\ pc[r] = "create_formation"
    /\ LET k == Key(r)
           orgPresent == Present(orgs, org[r])
           ok == InsertOk(formations, k, orgPresent)
           replaced == IF Present(formations, k) THEN {mesh[r], formations[k].mesh_id} ELSE {}
           late == IF Forgetting(k) # {} THEN {mesh[r]} ELSE {}
       IN  /\ formations' = Insert(formations, k, [mesh_id |-> mesh[r]], orgPresent)
           /\ makers' = IF ok THEN [makers EXCEPT ![k] = @ \cup {r}] ELSE makers
           /\ crossed' = IF ok THEN crossed \cup replaced \cup late ELSE crossed
           /\ Goto(r, IF ok THEN "store_genesis" ELSE "done")
    /\ UNCHANGED <<backend, orgs, genesis, settings, local, cutShort, spared, overtaken,
                   peak, given, calm>>

\* store_genesis overwrites in both backends; postgres still asks for the org.
UpsertOk(orgPresent) == backend = "redb" \/ orgPresent

\* Mutant: ON CONFLICT DO NOTHING.
GenesisStoredIfAbsent(k, row) == IF Present(genesis, k) THEN genesis ELSE Put(genesis, k, row)

GenesisStored(k, row) == Put(genesis, k, row)

CreateFormationStoreGenesis(r) ==
    /\ pc[r] = "store_genesis"
    /\ genesis' = IF UpsertOk(Present(orgs, org[r]))
                  THEN GenesisStored(Key(r), [mesh_id |-> mesh[r]])
                  ELSE genesis
    /\ Goto(r, "done")
    /\ UNCHANGED <<backend, orgs, formations, settings, local, history, calm>>

-----------------------------------------------------------------------------
(* delete_formation: remove the row, then the genesis.  The result of the   *)
(* second call is dropped: the request answers Ok whatever it was.          *)

DeleteFormationRow(r, o, a) ==
    /\ Arrive(r, o)
    /\ app' = [app EXCEPT ![r] = a]
    /\ formations' = Remove(formations, <<o, a>>)
    /\ makers' = [makers EXCEPT ![<<o, a>>] = {}]
    /\ IF Present(formations, <<o, a>>)
       THEN /\ mesh' = [mesh EXCEPT ![r] = formations[<<o, a>>].mesh_id]
            /\ crossed' = crossed \cup {mesh[q] : q \in Storing(<<o, a>>)}
            /\ Goto(r, "delete_genesis")
       ELSE /\ UNCHANGED <<mesh, crossed>>
            /\ Goto(r, "done")
    /\ UNCHANGED <<backend, orgs, genesis, settings, item, seen, patch, cutShort, spared,
                   overtaken, peak, given>>

\* Mutant: the genesis is left behind.
GenesisKept(k) == genesis

GenesisDeleted(k) == Remove(genesis, k)

DeleteFormationGenesis(r) ==
    /\ pc[r] = "delete_genesis"
    /\ \/ genesis' = GenesisDeleted(Key(r)) /\ UNCHANGED <<spared, calm>>
       \/ UNCHANGED genesis /\ spared' = spared \cup {mesh[r]} /\ calm' = FALSE
    /\ Goto(r, "done")
    /\ UNCHANGED <<backend, orgs, formations, settings, local, makers, cutShort, crossed,
                   overtaken, peak, given>>

-----------------------------------------------------------------------------
(* create_sink, create_idp, create_policy_rule: get_org, for a sink the     *)
(* quota, then the insert of a row with a random id.                        *)

CreateSettingGetOrg(r, o, next) ==
    /\ Arrive(r, o)
    /\ seen' = [seen EXCEPT ![r] = orgs[o]]
    /\ Goto(r, IF Present(orgs, o) THEN next ELSE "done")
    /\ UNCHANGED <<tables, app, item, patch, mesh, history>>

CreateSinkGetOrg(r, o) == CreateSettingGetOrg(r, o, "list_sinks")
CreateIdpGetOrg(r, o) == CreateSettingGetOrg(r, o, "create_idp")
CreatePolicyRuleGetOrg(r, o) == CreateSettingGetOrg(r, o, "create_policy_rule")

CreateSinkCheckQuota(r) ==
    /\ pc[r] = "list_sinks"
    /\ Goto(r, IF QuotaReached(Cardinality(SinksOf(org[r])), seen[r].quotas)
               THEN "done" ELSE "create_sink")
    /\ UNCHANGED <<tables, local, history, calm>>

\* OsRng fills 8 bytes: an id that has never been handed out before.
CreateSettingInsert(r, step, ids) ==
    /\ pc[r] = step
    /\ \E i \in ids \ given :
          /\ settings' = Insert(settings, <<org[r], i>>, [enabled |-> TRUE], Present(orgs, org[r]))
          /\ given' = given \cup {i}
    /\ Goto(r, "done")
    /\ UNCHANGED <<backend, orgs, formations, genesis, local, makers, pairing, overtaken, peak, calm>>

CreateSinkInsert(r) == CreateSettingInsert(r, "create_sink", SinkIds)
CreateIdpInsert(r) == CreateSettingInsert(r, "create_idp", IdpIds)
CreatePolicyRuleInsert(r) == CreateSettingInsert(r, "create_policy_rule", RuleIds)

-----------------------------------------------------------------------------
(* toggle_sink, toggle_idp: read the row, set enabled, write the row back.  *)

ToggleGet(r, o, i, enabled) ==
    /\ Arrive(r, o)
    /\ item' = [item EXCEPT ![r] = i]
    /\ patch' = [patch EXCEPT ![r] = [enabled |-> enabled]]
    /\ Goto(r, IF Present(settings, <<o, i>>) THEN "update_setting" ELSE "done")
    /\ UNCHANGED <<tables, app, seen, mesh, history>>

ToggleSinkGet(r, o, i, enabled) == i \in SinkIds /\ ToggleGet(r, o, i, enabled)
ToggleIdpGet(r, o, i, enabled) == i \in IdpIds /\ ToggleGet(r, o, i, enabled)

ToggleWrite(r) ==
    /\ pc[r] = "update_setting"
    /\ settings' = Update(settings, <<org[r], item[r]>>, [enabled |-> patch[r].enabled])
    /\ Goto(r, "done")
    /\ UNCHANGED <<backend, orgs, formations, genesis, local, history, calm>>

\* delete_sink, delete_idp, delete_policy_rule: one transaction.
DeleteSetting(r, o, i) ==
    /\ Arrive(r, o)
    /\ settings' = Remove(settings, <<o, i>>)
    /\ Goto(r, "done")
    /\ UNCHANGED <<backend, orgs, formations, genesis, app, item, seen, patch, mesh, history>>

DeleteSink(r, o, i) == i \in SinkIds /\ DeleteSetting(r, o, i)
DeleteIdp(r, o, i) == i \in IdpIds /\ DeleteSetting(r, o, i)
DeletePolicyRule(r, o, i) == i \in RuleIds /\ DeleteSetting(r, o, i)

-----------------------------------------------------------------------------
\* A store or KMS error, a dropped handler future or a crash ends the request.
Drop(r) ==
    /\ r \in InFlight
    /\ Goto(r, "done")
    /\ calm' = FALSE
    /\ cutShort' = IF pc[r] = "store_genesis" THEN cutShort \cup {mesh[r]} ELSE cutShort
    /\ spared' = IF pc[r] = "delete_genesis" THEN spared \cup {mesh[r]} ELSE spared
    /\ UNCHANGED <<tables, local, makers, crossed, overtaken, peak, given>>

AllServed ==
    /\ \A r \in Requests : pc[r] = "done"
    /\ UNCHANGED vars

PatchArgs == [display_name : {"second", None}, quotas : Quotas \cup {None}]

Next ==
    \/ \E r \in Requests :
          \/ \E o \in Orgs :
                \/ CreateOrgGet(r, o)
                \/ \E p \in PatchArgs : UpdateOrgGet(r, o, p)
                \/ DeleteOrg(r, o)
                \/ \E a \in Apps : \/ CreateFormationGetOrg(r, o, a)
                                   \/ DeleteFormationRow(r, o, a)
                \/ CreateSinkGetOrg(r, o)
                \/ CreateIdpGetOrg(r, o)
                \/ CreatePolicyRuleGetOrg(r, o)
                \/ \E i \in given :
                      \/ \E enabled \in BOOLEAN : \/ ToggleSinkGet(r, o, i, enabled)
                                                 \/ ToggleIdpGet(r, o, i, enabled)
                      \/ DeleteSink(r, o, i)
                      \/ DeleteIdp(r, o, i)
                      \/ DeletePolicyRule(r, o, i)
          \/ CreateOrgInsert(r)
          \/ UpdateOrgWrite(r)
          \/ CreateFormationCheckQuota(r)
          \/ CreateFormationCheckUnique(r)
          \/ CreateFormationInsert(r)
          \/ CreateFormationStoreGenesis(r)
          \/ DeleteFormationGenesis(r)
          \/ CreateSinkCheckQuota(r)
          \/ CreateSinkInsert(r)
          \/ CreateIdpInsert(r)
          \/ CreatePolicyRuleInsert(r)
          \/ ToggleWrite(r)
          \/ Drop(r)
    \/ AllServed

Spec == Init /\ [][Next]_vars

-----------------------------------------------------------------------------
(* What the calls promise.                                                  *)

\* No formation, genesis, sink, identity provider or rule belongs to an
\* organization that does not exist: over Postgres never (foreign keys against
\* creates that delete_org has overtaken, the cascade for what they had stored);
\* over redb only what a request stored that was past its get_org, or had read
\* the setting it writes back, when delete_org ran.
NoOrphans ==
    /\ \A k \in Keys : ~Present(orgs, k[1]) =>
          /\ Present(formations, k) => backend = "redb" /\ formations[k].mesh_id \in overtaken
          /\ Present(genesis, k) => backend = "redb" /\ genesis[k].mesh_id \in overtaken
    /\ \A k \in SettingKeys : ~Present(orgs, k[1]) /\ Present(settings, k) =>
          backend = "redb" /\ \E r \in overtaken : org[r] = k[1]

\* Over Postgres two creates of one formation cannot both store their row:
\* between two deletions of the name one create_formation gets through.
OneCreateWins ==
    backend = "postgres" => \A k \in Keys : Cardinality(makers[k]) <= 1

\* "Maximum active formations per org" and the limit on CDC sinks: one request
\* at a time never passes the largest quota the org has had; requests that
\* overlap pass it by no more than those that were checking it together.
QuotaRespected ==
    \A o \in Orgs :
        LET allowed == peak[o] + (IF calm THEN 0 ELSE MaxInFlight - 1)
        IN  /\ Cardinality(FormationsOf(o)) <= allowed
            /\ Cardinality(SinksOf(o)) <= allowed

\* Mesh ids whose delete_formation has yet to remove the genesis.
BeingForgotten == {mesh[r] : r \in {q \in Requests : pc[q] = "delete_genesis"}}

\* delete_formation "Destroys the root keypair (irreversible)": a genesis in the
\* store belongs to the formation stored under its name, or to one whose delete
\* is under way, over either backend and whatever overlaps or is cut short.
\* What stays behind is the genesis that a delete failed to remove or did not
\* come to, and that of a create which another call on the name crossed between
\* its two writes.
KeypairHasFormation ==
    \A k \in Keys : Present(genesis, k) =>
        \/ Present(formations, k) /\ formations[k].mesh_id = genesis[k].mesh_id
        \/ genesis[k].mesh_id \in BeingForgotten \cup spared \cup crossed

\* A formation has the genesis its mesh_id is derived from ("Derived from
\* genesis"), over either backend and whatever overlaps or is cut short, unless
\* its create has yet to store it or was cut short before, another call on the
\* name crossed that create, or a create so crossed has overwritten it since.
FormationHasKeypair ==
    \A k \in Keys : Present(formations, k) =>
        LET m == formations[k].mesh_id
        IN  \/ Present(genesis, k) /\ genesis[k].mesh_id \in {m} \cup crossed
            \/ m \in cutShort \cup crossed
            \/ m \in Requests /\ pc[m] = "store_genesis"

\* The quotas of an organization change only to the value a PATCH gives.  What
\* update_org writes back of a PATCH without quotas, and a create_org that redb
\* lets overwrite a row, change them too, but only after requests overlapped.
QuotaChangeHolds ==
    [][\A o \in Orgs :
          /\ Present(orgs, o) /\ Present(orgs', o)
          /\ orgs[o].quotas # orgs'[o].quotas
          => \E r \in Requests :
                /\ org[r] = o /\ pc'[r] = "done"
                /\ \/ pc[r] = "update_org_write" /\ patch[r].quotas = orgs'[o].quotas
                   \/ /\ ~calm /\ pc[r] = "update_org_write" /\ patch[r].quotas = None
                      /\ seen[r].quotas = orgs'[o].quotas
                   \/ ~calm /\ backend = "redb" /\ pc[r] = "create_org_insert"]_vars

\* A row of a deleted organization reappears because create_org made a new one
\* or, over redb alone, by an update_org that had read it before delete_org.
OrgReturnsByCreateOnly ==
    [][\A o \in Orgs :
          ~Present(orgs, o) /\ Present(orgs', o)
          => \E r \in Requests :
                /\ org[r] = o /\ pc'[r] = "done"
                /\ \/ pc[r] = "create_org_insert"
                   \/ backend = "redb" /\ pc[r] = "update_org_write"]_vars

\* A sink, identity provider or rule that was deleted, by its own call or with
\* its organization, comes back only over redb, and only by a toggle that had
\* read it before: over Postgres, and with one request at a time, it is gone.
DeletedSettingStaysGone ==
    [][\A k \in SettingKeys :
          /\ k[2] \in given
          /\ ~Present(settings, k) /\ Present(settings', k)
          => /\ backend = "redb" /\ ~calm
             /\ \E r \in Requests :
                   <<org[r], item[r]>> = k /\ pc[r] = "update_setting"]_vars
=============================================================================
