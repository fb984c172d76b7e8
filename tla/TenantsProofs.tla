--------------------------- MODULE TenantsProofs ---------------------------
(***************************************************************************)
(* Theorems about Tenants, for every set of organizations, formations,     *)
(* settings and requests, any number of requests in flight and either      *)
(* backend.                                                                *)
(***************************************************************************)
EXTENDS Tenants, CountingLemmas, TLAPS

USE BackendAssumption, TenantsAssumption, MeshIdsAssumption, NoRowAssumption

\* An update touches one row, if any.
LEMMA UpdateOne ==
    ASSUME NEW Dom, NEW Row, NEW table \in [Dom -> Row], NEW k \in Dom, NEW row \in Row
    PROVE  /\ Update(table, k, row) \in [Dom -> Row]
           /\ \A x \in Dom \ {k} : Update(table, k, row)[x] = table[x]
           /\ Update(table, k, row)[k] = IF backend = "redb" \/ Present(table, k)
                                         THEN row ELSE table[k]
BY DEF Update, RedbUpdate, PgUpdate, Put, Present

\* So does an insert.
LEMMA InsertOne ==
    ASSUME NEW Dom, NEW Row, NEW table \in [Dom -> Row], NEW k \in Dom, NEW row \in Row,
           NEW ok \in BOOLEAN
    PROVE  /\ Insert(table, k, row, ok) \in [Dom -> Row]
           /\ \A x \in Dom \ {k} : Insert(table, k, row, ok)[x] = table[x]
           /\ Insert(table, k, row, ok)[k] = IF InsertOk(table, k, ok) THEN row ELSE table[k]
BY DEF Insert, Put

\* A cascade removes all of an organization's rows or none.
LEMMA CascadeRows ==
    ASSUME NEW Dom, NEW Row, NoRow \in Row, NEW table \in [Dom -> Row], NEW o
    PROVE  /\ Cascade(table, o) \in [Dom -> Row]
           /\ \A x \in Dom : Cascade(table, o)[x]
                  = IF (backend = "redb" \/ Present(orgs, o)) /\ x[1] = o
                    THEN NoRow ELSE table[x]
BY DEF Cascade

-----------------------------------------------------------------------------
(* Types.                                                                   *)

Creating == {"list_formations", "get_formation", "create_formation", "store_genesis"}

\* What a request carries between its store calls.
Located ==
    \A r \in Requests :
        /\ pc[r] \notin {"idle", "done"} => org[r] \in Orgs
        /\ pc[r] \in Creating => app[r] \in Apps /\ mesh[r] = r
        /\ pc[r] = "delete_genesis" => app[r] \in Apps /\ mesh[r] \in MeshIds
        /\ pc[r] \in {"update_org_write", "list_formations", "list_sinks"}
              => seen[r] \in Organization
        /\ pc[r] = "update_org_write" => patch[r] \in PatchArgs
        /\ pc[r] = "update_setting" => item[r] \in SettingIds /\ patch[r].enabled \in BOOLEAN

TInv == TypeOK /\ Located

\* A patched row is a row, and a PATCH without quotas keeps them.
LEMMA PatchedType ==
    ASSUME NEW row \in Organization, NEW p \in PatchArgs
    PROVE  /\ Patched(row, p) \in Organization
           /\ Patched(row, p).quotas = IF p.quotas = None THEN row.quotas ELSE p.quotas
BY DEF Patched, PatchArgs, Organization, Names

\* A PATCH body is one of the fields update_org knows.
LEMMA PatchArgsType == PatchArgs \subseteq Patches
BY DEF PatchArgs, Patches, OrgPatches, Names

\* The formations and the genesis material of an earlier gateway, by name.
LEMMA InitRows ==
    ASSUME Init
    PROVE  \E old \in SUBSET Keys, held \in SUBSET Keys :
              /\ \A k \in old \cup held : Present(orgs, k[1])
              /\ formations = [k \in Keys |-> IF k \in old THEN [mesh_id |-> k] ELSE NoRow]
              /\ genesis = [k \in Keys |-> IF k \in held THEN [mesh_id |-> k] ELSE NoRow]
              /\ cutShort = old \ held /\ spared = held \ old
<1> DEFINE owned == {k \in Keys : Present(orgs, k[1])}
<1>1. \E old \in SUBSET owned, held \in SUBSET owned :
          /\ formations = [k \in Keys |-> IF k \in old THEN [mesh_id |-> k] ELSE NoRow]
          /\ genesis = [k \in Keys |-> IF k \in held THEN [mesh_id |-> k] ELSE NoRow]
          /\ cutShort = old \ held
          /\ spared = held \ old
  BY Zenon DEF Init
<1>2. PICK old \in SUBSET owned, held \in SUBSET owned :
          /\ formations = [k \in Keys |-> IF k \in old THEN [mesh_id |-> k] ELSE NoRow]
          /\ genesis = [k \in Keys |-> IF k \in held THEN [mesh_id |-> k] ELSE NoRow]
          /\ cutShort = old \ held
          /\ spared = held \ old
  BY <1>1
<1>3. old \subseteq Keys /\ held \subseteq Keys /\ \A k \in old \cup held : Present(orgs, k[1])
  OBVIOUS
<1> HIDE DEF owned
<1> QED
  BY <1>2, <1>3

\* The store an earlier gateway has left is well-formed.
LEMMA TypeInit == Init => TInv
<1> SUFFICES ASSUME Init PROVE TInv
  OBVIOUS
<1>1. orgs \in [Orgs -> Organization \cup {NoRow}]
  BY DEF Init, Organization, Names
<1>2. PICK old \in SUBSET Keys, held \in SUBSET Keys :
          /\ \A k \in old \cup held : Present(orgs, k[1])
          /\ formations = [k \in Keys |-> IF k \in old THEN [mesh_id |-> k] ELSE NoRow]
          /\ genesis = [k \in Keys |-> IF k \in held THEN [mesh_id |-> k] ELSE NoRow]
          /\ cutShort = old \ held /\ spared = held \ old
  BY InitRows, Zenon
<1>3. formations \in [Keys -> FormationConfig \cup {NoRow}]
  BY <1>2 DEF FormationConfig, MeshIds
<1>4. /\ genesis \in [Keys -> GenesisRecord \cup {NoRow}]
      /\ cutShort \subseteq MeshIds /\ spared \subseteq MeshIds
  BY <1>2 DEF GenesisRecord, MeshIds
<1>5. peak \in [Orgs -> Nat]
  BY <1>1 DEF Init, Present, Organization
<1>6. calm \in BOOLEAN
  BY Zenon DEF Init
<1>7. settings \in [SettingKeys -> Setting \cup {NoRow}]
  BY DEF Init, Empty
<1> QED
  BY <1>1, <1>3, <1>4, <1>5, <1>6, <1>7 DEF Init, TInv, TypeOK, Located, Steps, Creating

\* A request that arrives is a new one.
LEMMA ArriveType ==
    ASSUME TInv, NEW r \in Requests, NEW o \in Orgs, Arrive(r, o)
    PROVE  /\ pc[r] = "idle"
           /\ org' \in [Requests -> Orgs \cup {None}]
           /\ org'[r] = o
           /\ \A x \in Requests \ {r} : org'[x] = org[x]
           /\ calm' \in BOOLEAN
<1>1. calm' \in BOOLEAN
  BY Zenon DEF Arrive
<1> QED
  BY <1>1 DEF Arrive, TInv, TypeOK

\* The largest quota an organization has had is a number.
LEMMA PeakType ==
    ASSUME peak \in [Orgs -> Nat], orgs' \in [Orgs -> Organization \cup {NoRow}],
           NEW o \in Orgs, RaisePeak(o)
    PROVE  /\ peak' \in [Orgs -> Nat]
           /\ \A x \in Orgs \ {o} : peak'[x] = peak[x]
           /\ peak[o] <= peak'[o]
           /\ Present(orgs', o) => orgs'[o].quotas \in Nat /\ orgs'[o].quotas <= peak'[o]
<1>1. Present(orgs', o) => orgs'[o].quotas \in Nat
  BY DEF Present, Organization
<1> QED
  BY <1>1 DEF RaisePeak

\* Every step keeps the types.
LEMMA TypeStep == TInv /\ [Next]_vars => TInv'
<1> SUFFICES ASSUME TInv, [Next]_vars PROVE TInv'
  OBVIOUS
<1>0. /\ \A o \in Orgs, a \in Apps : <<o, a>> \in Keys
      /\ \A o \in Orgs, i \in SettingIds : <<o, i>> \in SettingKeys
  BY DEF Keys, SettingKeys
<1> USE <1>0 DEF TInv, TypeOK, Located, Steps, Creating, tables, local, history, pairing, Goto
<1>1. ASSUME NEW r \in Requests, NEW o \in Orgs, CreateOrgGet(r, o)
      PROVE  TInv'
  <2>1. Arrive(r, o)
    BY <1>1 DEF CreateOrgGet
  <2> QED
    BY <1>1, <2>1, ArriveType DEF CreateOrgGet
<1>2. ASSUME NEW r \in Requests, NEW o \in Orgs, NEW p \in PatchArgs, UpdateOrgGet(r, o, p)
      PROVE  TInv'
  <2>1. Arrive(r, o)
    BY <1>2 DEF UpdateOrgGet
  <2>2. p \in Patches
    BY PatchArgsType
  <2> QED
    BY <1>2, <2>1, <2>2, ArriveType DEF UpdateOrgGet, Present
<1>3. ASSUME NEW r \in Requests, NEW o \in Orgs, DeleteOrg(r, o)
      PROVE  TInv'
  <2>1. Arrive(r, o)
    BY <1>3 DEF DeleteOrg
  <2>2. /\ formations' \in [Keys -> FormationConfig \cup {NoRow}]
        /\ genesis' \in [Keys -> GenesisRecord \cup {NoRow}]
        /\ settings' \in [SettingKeys -> Setting \cup {NoRow}]
    BY <1>3, CascadeRows DEF DeleteOrg, CascadeGenesis
  <2>3. crossed' \subseteq MeshIds /\ overtaken' \subseteq Requests
    <3>1. \A q \in Requests : pc[q] = "store_genesis" => mesh[q] \in MeshIds
      BY DEF MeshIds
    <3> QED
      BY <1>3, <3>1 DEF DeleteOrg, InFlight
  <2>4. orgs' \in [Orgs -> Organization \cup {NoRow}] /\ makers' \in [Keys -> SUBSET Requests]
    BY <1>3 DEF DeleteOrg, Remove, Put
  <2>5. /\ pc' = [pc EXCEPT ![r] = "done"]
        /\ UNCHANGED <<backend, app, item, seen, patch, mesh, cutShort, spared, peak, given>>
    BY <1>3 DEF DeleteOrg
  <2> QED
    BY <2>1, <2>2, <2>3, <2>4, <2>5, ArriveType
<1>4. ASSUME NEW r \in Requests, NEW o \in Orgs, NEW a \in Apps, CreateFormationGetOrg(r, o, a)
      PROVE  TInv'
  <2>1. Arrive(r, o)
    BY <1>4 DEF CreateFormationGetOrg
  <2> QED
    BY <1>4, <2>1, ArriveType DEF CreateFormationGetOrg, Present, MeshIds
<1>5. ASSUME NEW r \in Requests, NEW o \in Orgs, NEW a \in Apps, DeleteFormationRow(r, o, a)
      PROVE  TInv'
  <2>1. Arrive(r, o)
    BY <1>5 DEF DeleteFormationRow
  <2>2. <<o, a>> \in Keys
    OBVIOUS
  <2>3. formations' \in [Keys -> FormationConfig \cup {NoRow}]
    BY <1>5, <2>2 DEF DeleteFormationRow, Remove, Put
  <2>4. Present(formations, <<o, a>>) => formations[<<o, a>>].mesh_id \in MeshIds
    BY <2>2 DEF Present, FormationConfig
  <2>5. makers' \in [Keys -> SUBSET Requests] /\ crossed' \subseteq MeshIds
    <3>1. \A q \in Storing(<<o, a>>) : mesh[q] \in MeshIds
      BY DEF MeshIds, Storing
    <3>2. crossed' = crossed \/ crossed' = crossed \cup {mesh[q] : q \in Storing(<<o, a>>)}
      BY <1>5 DEF DeleteFormationRow
    <3>3. makers' \in [Keys -> SUBSET Requests]
      BY <1>5, <2>2 DEF DeleteFormationRow
    <3> QED
      BY <3>1, <3>2, <3>3
  <2>6. /\ app' = [app EXCEPT ![r] = a]
        /\ \/ /\ mesh' = [mesh EXCEPT ![r] = formations[<<o, a>>].mesh_id]
              /\ formations[<<o, a>>].mesh_id \in MeshIds
              /\ pc' = [pc EXCEPT ![r] = "delete_genesis"]
           \/ /\ UNCHANGED mesh
              /\ pc' = [pc EXCEPT ![r] = "done"]
        /\ UNCHANGED <<backend, orgs, genesis, settings, item, seen, patch, cutShort, spared,
                       overtaken, peak, given>>
    BY <1>5, <2>4 DEF DeleteFormationRow
  <2>7. /\ mesh' \in [Requests -> MeshIds \cup {None}] /\ pc' \in [Requests -> Steps]
        /\ pc'[r] \in {"done", "delete_genesis"}
        /\ pc'[r] = "delete_genesis" => mesh'[r] \in MeshIds
        /\ \A x \in Requests \ {r} : pc'[x] = pc[x] /\ mesh'[x] = mesh[x]
    BY <2>6
  <2>8. app' \in [Requests -> Apps \cup {None}] /\ app'[r] = a /\ \A x \in Requests \ {r} : app'[x] = app[x]
    BY <2>6
  <2>9. TypeOK'
    BY <2>1, <2>3, <2>5, <2>6, <2>7, <2>8, ArriveType
  <2>10. /\ org'[r] = o /\ \A x \in Requests \ {r} : org'[x] = org[x]
    BY <2>1, ArriveType
  <2>11. Located'
    BY <2>6, <2>7, <2>8, <2>10
  <2> QED
    BY <2>9, <2>11
<1>6. ASSUME NEW r \in Requests, NEW o \in Orgs,
             NEW next \in {"list_sinks", "create_idp", "create_policy_rule"},
             CreateSettingGetOrg(r, o, next)
      PROVE  TInv'
  <2>1. Arrive(r, o)
    BY <1>6 DEF CreateSettingGetOrg
  <2> QED
    BY <1>6, <2>1, ArriveType DEF CreateSettingGetOrg, Present
<1>7. ASSUME NEW r \in Requests, NEW o \in Orgs, NEW i \in given, NEW enabled \in BOOLEAN,
             ToggleGet(r, o, i, enabled)
      PROVE  TInv'
  <2>1. Arrive(r, o)
    BY <1>7 DEF ToggleGet
  <2>2. [enabled |-> enabled] \in Patches
    BY DEF Patches
  <2> QED
    BY <1>7, <2>1, <2>2, ArriveType DEF ToggleGet
<1>8. ASSUME NEW r \in Requests, NEW o \in Orgs, NEW i \in given, DeleteSetting(r, o, i)
      PROVE  TInv'
  <2>1. Arrive(r, o)
    BY <1>8 DEF DeleteSetting
  <2> QED
    BY <1>8, <2>1, ArriveType DEF DeleteSetting, Remove, Put
<1>9. ASSUME NEW r \in Requests, CreateOrgInsert(r)
      PROVE  TInv'
  <2>1. org[r] \in Orgs
    BY <1>9 DEF CreateOrgInsert
  <2>2. [display_name |-> "first", quotas |-> DefaultQuota] \in Organization
    BY DEF Organization, Names
  <2>3. orgs' \in [Orgs -> Organization \cup {NoRow}]
    BY <1>9, <2>1, <2>2 DEF CreateOrgInsert, Insert, Put
  <2>4. peak' \in [Orgs -> Nat]
    BY <1>9, <2>1, <2>3, PeakType DEF CreateOrgInsert
  <2>5. /\ pc' = [pc EXCEPT ![r] = "done"]
        /\ UNCHANGED <<backend, formations, genesis, settings, local, makers, pairing, overtaken, given, calm>>
    BY <1>9 DEF CreateOrgInsert
  <2> QED
    BY <2>3, <2>4, <2>5
<1>10. ASSUME NEW r \in Requests, UpdateOrgWrite(r)
       PROVE  TInv'
  <2>1. /\ org[r] \in Orgs /\ seen[r] \in Organization /\ patch[r] \in PatchArgs
    BY <1>10 DEF UpdateOrgWrite
  <2>2. Patched(seen[r], patch[r]) \in Organization
    BY <2>1, PatchedType
  <2>3. orgs' \in [Orgs -> Organization \cup {NoRow}]
    BY <1>10, <2>1, <2>2, UpdateOne DEF UpdateOrgWrite
  <2>4. peak' \in [Orgs -> Nat]
    BY <1>10, <2>1, <2>3, PeakType DEF UpdateOrgWrite
  <2> QED
    BY <1>10, <2>1, <2>3, <2>4 DEF UpdateOrgWrite
<1>11. ASSUME NEW r \in Requests, CreateFormationCheckQuota(r)
       PROVE  TInv'
  BY <1>11 DEF CreateFormationCheckQuota
<1>12. ASSUME NEW r \in Requests, CreateFormationCheckUnique(r)
       PROVE  TInv'
  BY <1>12 DEF CreateFormationCheckUnique
<1>13. ASSUME NEW r \in Requests, CreateFormationInsert(r)
       PROVE  TInv'
  <2>1. Key(r) \in Keys /\ [mesh_id |-> mesh[r]] \in FormationConfig
    BY <1>13 DEF CreateFormationInsert, FormationConfig, MeshIds, Key
  <2>2. formations' \in [Keys -> FormationConfig \cup {NoRow}]
    BY <1>13, <2>1 DEF CreateFormationInsert, Insert, Put
  <2>3. makers' \in [Keys -> SUBSET Requests]
    BY <1>13, <2>1 DEF CreateFormationInsert
  <2>4. crossed' \subseteq MeshIds
    <3>1. mesh[r] \in MeshIds
      BY <1>13 DEF CreateFormationInsert, MeshIds
    <3>2. Present(formations, Key(r)) => formations[Key(r)].mesh_id \in MeshIds
      BY <2>1 DEF Present, FormationConfig
    <3> QED
      BY <1>13, <3>1, <3>2 DEF CreateFormationInsert
  <2>5. /\ \E step \in {"store_genesis", "done"} : pc' = [pc EXCEPT ![r] = step]
        /\ pc[r] = "create_formation"
        /\ UNCHANGED <<backend, orgs, genesis, settings, local, cutShort, spared, overtaken,
                       peak, given, calm>>
    BY <1>13 DEF CreateFormationInsert
  <2> QED
    BY <2>2, <2>3, <2>4, <2>5
<1>14. ASSUME NEW r \in Requests, CreateFormationStoreGenesis(r)
       PROVE  TInv'
  <2>1. Key(r) \in Keys /\ [mesh_id |-> mesh[r]] \in GenesisRecord
    BY <1>14 DEF CreateFormationStoreGenesis, GenesisRecord, MeshIds, Key
  <2>2. genesis' \in [Keys -> GenesisRecord \cup {NoRow}]
    BY <1>14, <2>1 DEF CreateFormationStoreGenesis, GenesisStored, Put
  <2> QED
    BY <1>14, <2>2 DEF CreateFormationStoreGenesis
<1>15. ASSUME NEW r \in Requests, DeleteFormationGenesis(r)
       PROVE  TInv'
  <2>1. Key(r) \in Keys
    BY <1>15 DEF DeleteFormationGenesis, Key
  <2>2. genesis' \in [Keys -> GenesisRecord \cup {NoRow}]
    BY <1>15, <2>1 DEF DeleteFormationGenesis, GenesisDeleted, Remove, Put
  <2>3. calm' \in BOOLEAN
    BY <1>15, Zenon DEF DeleteFormationGenesis
  <2>4. spared' \subseteq MeshIds
    BY <1>15 DEF DeleteFormationGenesis
  <2> QED
    BY <1>15, <2>2, <2>3, <2>4 DEF DeleteFormationGenesis
<1>16. ASSUME NEW r \in Requests, CreateSinkCheckQuota(r)
       PROVE  TInv'
  BY <1>16 DEF CreateSinkCheckQuota
<1>17. ASSUME NEW r \in Requests,
              NEW step \in {"create_sink", "create_idp", "create_policy_rule"},
              NEW ids \in SUBSET SettingIds, CreateSettingInsert(r, step, ids)
       PROVE  TInv'
  <2>1. org[r] \in Orgs
    BY <1>17 DEF CreateSettingInsert
  <2>2. PICK i \in ids \ given :
            /\ settings' = Insert(settings, <<org[r], i>>, [enabled |-> TRUE], Present(orgs, org[r]))
            /\ given' = given \cup {i}
    BY <1>17 DEF CreateSettingInsert
  <2>3. <<org[r], i>> \in SettingKeys /\ [enabled |-> TRUE] \in Setting
    BY <2>1 DEF Setting
  <2>4. settings' \in [SettingKeys -> Setting \cup {NoRow}]
    BY <2>2, <2>3 DEF Insert, Put
  <2>5. /\ pc' = [pc EXCEPT ![r] = "done"]
        /\ given' \subseteq SettingIds
        /\ UNCHANGED <<backend, orgs, formations, genesis, local, makers, pairing, overtaken, peak, calm>>
    BY <1>17, <2>2 DEF CreateSettingInsert
  <2> QED
    BY <2>4, <2>5
<1>18. ASSUME NEW r \in Requests, ToggleWrite(r)
       PROVE  TInv'
  <2>1. <<org[r], item[r]>> \in SettingKeys /\ [enabled |-> patch[r].enabled] \in Setting
    BY <1>18 DEF ToggleWrite, Setting
  <2>2. settings' \in [SettingKeys -> Setting \cup {NoRow}]
    BY <1>18, <2>1, UpdateOne DEF ToggleWrite
  <2> QED
    BY <1>18, <2>2, SMTT(30) DEF ToggleWrite
<1>19. ASSUME NEW r \in Requests, Drop(r)
       PROVE  TInv'
  <2>1. calm' \in BOOLEAN
    BY <1>19, Zenon DEF Drop
  <2>2. cutShort' \subseteq MeshIds /\ spared' \subseteq MeshIds
    BY <1>19 DEF Drop, MeshIds
  <2> QED
    BY <1>19, <2>1, <2>2 DEF Drop
<1>20. CASE AllServed \/ UNCHANGED vars
  BY <1>20 DEF AllServed, vars
<1>21. SinkIds \subseteq SettingIds /\ IdpIds \subseteq SettingIds /\ RuleIds \subseteq SettingIds
  BY DEF SettingIds
<1> HIDE <1>0 DEF TInv, TypeOK, Located, Steps, Creating, tables, local, history, pairing, Goto
<1> QED
  BY <1>1, <1>2, <1>3, <1>4, <1>5, <1>6, <1>7, <1>8, <1>9, <1>10, <1>11, <1>12,
     <1>13, <1>14, <1>15, <1>16, <1>17, <1>18, <1>19, <1>20, <1>21
     DEF Next, CreateSinkGetOrg, CreateIdpGetOrg, CreatePolicyRuleGetOrg, ToggleSinkGet,
         ToggleIdpGet, DeleteSink, DeleteIdp, DeletePolicyRule, CreateSinkInsert,
         CreateIdpInsert, CreatePolicyRuleInsert

\* Every row of the tables is a row of its kind, whatever requests run beside
\* each other and wherever they are cut short.
THEOREM TypeCorrect == Spec => []TypeOK
<1>1. Spec => []TInv
  BY TypeInit, TypeStep, PTL DEF Spec
<1>2. TInv => TypeOK
  BY DEF TInv
<1> QED
  BY <1>1, <1>2, PTL

-----------------------------------------------------------------------------
(* Steps by the request that takes them.                                    *)

\* A step of one request: it begins or goes on, it keeps its path once it has
\* begun, the others stay where they are, and if the step leaves the history
\* calm, nobody was in flight when it began.
Moves(r) ==
    /\ pc[r] # "done" /\ pc'[r] # "idle"
    /\ \A x \in Requests \ {r} :
          /\ pc'[x] = pc[x] /\ org'[x] = org[x] /\ app'[x] = app[x] /\ mesh'[x] = mesh[x]
          /\ item'[x] = item[x] /\ seen'[x] = seen[x] /\ patch'[x] = patch[x]
    /\ pc[r] # "idle" =>
          /\ org'[r] = org[r] /\ app'[r] = app[r] /\ mesh'[r] = mesh[r]
          /\ item'[r] = item[r] /\ seen'[r] = seen[r] /\ patch'[r] = patch[r]
    /\ calm' => calm /\ (pc[r] = "idle" => InFlight = {})

\* A request's first step.
Begins(r, o) ==
    \/ CreateOrgGet(r, o)
    \/ \E p \in PatchArgs : UpdateOrgGet(r, o, p)
    \/ DeleteOrg(r, o)
    \/ \E a \in Apps : CreateFormationGetOrg(r, o, a) \/ DeleteFormationRow(r, o, a)
    \/ \E next \in {"list_sinks", "create_idp", "create_policy_rule"} : CreateSettingGetOrg(r, o, next)
    \/ \E i \in given, enabled \in BOOLEAN : ToggleGet(r, o, i, enabled)
    \/ \E i \in given : DeleteSetting(r, o, i)

\* Its later ones.
GoesOn(r) ==
    \/ CreateOrgInsert(r) \/ UpdateOrgWrite(r)
    \/ CreateFormationCheckQuota(r) \/ CreateFormationCheckUnique(r)
    \/ CreateFormationInsert(r) \/ CreateFormationStoreGenesis(r)
    \/ DeleteFormationGenesis(r)
    \/ CreateSinkCheckQuota(r)
    \/ CreateSinkInsert(r) \/ CreateIdpInsert(r) \/ CreatePolicyRuleInsert(r)
    \/ ToggleWrite(r)
    \/ Drop(r)

\* Every step is one of these, or changes nothing.
LEMMA StepOfOne ==
    ASSUME [Next]_vars
    PROVE  UNCHANGED vars \/ \E r \in Requests : GoesOn(r) \/ \E o \in Orgs : Begins(r, o)
BY DEF Next, AllServed, Begins, GoesOn, CreateSinkGetOrg, CreateIdpGetOrg, CreatePolicyRuleGetOrg,
       ToggleSinkGet, ToggleIdpGet, DeleteSink, DeleteIdp, DeletePolicyRule

\* A first step moves its request alone.
LEMMA BeginsMoves ==
    ASSUME TInv, NEW r \in Requests, NEW o \in Orgs, Begins(r, o)
    PROVE  Moves(r) /\ pc[r] = "idle"
<1>0. /\ pc \in [Requests -> Steps] /\ org \in [Requests -> Orgs \cup {None}]
      /\ app \in [Requests -> Apps \cup {None}] /\ item \in [Requests -> SettingIds \cup {None}]
      /\ seen \in [Requests -> Organization \cup {NoRow}] /\ patch \in [Requests -> Patches \cup {None}]
      /\ mesh \in [Requests -> MeshIds \cup {None}]
  BY DEF TInv, TypeOK
<1>1. /\ pc[r] = "idle"
      /\ \A x \in Requests \ {r} : org'[x] = org[x]
      /\ calm' = (calm /\ InFlight = {})
  BY <1>0 DEF Begins, CreateOrgGet, UpdateOrgGet, DeleteOrg, CreateFormationGetOrg,
         DeleteFormationRow, CreateSettingGetOrg, ToggleGet, DeleteSetting, Arrive
<1>2. \E step \in Steps \ {"idle"} : pc' = [pc EXCEPT ![r] = step]
  BY DEF Begins, CreateOrgGet, UpdateOrgGet, DeleteOrg, CreateFormationGetOrg,
         DeleteFormationRow, CreateSettingGetOrg, ToggleGet, DeleteSetting, Goto, Steps
<1>3. \A x \in Requests \ {r} : app'[x] = app[x] /\ mesh'[x] = mesh[x]
  BY <1>0, ZenonT(40) DEF Begins, CreateOrgGet, UpdateOrgGet, DeleteOrg, CreateFormationGetOrg,
         DeleteFormationRow, CreateSettingGetOrg, ToggleGet, DeleteSetting
<1>4. \A x \in Requests \ {r} : item'[x] = item[x] /\ seen'[x] = seen[x] /\ patch'[x] = patch[x]
  BY <1>0 DEF Begins, CreateOrgGet, UpdateOrgGet, DeleteOrg, CreateFormationGetOrg,
         DeleteFormationRow, CreateSettingGetOrg, ToggleGet, DeleteSetting
<1>5. \A x \in Requests \ {r} : pc'[x] = pc[x]
  BY <1>0, <1>2
<1>6. pc'[r] # "idle"
  BY <1>0, <1>2
<1> QED
  BY <1>1, <1>3, <1>4, <1>5, <1>6 DEF Moves

\* So does a later one.
LEMMA GoesOnMoves ==
    ASSUME TInv, NEW r \in Requests, GoesOn(r)
    PROVE  Moves(r) /\ pc[r] \notin {"idle", "done"} /\ UNCHANGED local
<1>0. pc \in [Requests -> Steps]
  BY DEF TInv, TypeOK
<1>1. UNCHANGED local /\ pc[r] \notin {"idle", "done"}
  BY DEF GoesOn, CreateOrgInsert, UpdateOrgWrite, CreateFormationCheckQuota,
         CreateFormationCheckUnique, CreateFormationInsert, CreateFormationStoreGenesis,
         DeleteFormationGenesis, CreateSinkCheckQuota, CreateSinkInsert, CreateIdpInsert,
         CreatePolicyRuleInsert, CreateSettingInsert, ToggleWrite, Drop, InFlight
<1>2. \E step \in Steps \ {"idle"} : pc' = [pc EXCEPT ![r] = step]
  BY DEF GoesOn, CreateOrgInsert, UpdateOrgWrite, CreateFormationCheckQuota,
         CreateFormationCheckUnique, CreateFormationInsert, CreateFormationStoreGenesis,
         DeleteFormationGenesis, CreateSinkCheckQuota, CreateSinkInsert, CreateIdpInsert,
         CreatePolicyRuleInsert, CreateSettingInsert, ToggleWrite, Drop, Goto, Steps
<1>3. calm' = calm \/ calm' = FALSE
  BY Zenon DEF GoesOn, CreateOrgInsert, UpdateOrgWrite, CreateFormationCheckQuota,
         CreateFormationCheckUnique, CreateFormationInsert, CreateFormationStoreGenesis,
         DeleteFormationGenesis, CreateSinkCheckQuota, CreateSinkInsert, CreateIdpInsert,
         CreatePolicyRuleInsert, CreateSettingInsert, ToggleWrite, Drop
<1>4. calm' => calm
  BY <1>3, Zenon
<1>5. pc'[r] # "idle" /\ \A x \in Requests \ {r} : pc'[x] = pc[x]
  BY <1>0, <1>2
<1> QED
  BY <1>1, <1>4, <1>5 DEF Moves, local

-----------------------------------------------------------------------------
(* Over Postgres: the primary key of formations.                            *)

\* The create that stored a formation's row, if this gateway stored it.
OneMaker ==
    backend = "postgres" =>
        \A k \in Keys, r \in Requests :
            r \in makers[k] => Present(formations, k) /\ \A q \in makers[k] : q = r

\* The primary key refuses the second create; a delete clears the record.
LEMMA OneMakerStep == TInv /\ OneMaker /\ [Next]_vars => OneMaker'
<1> SUFFICES ASSUME TInv, OneMaker, [Next]_vars PROVE OneMaker'
  OBVIOUS
<1>0. /\ formations \in [Keys -> FormationConfig \cup {NoRow}]
      /\ makers \in [Keys -> SUBSET Requests]
      /\ \A r \in Requests : pc[r] \in Creating => Key(r) \in Keys /\ mesh[r] = r
      /\ \A o \in Orgs, a \in Apps : <<o, a>> \in Keys
  BY DEF TInv, TypeOK, Located, Creating, Key, Keys
<1>1. CASE UNCHANGED <<backend, formations, makers>>
  BY <1>1 DEF OneMaker, Present
<1>2. ASSUME NEW r \in Requests, CreateFormationInsert(r) PROVE OneMaker'
  <2>1. PICK k \in Keys : k = Key(r)
    BY <1>0, <1>2 DEF CreateFormationInsert, Creating
  <2>2. mesh[r] = r /\ UNCHANGED backend
    BY <1>0, <1>2 DEF CreateFormationInsert, Creating
  <2>3. CASE InsertOk(formations, k, Present(orgs, org[r]))
    <3>1. /\ formations' = [formations EXCEPT ![k] = [mesh_id |-> r]]
          /\ makers' = [makers EXCEPT ![k] = makers[k] \cup {r}]
      BY <1>2, <2>1, <2>2, <2>3, Zenon DEF CreateFormationInsert, Insert, Put
    <3>2. [mesh_id |-> r] # NoRow
      BY DEF FormationConfig, MeshIds
    <3>3. backend = "postgres" => ~Present(formations, k)
      BY <2>3 DEF InsertOk, PgInsertOk
    <3> QED
      BY <1>0, <2>2, <3>1, <3>2, <3>3 DEF OneMaker, Present
  <2>4. CASE ~InsertOk(formations, k, Present(orgs, org[r]))
    <3>1. UNCHANGED <<formations, makers>>
      BY <1>2, <2>1, <2>4, Zenon DEF CreateFormationInsert, Insert
    <3> QED
      BY <1>1, <2>2, <3>1
  <2> QED
    BY <2>3, <2>4
<1>3. ASSUME NEW r \in Requests, NEW o \in Orgs, DeleteOrg(r, o) PROVE OneMaker'
  <2>1. \A k \in Keys : /\ makers'[k] = IF k[1] = o THEN {} ELSE makers[k]
                        /\ k[1] # o => formations'[k] = formations[k]
    BY <1>0, <1>3 DEF DeleteOrg, Cascade
  <2>2. UNCHANGED backend
    BY <1>3 DEF DeleteOrg
  <2> QED
    BY <2>1, <2>2 DEF OneMaker, Present
<1>4. ASSUME NEW r \in Requests, NEW o \in Orgs, NEW a \in Apps, DeleteFormationRow(r, o, a)
      PROVE  OneMaker'
  <2>1. PICK k \in Keys : k = <<o, a>>
    BY <1>0
  <2>2. /\ makers'[k] = {} /\ UNCHANGED backend
        /\ \A x \in Keys \ {k} : makers'[x] = makers[x] /\ formations'[x] = formations[x]
    BY <1>0, <1>4, <2>1 DEF DeleteFormationRow, Remove, Put
  <2> QED
    BY <2>2 DEF OneMaker, Present
<1>5. ASSUME NEW r \in Requests, GoesOn(r), ~CreateFormationInsert(r)
      PROVE  UNCHANGED <<backend, formations, makers>>
  BY <1>5 DEF GoesOn, CreateOrgInsert, UpdateOrgWrite, CreateFormationCheckQuota,
       CreateFormationCheckUnique, CreateFormationStoreGenesis, DeleteFormationGenesis,
       CreateSinkCheckQuota, CreateSinkInsert, CreateIdpInsert, CreatePolicyRuleInsert,
       CreateSettingInsert, ToggleWrite, Drop, tables, history
<1>6. ASSUME NEW r \in Requests, NEW o \in Orgs, Begins(r, o), ~DeleteOrg(r, o),
             \A a \in Apps : ~DeleteFormationRow(r, o, a)
      PROVE  UNCHANGED <<backend, formations, makers>>
  BY <1>6 DEF Begins, CreateOrgGet, UpdateOrgGet, CreateFormationGetOrg, CreateSettingGetOrg,
       ToggleGet, DeleteSetting, tables, history
<1>7. UNCHANGED vars => UNCHANGED <<backend, formations, makers>>
  BY DEF vars, tables, history
<1> QED
  BY <1>1, <1>2, <1>3, <1>4, <1>5, <1>6, <1>7, StepOfOne

\* Over Postgres, of any number of creates of one formation that have passed
\* the uniqueness check together, one gets its row into the table.
THEOREM OneCreate == Spec => []OneCreateWins
<1>1. Init => OneMaker
  BY DEF Init, OneMaker
<1>2. TInv /\ OneMaker => OneCreateWins
  <2> SUFFICES ASSUME TInv, OneMaker, backend = "postgres", NEW k \in Keys
               PROVE  Cardinality(makers[k]) <= 1
    BY DEF OneCreateWins
  <2>1. makers[k] \subseteq Requests
    BY DEF TInv, TypeOK
  <2>2. CASE makers[k] = {}
    BY <2>2, FS_EmptySet
  <2>3. CASE makers[k] # {}
    <3>1. PICK r \in Requests : makers[k] = {r}
      BY <2>1, <2>3 DEF OneMaker
    <3> QED
      BY <3>1, FS_Singleton, SMTT(30)
  <2> QED
    BY <2>2, <2>3
<1> QED
  BY <1>1, <1>2, TypeInit, TypeStep, OneMakerStep, PTL DEF Spec

-----------------------------------------------------------------------------
(* The return of organizations, over either backend.                        *)

\* An organization's row is written by create_org and update_org alone, and
\* removed by delete_org.
LEMMA OrgWriters ==
    ASSUME [Next]_vars, orgs' # orgs
    PROVE  \E r \in Requests : \/ CreateOrgInsert(r) \/ UpdateOrgWrite(r)
                               \/ \E o \in Orgs : DeleteOrg(r, o)
<1>1. ASSUME NEW r \in Requests, GoesOn(r), ~CreateOrgInsert(r), ~UpdateOrgWrite(r)
      PROVE  UNCHANGED orgs
  BY <1>1 DEF GoesOn, CreateFormationCheckQuota,
       CreateFormationCheckUnique, CreateFormationInsert, CreateFormationStoreGenesis,
       DeleteFormationGenesis, CreateSinkCheckQuota, CreateSinkInsert, CreateIdpInsert,
       CreatePolicyRuleInsert, CreateSettingInsert, ToggleWrite, Drop, tables
<1>2. ASSUME NEW r \in Requests, NEW o \in Orgs, Begins(r, o), ~DeleteOrg(r, o)
      PROVE  UNCHANGED orgs
  BY <1>2 DEF Begins, CreateOrgGet, UpdateOrgGet, CreateFormationGetOrg, DeleteFormationRow,
       CreateSettingGetOrg, ToggleGet, DeleteSetting, tables
<1>3. ~UNCHANGED vars
  BY DEF vars, tables
<1> QED
  BY <1>1, <1>2, <1>3, StepOfOne

\* A deleted organization comes back by create_org only; over redb also by an
\* update_org that has read the row before it was deleted, since its put is an
\* upsert.
THEOREM OrgReturns == Spec => OrgReturnsByCreateOnly
<1>1. TInv /\ [Next]_vars
      => [\A o \in Orgs :
             ~Present(orgs, o) /\ Present(orgs', o)
             => \E r \in Requests :
                   /\ org[r] = o /\ pc'[r] = "done"
                   /\ \/ pc[r] = "create_org_insert"
                      \/ backend = "redb" /\ pc[r] = "update_org_write"]_vars
  <2> SUFFICES ASSUME TInv, [Next]_vars, NEW o \in Orgs, ~Present(orgs, o), Present(orgs', o)
               PROVE  \E r \in Requests :
                         /\ org[r] = o /\ pc'[r] = "done"
                         /\ \/ pc[r] = "create_org_insert"
                            \/ backend = "redb" /\ pc[r] = "update_org_write"
    OBVIOUS
  <2>0. orgs \in [Orgs -> Organization \cup {NoRow}] /\ pc \in [Requests -> Steps] /\ orgs' # orgs
    BY DEF TInv, TypeOK, Present
  <2>1. PICK r \in Requests : CreateOrgInsert(r) \/ UpdateOrgWrite(r) \/ \E x \in Orgs : DeleteOrg(r, x)
    BY <2>0, OrgWriters
  <2>2. ~\E x \in Orgs : DeleteOrg(r, x)
    BY <2>0 DEF DeleteOrg, Remove, Put, Present
  <2>3. CASE CreateOrgInsert(r)
    BY <2>0, <2>3 DEF CreateOrgInsert, Insert, Put, Present, Goto
  <2>4. CASE UpdateOrgWrite(r)
    <3>1. org[r] = o /\ (backend = "redb" \/ Present(orgs, o))
      BY <2>0, <2>4 DEF UpdateOrgWrite, Update, RedbUpdate, PgUpdate, Put, Present
    <3> QED
      BY <2>0, <2>4, <3>1 DEF UpdateOrgWrite, Goto
  <2> QED
    BY <2>1, <2>2, <2>3, <2>4
<1> QED
  BY <1>1, TypeInit, TypeStep, PTL DEF Spec, OrgReturnsByCreateOnly

-----------------------------------------------------------------------------
(* What outlives its organization.                                          *)

\* Steps of a request that has found its organization.
Past == Creating \cup {"list_sinks", "create_sink", "create_idp", "create_policy_rule"}

\* A request that goes on although its organization has gone was overtaken by
\* delete_org; a toggle may also work on a row that such a request left behind.
OrphanInv ==
    /\ NoOrphans
    /\ \A r \in Requests :
          /\ r \in overtaken => pc[r] # "idle"
          /\ pc[r] \in Past /\ ~Present(orgs, org[r]) => r \in overtaken
          /\ pc[r] = "update_setting" /\ ~Present(orgs, org[r])
                => \E q \in overtaken : org[q] = org[r]

\* An earlier gateway has left no orphans.
LEMMA OrphanInit == Init => OrphanInv
<1> SUFFICES ASSUME Init PROVE OrphanInv
  OBVIOUS
<1>1. PICK old \in SUBSET Keys, held \in SUBSET Keys :
          /\ \A k \in old \cup held : Present(orgs, k[1])
          /\ formations = [k \in Keys |-> IF k \in old THEN [mesh_id |-> k] ELSE NoRow]
          /\ genesis = [k \in Keys |-> IF k \in held THEN [mesh_id |-> k] ELSE NoRow]
          /\ cutShort = old \ held /\ spared = held \ old
  BY InitRows, Zenon
<1>2. \A k \in Keys : Present(formations, k) \/ Present(genesis, k) => Present(orgs, k[1])
  BY <1>1 DEF Present
<1>3. \A k \in SettingKeys : ~Present(settings, k)
  BY DEF Init, Empty, Present
<1>4. overtaken = {} /\ \A r \in Requests : pc[r] = "idle"
  BY DEF Init
<1> QED
  BY <1>2, <1>3, <1>4 DEF OrphanInv, NoOrphans, Past, Creating

\* Every step keeps it.
LEMMA OrphanStep == TInv /\ OrphanInv /\ [Next]_vars => OrphanInv'
<1> SUFFICES ASSUME TInv, OrphanInv, [Next]_vars PROVE OrphanInv'
  OBVIOUS
<1>0. /\ formations \in [Keys -> FormationConfig \cup {NoRow}]
      /\ genesis \in [Keys -> GenesisRecord \cup {NoRow}]
      /\ settings \in [SettingKeys -> Setting \cup {NoRow}]
      /\ orgs \in [Orgs -> Organization \cup {NoRow}]
      /\ pc \in [Requests -> Steps] /\ overtaken \subseteq Requests
      /\ \A r \in Requests : pc[r] \in Creating => Key(r) \in Keys /\ mesh[r] = r
      /\ \A r \in Requests : pc[r] \notin {"idle", "done"} => org[r] \in Orgs
      /\ \A k \in Keys : k[1] \in Orgs
      /\ \A k \in SettingKeys : k[1] \in Orgs
  BY DEF TInv, TypeOK, Located, Creating, Key, Keys, SettingKeys
<1>1. CASE UNCHANGED vars
  BY <1>1 DEF vars, tables, local, history, OrphanInv, NoOrphans, Present
\* A step that deletes no organization need only say what it writes.
<1>2. ASSUME NEW r \in Requests, Moves(r), UNCHANGED <<backend, overtaken>>,
             \A o \in Orgs : Present(orgs, o) => Present(orgs', o),
             \A k \in Keys : Present(formations', k) =>
                 \/ formations'[k] = formations[k] \/ Present(orgs, k[1])
                 \/ backend = "redb" /\ formations'[k].mesh_id \in overtaken,
             \A k \in Keys : Present(genesis', k) =>
                 \/ genesis'[k] = genesis[k] \/ Present(orgs, k[1])
                 \/ backend = "redb" /\ genesis'[k].mesh_id \in overtaken,
             \A k \in SettingKeys : Present(settings', k) =>
                 \/ settings'[k] = settings[k] \/ Present(orgs, k[1])
                 \/ backend = "redb" /\ \E q \in overtaken : org[q] = k[1],
             pc'[r] \in Past => r \in overtaken \/ Present(orgs', org'[r]),
             pc'[r] = "update_setting"
                 => Present(orgs', org'[r]) \/ \E q \in overtaken : org[q] = org'[r]
      PROVE  OrphanInv'
  <2>1. \A q \in overtaken : org'[q] = org[q] /\ pc'[q] # "idle"
    BY <1>0, <1>2 DEF OrphanInv, Moves
  <2>2. \A k \in Keys : ~Present(orgs', k[1]) =>
          /\ Present(formations', k) => backend = "redb" /\ formations'[k].mesh_id \in overtaken
          /\ Present(genesis', k) => backend = "redb" /\ genesis'[k].mesh_id \in overtaken
    BY <1>0, <1>2 DEF OrphanInv, NoOrphans, Present
  <2>3. \A k \in SettingKeys : ~Present(orgs', k[1]) /\ Present(settings', k)
          => backend = "redb" /\ \E q \in overtaken : org[q] = k[1]
    BY <1>0, <1>2 DEF OrphanInv, NoOrphans, Present
  <2>4. NoOrphans'
    BY <1>2, <2>1, <2>2, <2>3 DEF NoOrphans, Present
  <2>5. ASSUME NEW x \in Requests, pc'[x] \in Past, ~Present(orgs', org'[x])
        PROVE  x \in overtaken
    <3>1. CASE x = r
      BY <1>2, <2>5, <3>1
    <3>2. CASE x # r
      <4>1. pc[x] = pc'[x] /\ org'[x] = org[x]
        BY <1>2, <3>2 DEF Moves
      <4>2. org[x] \in Orgs
        BY <1>0, <2>5, <4>1 DEF Past, Creating
      <4> QED
        BY <1>2, <2>5, <4>1, <4>2 DEF OrphanInv
    <3> QED
      BY <3>1, <3>2
  <2>6. ASSUME NEW x \in Requests, pc'[x] = "update_setting", ~Present(orgs', org'[x])
        PROVE  \E q \in overtaken : org[q] = org'[x]
    <3>1. CASE x = r
      BY <1>2, <2>6, <3>1
    <3>2. CASE x # r
      <4>1. pc[x] = pc'[x] /\ org'[x] = org[x]
        BY <1>2, <3>2 DEF Moves
      <4>2. org[x] \in Orgs
        BY <1>0, <2>6, <4>1
      <4> QED
        BY <1>2, <2>6, <4>1, <4>2 DEF OrphanInv
    <3> QED
      BY <3>1, <3>2
  <2> QED
    BY <1>0, <1>2, <2>1, <2>4, <2>5, <2>6 DEF OrphanInv, Present
<1>3. ASSUME NEW r \in Requests, NEW o \in Orgs, DeleteOrg(r, o) PROVE OrphanInv'
  <2>1. \A k \in Keys :
            LET gone == (backend = "redb" \/ Present(orgs, o)) /\ k[1] = o
            IN  /\ formations'[k] = IF gone THEN NoRow ELSE formations[k]
                /\ genesis'[k] = IF gone THEN NoRow ELSE genesis[k]
    BY <1>0, <1>3 DEF DeleteOrg, CascadeGenesis, Cascade
  <2>2. \A k \in SettingKeys :
            settings'[k] = IF (backend = "redb" \/ Present(orgs, o)) /\ k[1] = o
                           THEN NoRow ELSE settings[k]
    BY <1>0, <1>3 DEF DeleteOrg, Cascade
  <2>3. /\ orgs'[o] = NoRow /\ \A x \in Orgs \ {o} : orgs'[x] = orgs[x]
        /\ UNCHANGED backend
        /\ overtaken' = overtaken \cup {q \in InFlight : org[q] = o}
    BY <1>0, <1>3 DEF DeleteOrg, Remove, Put
  <2>4. pc'[r] = "done" /\ pc[r] = "idle" /\ \A x \in Requests \ {r} : pc'[x] = pc[x] /\ org'[x] = org[x]
    <3>1. Begins(r, o)
      BY <1>3 DEF Begins
    <3>2. Moves(r) /\ pc[r] = "idle"
      BY <3>1, BeginsMoves
    <3>3. pc'[r] = "done"
      BY <1>0, <1>3 DEF DeleteOrg, Goto
    <3> QED
      BY <3>2, <3>3 DEF Moves
  <2>5. \A q \in overtaken : q \in overtaken' /\ org'[q] = org[q]
    BY <1>0, <2>3, <2>4 DEF OrphanInv
  <2>6. \A k \in Keys : ~Present(orgs', k[1]) =>
          /\ Present(formations', k) => backend = "redb" /\ formations'[k].mesh_id \in overtaken
          /\ Present(genesis', k) => backend = "redb" /\ genesis'[k].mesh_id \in overtaken
    BY <1>0, <2>1, <2>3 DEF OrphanInv, NoOrphans, Present
  <2>7. \A k \in SettingKeys : ~Present(orgs', k[1]) /\ Present(settings', k)
          => backend = "redb" /\ \E q \in overtaken : org[q] = k[1]
    BY <1>0, <2>2, <2>3 DEF OrphanInv, NoOrphans, Present
  <2>8. NoOrphans'
    BY <2>3, <2>5, <2>6, <2>7 DEF NoOrphans, Present
  <2>9. \A x \in Requests : pc'[x] \notin {"idle", "done"} =>
           /\ x # r /\ pc[x] = pc'[x] /\ org'[x] = org[x] /\ org[x] \in Orgs
           /\ org[x] = o => x \in overtaken'
    BY <1>0, <2>3, <2>4 DEF InFlight
  <2>10. \A x \in overtaken' : x \in Requests /\ pc'[x] # "idle"
    BY <1>0, <2>3, <2>4 DEF OrphanInv, InFlight
  <2>11. ASSUME NEW x \in Requests, pc'[x] \in Past, ~Present(orgs', org'[x]) PROVE x \in overtaken'
    <3>1. pc'[x] \notin {"idle", "done"}
      BY <2>11 DEF Past, Creating
    <3> QED
      BY <2>3, <2>9, <2>11, <3>1 DEF OrphanInv, Present
  <2>12. ASSUME NEW x \in Requests, pc'[x] = "update_setting", ~Present(orgs', org'[x])
         PROVE  \E q \in overtaken' : org'[q] = org'[x]
    <3>1. CASE org[x] = o
      BY <2>9, <2>12, <3>1
    <3>2. CASE org[x] # o
      <4>1. \E q \in overtaken : org[q] = org[x]
        BY <2>3, <2>9, <2>12, <3>2 DEF OrphanInv, Present
      <4> QED
        BY <2>5, <2>9, <2>12, <4>1
    <3> QED
      BY <3>1, <3>2
  <2> QED
    BY <2>8, <2>10, <2>11, <2>12 DEF OrphanInv, Present
<1>4. ASSUME NEW r \in Requests, NEW o \in Orgs, Begins(r, o), ~DeleteOrg(r, o) PROVE OrphanInv'
  <2>1. Moves(r)
    BY <1>4, BeginsMoves
  <2>2. /\ UNCHANGED <<backend, overtaken, orgs, genesis>> /\ org'[r] = o
    BY <1>0, <1>4 DEF Begins, CreateOrgGet, UpdateOrgGet, CreateFormationGetOrg, DeleteFormationRow,
         CreateSettingGetOrg, ToggleGet, DeleteSetting, tables, history, Arrive, TInv, TypeOK
  <2>3. \A k \in Keys : formations'[k] \in {formations[k], NoRow}
    <3>1. CASE \E a \in Apps : DeleteFormationRow(r, o, a)
      BY <1>0, <3>1 DEF DeleteFormationRow, Remove, Put
    <3>2. CASE ~\E a \in Apps : DeleteFormationRow(r, o, a)
      BY <1>4, <3>2 DEF Begins, CreateOrgGet, UpdateOrgGet, CreateFormationGetOrg,
         CreateSettingGetOrg, ToggleGet, DeleteSetting, tables
    <3> QED
      BY <3>1, <3>2
  <2>4. \A k \in SettingKeys : settings'[k] \in {settings[k], NoRow}
    <3>1. CASE \E i \in given : DeleteSetting(r, o, i)
      BY <1>0, <3>1 DEF DeleteSetting, Remove, Put
    <3>2. CASE ~\E i \in given : DeleteSetting(r, o, i)
      BY <1>4, <3>2 DEF Begins, CreateOrgGet, UpdateOrgGet, CreateFormationGetOrg, DeleteFormationRow,
         CreateSettingGetOrg, ToggleGet, tables
    <3> QED
      BY <3>1, <3>2
  <2>5. pc'[r] \in Past => Present(orgs, o)
    <3>1. CASE \/ \E a \in Apps : CreateFormationGetOrg(r, o, a)
               \/ \E next \in {"list_sinks", "create_idp", "create_policy_rule"} :
                     CreateSettingGetOrg(r, o, next)
      BY <1>0, <3>1 DEF CreateFormationGetOrg, CreateSettingGetOrg, Goto, Past, Creating
    <3>2. CASE ~\/ \E a \in Apps : CreateFormationGetOrg(r, o, a)
                \/ \E next \in {"list_sinks", "create_idp", "create_policy_rule"} :
                      CreateSettingGetOrg(r, o, next)
      <4>1. pc'[r] \in {"done", "create_org_insert", "update_org_write", "delete_genesis",
                        "update_setting"}
        BY <1>0, <1>4, <3>2 DEF Begins, CreateOrgGet, UpdateOrgGet, DeleteFormationRow,
             ToggleGet, DeleteSetting, Goto
      <4> QED
        BY <4>1 DEF Past, Creating
    <3> QED
      BY <3>1, <3>2
  <2>6. pc'[r] = "update_setting" => \E i \in given : Present(settings, <<o, i>>)
    <3>1. pc'[r] = "update_setting" => \E i \in given, enabled \in BOOLEAN : ToggleGet(r, o, i, enabled)
      <4>1. CASE \E a \in Apps : CreateFormationGetOrg(r, o, a) \/ DeleteFormationRow(r, o, a)
        BY <1>0, <4>1 DEF CreateFormationGetOrg, DeleteFormationRow, Goto
      <4>2. CASE \E next \in {"list_sinks", "create_idp", "create_policy_rule"} :
                    CreateSettingGetOrg(r, o, next)
        BY <1>0, <4>2 DEF CreateSettingGetOrg, Goto
      <4>3. CASE \/ CreateOrgGet(r, o) \/ \E p \in PatchArgs : UpdateOrgGet(r, o, p)
                 \/ \E i \in given : DeleteSetting(r, o, i)
        BY <1>0, <4>3 DEF CreateOrgGet, UpdateOrgGet, DeleteSetting, Goto
      <4> QED
        BY <1>4, <4>1, <4>2, <4>3 DEF Begins
    <3> QED
      BY <1>0, <3>1 DEF ToggleGet, Goto
  <2>7. pc'[r] = "update_setting" => Present(orgs, o) \/ \E q \in overtaken : org[q] = o
    <3> SUFFICES ASSUME pc'[r] = "update_setting", ~Present(orgs, o)
                 PROVE  \E q \in overtaken : org[q] = o
      OBVIOUS
    <3>1. PICK i \in given : Present(settings, <<o, i>>)
      BY <2>6
    <3>2. i \in SettingIds
      BY DEF TInv, TypeOK
    <3>3. <<o, i>> \in SettingKeys /\ <<o, i>>[1] = o
      BY <3>2 DEF SettingKeys
    <3> QED
      BY <3>1, <3>3 DEF OrphanInv, NoOrphans
  <2> QED
    BY <1>2, <2>1, <2>2, <2>3, <2>4, <2>5, <2>7 DEF Present
<1>5. ASSUME NEW r \in Requests, GoesOn(r) PROVE OrphanInv'
  <2>1. /\ Moves(r) /\ UNCHANGED local /\ org[r] \in Orgs
    BY <1>0, <1>5, GoesOnMoves
  <2>2. UNCHANGED <<backend, overtaken, org>>
    BY <1>5, <2>1 DEF GoesOn, CreateOrgInsert, UpdateOrgWrite, CreateFormationCheckQuota,
       CreateFormationCheckUnique, CreateFormationInsert, CreateFormationStoreGenesis,
       DeleteFormationGenesis, CreateSinkCheckQuota, CreateSinkInsert, CreateIdpInsert,
       CreatePolicyRuleInsert, CreateSettingInsert, ToggleWrite, Drop, tables, history, local
  <2>3. \A o \in Orgs : Present(orgs, o) => Present(orgs', o)
    <3>1. CASE CreateOrgInsert(r)
      <4>1. [display_name |-> "first", quotas |-> DefaultQuota] \in Organization
        BY DEF Organization, Names
      <4> QED
        BY <1>0, <3>1, <4>1 DEF CreateOrgInsert, Insert, Put, Present
    <3>2. CASE UpdateOrgWrite(r)
      <4>1. Patched(seen[r], patch[r]) \in Organization
        BY <3>2, PatchedType DEF UpdateOrgWrite, TInv, Located
      <4> QED
        BY <1>0, <3>2, <4>1 DEF UpdateOrgWrite, Update, RedbUpdate, PgUpdate, Put, Present
    <3>3. CASE ~CreateOrgInsert(r) /\ ~UpdateOrgWrite(r)
      <4>1. ~\E o \in Orgs : DeleteOrg(r, o)
        <5>1. pc[r] # "idle"
          BY <1>5, GoesOnMoves
        <5> QED
          BY <5>1 DEF DeleteOrg, Arrive
      <4>2. UNCHANGED orgs
        BY <1>5, <3>3 DEF GoesOn, CreateFormationCheckQuota,
           CreateFormationCheckUnique, CreateFormationInsert, CreateFormationStoreGenesis,
           DeleteFormationGenesis, CreateSinkCheckQuota, CreateSinkInsert, CreateIdpInsert,
           CreatePolicyRuleInsert, CreateSettingInsert, ToggleWrite, Drop, tables
      <4> QED
        BY <4>2
    <3> QED
      BY <3>1, <3>2, <3>3
  <2>4. ASSUME NEW k \in Keys, Present(formations', k), formations'[k] # formations[k],
               ~Present(orgs, k[1])
        PROVE  backend = "redb" /\ formations'[k].mesh_id \in overtaken
    <3>1. CreateFormationInsert(r)
      BY <1>5, <2>4 DEF GoesOn, CreateOrgInsert, UpdateOrgWrite, CreateFormationCheckQuota,
         CreateFormationCheckUnique, CreateFormationStoreGenesis,
         DeleteFormationGenesis, CreateSinkCheckQuota, CreateSinkInsert, CreateIdpInsert,
         CreatePolicyRuleInsert, CreateSettingInsert, ToggleWrite, Drop, tables
    <3>2. pc[r] = "create_formation" /\ mesh[r] = r /\ Key(r) \in Keys
      BY <1>0, <3>1 DEF CreateFormationInsert, Creating
    <3>3. /\ k = Key(r) /\ InsertOk(formations, k, Present(orgs, org[r]))
          /\ formations'[k] = [mesh_id |-> r]
      BY <1>0, <2>4, <3>1, <3>2 DEF CreateFormationInsert, Insert, Put
    <3>4. k[1] = org[r]
      BY <3>3 DEF Key
    <3>5. r \in overtaken
      BY <2>4, <3>2, <3>4 DEF OrphanInv, Past, Creating
    <3>6. backend = "redb"
      BY <2>4, <3>3, <3>4 DEF InsertOk, PgInsertOk
    <3> QED
      BY <3>3, <3>5, <3>6
  <2>5. ASSUME NEW k \in Keys, Present(genesis', k), genesis'[k] # genesis[k], ~Present(orgs, k[1])
        PROVE  backend = "redb" /\ genesis'[k].mesh_id \in overtaken
    <3>0. ~DeleteFormationGenesis(r)
      <4>1. CASE DeleteFormationGenesis(r)
        <5>1. genesis'[k] \in {genesis[k], NoRow}
          BY <1>0, <4>1 DEF DeleteFormationGenesis, GenesisDeleted, Remove, Put
        <5> QED
          BY <2>5, <5>1 DEF Present
      <4> QED
        BY <4>1
    <3>1. CreateFormationStoreGenesis(r)
      BY <1>5, <2>5, <3>0 DEF GoesOn, CreateOrgInsert, UpdateOrgWrite, CreateFormationCheckQuota,
         CreateFormationCheckUnique, CreateFormationInsert, CreateSinkCheckQuota, CreateSinkInsert,
         CreateIdpInsert, CreatePolicyRuleInsert, CreateSettingInsert, ToggleWrite, Drop, tables
    <3>2. pc[r] = "store_genesis" /\ mesh[r] = r /\ Key(r) \in Keys
      BY <1>0, <3>1 DEF CreateFormationStoreGenesis, Creating
    <3>3. k = Key(r) /\ UpsertOk(Present(orgs, org[r])) /\ genesis'[k] = [mesh_id |-> r]
      BY <1>0, <2>5, <3>1, <3>2 DEF CreateFormationStoreGenesis, GenesisStored, Put
    <3>4. k[1] = org[r]
      BY <3>3 DEF Key
    <3>5. r \in overtaken
      BY <2>5, <3>2, <3>4 DEF OrphanInv, Past, Creating
    <3> QED
      BY <2>5, <3>3, <3>4, <3>5 DEF UpsertOk
  <2>6. ASSUME NEW k \in SettingKeys, Present(settings', k), settings'[k] # settings[k],
               ~Present(orgs, k[1])
        PROVE  backend = "redb" /\ \E q \in overtaken : org[q] = k[1]
    <3>1. CASE ToggleWrite(r)
      <4>1. /\ k = <<org[r], item[r]>> /\ pc[r] = "update_setting"
            /\ backend = "redb" \/ Present(settings, k)
        BY <1>0, <2>6, <3>1 DEF ToggleWrite, Update, RedbUpdate, PgUpdate, Put
      <4>2. k[1] = org[r]
        BY <4>1
      <4>3. \E q \in overtaken : org[q] = k[1]
        BY <2>6, <4>1, <4>2 DEF OrphanInv
      <4>4. backend = "redb"
        BY <2>6, <4>1 DEF OrphanInv, NoOrphans
      <4> QED
        BY <4>3, <4>4
    <3>2. CASE \E step \in {"create_sink", "create_idp", "create_policy_rule"},
                  ids \in {SinkIds, IdpIds, RuleIds} : CreateSettingInsert(r, step, ids)
      <4>1. pc[r] \in Past
        BY <3>2 DEF CreateSettingInsert, Past
      <4>2. PICK i : settings' = Insert(settings, <<org[r], i>>, [enabled |-> TRUE], Present(orgs, org[r]))
        BY <3>2 DEF CreateSettingInsert
      <4>3. k = <<org[r], i>> /\ InsertOk(settings, k, Present(orgs, org[r]))
        BY <1>0, <2>6, <4>2 DEF Insert, Put
      <4>4. k[1] = org[r]
        BY <4>3
      <4>5. r \in overtaken
        BY <2>6, <4>1, <4>4 DEF OrphanInv
      <4>6. backend = "redb"
        BY <2>6, <4>3, <4>4 DEF InsertOk, PgInsertOk
      <4> QED
        BY <4>4, <4>5, <4>6
    <3>3. CASE ~ToggleWrite(r) /\ ~CreateSinkInsert(r) /\ ~CreateIdpInsert(r) /\ ~CreatePolicyRuleInsert(r)
      <4>1. UNCHANGED settings
        BY <1>5, <3>3 DEF GoesOn, CreateOrgInsert, UpdateOrgWrite, CreateFormationCheckQuota,
           CreateFormationCheckUnique, CreateFormationInsert, CreateFormationStoreGenesis,
           DeleteFormationGenesis, CreateSinkCheckQuota, Drop, tables
      <4> QED
        BY <2>6, <4>1
    <3> QED
      BY <3>1, <3>2, <3>3 DEF CreateSinkInsert, CreateIdpInsert, CreatePolicyRuleInsert
  <2>7. pc'[r] # "update_setting" /\ (pc'[r] \in Past => pc[r] \in Past)
    <3>1. CASE CreateFormationCheckQuota(r)
      BY <1>0, <3>1 DEF CreateFormationCheckQuota, Goto, Past, Creating
    <3>2. CASE CreateFormationCheckUnique(r)
      BY <1>0, <3>2 DEF CreateFormationCheckUnique, Goto, Past, Creating
    <3>3. CASE CreateFormationInsert(r)
      BY <1>0, <3>3 DEF CreateFormationInsert, Goto, Past, Creating
    <3>4. CASE CreateSinkCheckQuota(r)
      BY <1>0, <3>4 DEF CreateSinkCheckQuota, Goto, Past, Creating
    <3>5. CASE \/ CreateOrgInsert(r) \/ UpdateOrgWrite(r) \/ CreateFormationStoreGenesis(r)
               \/ DeleteFormationGenesis(r) \/ CreateSinkInsert(r) \/ CreateIdpInsert(r)
               \/ CreatePolicyRuleInsert(r) \/ ToggleWrite(r) \/ Drop(r)
      <4>1. pc'[r] = "done"
        BY <1>0, <3>5 DEF CreateOrgInsert, UpdateOrgWrite, CreateFormationStoreGenesis,
           DeleteFormationGenesis, CreateSinkInsert, CreateIdpInsert, CreatePolicyRuleInsert,
           CreateSettingInsert, ToggleWrite, Drop, Goto
      <4> QED
        BY <4>1 DEF Past, Creating
    <3> QED
      BY <1>5, <3>1, <3>2, <3>3, <3>4, <3>5 DEF GoesOn
  <2>8. pc'[r] \in Past => r \in overtaken \/ Present(orgs', org'[r])
    BY <2>1, <2>2, <2>3, <2>7 DEF OrphanInv
  <2> QED
    BY <1>2, <2>1, <2>2, <2>3, <2>4, <2>5, <2>6, <2>7, <2>8
<1> QED
  BY <1>1, <1>3, <1>4, <1>5, StepOfOne

\* Nothing outlives its organization over Postgres; over redb only what a
\* request wrote that delete_org had overtaken, for any number of requests.
THEOREM NeverOrphans == Spec => []NoOrphans
<1>1. OrphanInv => NoOrphans
  BY DEF OrphanInv
<1> QED
  BY <1>1, TypeInit, TypeStep, OrphanInit, OrphanStep, PTL DEF Spec

-----------------------------------------------------------------------------
(* Whose a mesh id is.                                                      *)

\* The identity under which material for a formation may be found: its own
\* name (made before this gateway) or a create of that name which has begun.
Owner(k, m) == m = k \/ (m \in Requests /\ pc[m] # "idle" /\ Key(m) = k)

OwnedInv ==
    \A m \in MeshIds :
        /\ \A k \in Keys : /\ Present(formations, k) /\ formations[k].mesh_id = m => Owner(k, m)
                           /\ Present(genesis, k) /\ genesis[k].mesh_id = m => Owner(k, m)
        /\ \A r \in Requests : pc[r] = "delete_genesis" /\ mesh[r] = m => Owner(Key(r), m)

\* A mesh id belongs to one name.
LEMMA OneOwner ==
    ASSUME NEW k \in Keys, NEW h \in Keys, NEW m, Owner(k, m), Owner(h, m)
    PROVE  k = h
BY DEF Owner

\* A name that owns a mesh id keeps it.
LEMMA OwnerStays ==
    ASSUME NEW r \in Requests, Moves(r), NEW k, NEW m, Owner(k, m)
    PROVE  Owner(k, m)'
<1>1. CASE m = k
  BY <1>1 DEF Owner
<1>2. CASE m \in Requests /\ pc[m] # "idle" /\ Key(m) = k
  <2>1. org'[m] = org[m] /\ app'[m] = app[m] /\ pc'[m] # "idle"
    BY <1>2 DEF Moves
  <2>2. Key(m)' = Key(m)
    BY <2>1 DEF Key
  <2> QED
    BY <1>2, <2>1, <2>2 DEF Owner
<1> QED
  BY <1>1, <1>2 DEF Owner

\* The formations of an earlier gateway carry their own name.
LEMMA OwnedInit == Init => OwnedInv
<1> SUFFICES ASSUME Init PROVE OwnedInv
  OBVIOUS
<1>1. PICK old \in SUBSET Keys, held \in SUBSET Keys :
          /\ \A k \in old \cup held : Present(orgs, k[1])
          /\ formations = [k \in Keys |-> IF k \in old THEN [mesh_id |-> k] ELSE NoRow]
          /\ genesis = [k \in Keys |-> IF k \in held THEN [mesh_id |-> k] ELSE NoRow]
          /\ cutShort = old \ held /\ spared = held \ old
  BY InitRows, Zenon
<1>2. \A k \in Keys : /\ Present(formations, k) => formations[k].mesh_id = k
                      /\ Present(genesis, k) => genesis[k].mesh_id = k
  <2>1. \A k \in Keys : /\ formations[k] = IF k \in old THEN [mesh_id |-> k] ELSE NoRow
                        /\ genesis[k] = IF k \in held THEN [mesh_id |-> k] ELSE NoRow
    BY <1>1
  <2>2. \A k \in Keys : [mesh_id |-> k].mesh_id = k
    OBVIOUS
  <2> QED
    BY <2>1, <2>2 DEF Present
<1>3. \A r \in Requests : pc[r] = "idle"
  BY DEF Init
<1> QED
  BY <1>2, <1>3 DEF OwnedInv, Owner

\* Rows are written under the path of the create that made them.
LEMMA OwnedStep == TInv /\ OwnedInv /\ [Next]_vars => OwnedInv'
<1> SUFFICES ASSUME TInv, OwnedInv, [Next]_vars PROVE OwnedInv'
  OBVIOUS
<1>0. /\ formations \in [Keys -> FormationConfig \cup {NoRow}]
      /\ genesis \in [Keys -> GenesisRecord \cup {NoRow}]
      /\ pc \in [Requests -> Steps] /\ app \in [Requests -> Apps \cup {None}]
      /\ mesh \in [Requests -> MeshIds \cup {None}]
      /\ \A r \in Requests : pc[r] \in Creating => mesh[r] = r /\ Key(r) \in Keys
      /\ \A r \in Requests : pc[r] = "delete_genesis" => Key(r) \in Keys
      /\ \A o \in Orgs, a \in Apps : <<o, a>> \in Keys
  BY DEF TInv, TypeOK, Located, Creating, Key, Keys
<1>1. CASE UNCHANGED vars
  BY <1>1 DEF vars, tables, local, OwnedInv, Owner, Key, Present
\* A step need only say what is new.
<1>2. ASSUME NEW r \in Requests, Moves(r), NEW k, NEW m \in MeshIds, Owner(k, m)',
             \A x \in Keys \ {k} : /\ formations'[x] \in {formations[x], NoRow}
                                   /\ genesis'[x] \in {genesis[x], NoRow},
             k \in Keys => /\ formations'[k] \in {formations[k], NoRow} \/ formations'[k].mesh_id = m
                           /\ genesis'[k] \in {genesis[k], NoRow} \/ genesis'[k].mesh_id = m,
             pc'[r] = "delete_genesis" => Key(r)' = k /\ mesh'[r] = m
      PROVE  OwnedInv'
  <2>1. ASSUME NEW n \in MeshIds, NEW x \in Keys, Present(formations', x), formations'[x].mesh_id = n
        PROVE  Owner(x, n)'
    <3>1. CASE formations'[x] = formations[x]
      <4>1. Owner(x, n)
        BY <2>1, <3>1 DEF OwnedInv, Present
      <4> QED
        BY <1>2, <4>1, OwnerStays
    <3>2. CASE formations'[x] # formations[x]
      <4>1. x = k /\ n = m
        BY <1>2, <2>1, <3>2 DEF Present
      <4> QED
        BY <1>2, <4>1
    <3> QED
      BY <3>1, <3>2
  <2>2. ASSUME NEW n \in MeshIds, NEW x \in Keys, Present(genesis', x), genesis'[x].mesh_id = n
        PROVE  Owner(x, n)'
    <3>1. CASE genesis'[x] = genesis[x]
      <4>1. Owner(x, n)
        BY <2>2, <3>1 DEF OwnedInv, Present
      <4> QED
        BY <1>2, <4>1, OwnerStays
    <3>2. CASE genesis'[x] # genesis[x]
      <4>1. x = k /\ n = m
        BY <1>2, <2>2, <3>2 DEF Present
      <4> QED
        BY <1>2, <4>1
    <3> QED
      BY <3>1, <3>2
  <2>3. ASSUME NEW n \in MeshIds, NEW q \in Requests, pc'[q] = "delete_genesis", mesh'[q] = n
        PROVE  Owner(Key(q), n)'
    <3>1. CASE q = r
      BY <1>2, <2>3, <3>1 DEF Owner
    <3>2. CASE q # r
      <4>1. pc[q] = "delete_genesis" /\ mesh[q] = n /\ Key(q)' = Key(q)
        BY <1>2, <2>3, <3>2 DEF Moves, Key
      <4>2. Owner(Key(q), n)
        BY <4>1 DEF OwnedInv
      <4>3. PICK h : h = Key(q)
        OBVIOUS
      <4>4. Owner(h, n)'
        BY <1>2, <4>2, <4>3, OwnerStays
      <4> QED
        BY <4>1, <4>3, <4>4 DEF Owner
    <3> QED
      BY <3>1, <3>2
  <2> QED
    BY <2>1, <2>2, <2>3 DEF OwnedInv, Present
\* Most steps put nothing new anywhere.
<1>3. ASSUME NEW r \in Requests, Moves(r), pc'[r] # "delete_genesis",
             \A x \in Keys : /\ formations'[x] \in {formations[x], NoRow}
                             /\ genesis'[x] \in {genesis[x], NoRow}
      PROVE  OwnedInv'
  <2>1. PICK k : k = Key(r)'
    OBVIOUS
  <2>2. r \in MeshIds /\ Owner(k, r)'
    BY <1>3, <2>1 DEF MeshIds, Owner, Moves
  <2> QED
    BY <1>2, <1>3, <2>2
<1>4. ASSUME NEW r \in Requests, NEW o \in Orgs, Begins(r, o)
      PROVE  OwnedInv'
  <2>0. Moves(r)
    BY <1>4, BeginsMoves
  <2>1. ASSUME NEW a \in Apps, DeleteFormationRow(r, o, a)
        PROVE  OwnedInv'
    <3> DEFINE k == <<o, a>>
    <3>1. /\ k \in Keys /\ Key(r)' = k
          /\ \A x \in Keys : formations'[x] \in {formations[x], NoRow} /\ genesis'[x] = genesis[x]
      BY <1>0, <2>1 DEF DeleteFormationRow, Remove, Put, Key, Arrive, TInv, TypeOK
    <3>2. CASE Present(formations, k)
      <4>1. PICK m \in MeshIds : m = formations[k].mesh_id
        BY <1>0, <3>1, <3>2 DEF Present, FormationConfig
      <4>2. mesh'[r] = m /\ Owner(k, m)
        BY <1>0, <2>1, <3>1, <3>2, <4>1 DEF DeleteFormationRow, OwnedInv
      <4> HIDE DEF k
      <4>3. Owner(k, m)'
        BY <2>0, <4>2, OwnerStays
      <4> QED
        BY <1>2, <2>0, <3>1, <4>2, <4>3
    <3>3. CASE ~Present(formations, k)
      <4>1. pc'[r] = "done"
        BY <1>0, <2>1, <3>3 DEF DeleteFormationRow, Goto
      <4> QED
        BY <1>3, <2>0, <3>1, <4>1
    <3> QED
      BY <3>2, <3>3
  <2>2. CASE DeleteOrg(r, o)
    <3>1. \A x \in Keys : /\ formations'[x] \in {formations[x], NoRow}
                          /\ genesis'[x] \in {genesis[x], NoRow}
      BY <1>0, <2>2 DEF DeleteOrg, CascadeGenesis, Cascade
    <3>2. pc'[r] = "done"
      BY <1>0, <2>2 DEF DeleteOrg, Goto
    <3> QED
      BY <1>3, <2>0, <3>1, <3>2
  <2>3. CASE ~DeleteOrg(r, o) /\ \A a \in Apps : ~DeleteFormationRow(r, o, a)
    <3>1. UNCHANGED <<formations, genesis>>
      BY <1>4, <2>3 DEF Begins, CreateOrgGet, UpdateOrgGet, CreateFormationGetOrg, CreateSettingGetOrg,
                        ToggleGet, DeleteSetting, tables
    <3>2. pc'[r] # "delete_genesis"
      BY <1>0, <1>4, <2>3 DEF Begins, CreateOrgGet, UpdateOrgGet, CreateFormationGetOrg,
                              CreateSettingGetOrg, ToggleGet, DeleteSetting, Goto
    <3> QED
      BY <1>3, <2>0, <3>1, <3>2
  <2> QED
    BY <2>1, <2>2, <2>3
<1>5. ASSUME NEW r \in Requests, GoesOn(r)
      PROVE  OwnedInv'
  <2>0. Moves(r) /\ pc[r] # "idle" /\ Key(r)' = Key(r)
    BY <1>5, GoesOnMoves DEF local, Key
  <2>1. pc'[r] # "delete_genesis"
    BY <1>0, <1>5 DEF GoesOn, CreateOrgInsert, UpdateOrgWrite, CreateFormationCheckQuota,
         CreateFormationCheckUnique, CreateFormationInsert, CreateFormationStoreGenesis,
         DeleteFormationGenesis, CreateSinkCheckQuota, CreateSinkInsert, CreateIdpInsert,
         CreatePolicyRuleInsert, CreateSettingInsert, ToggleWrite, Drop, Goto
  <2>2. CASE CreateFormationInsert(r) \/ CreateFormationStoreGenesis(r)
    <3>0. pc[r] \in Creating
      BY <2>2 DEF CreateFormationInsert, CreateFormationStoreGenesis, Creating
    <3>1. PICK k \in Keys : k = Key(r)
      BY <1>0, <3>0
    <3>2. mesh[r] = r /\ r \in MeshIds /\ Owner(k, r)
      BY <1>0, <2>0, <3>0, <3>1 DEF Owner, MeshIds
    <3>3. Owner(k, r)'
      BY <2>0, <3>2, OwnerStays
    <3>4. /\ \A x \in Keys \ {k} : formations'[x] = formations[x]
          /\ formations'[k] = formations[k] \/ formations'[k] = [mesh_id |-> r]
      BY <1>0, <2>2, <3>1, <3>2 DEF CreateFormationInsert, CreateFormationStoreGenesis, Insert, Put
    <3>5. /\ \A x \in Keys \ {k} : genesis'[x] = genesis[x]
          /\ genesis'[k] = genesis[k] \/ genesis'[k] = [mesh_id |-> r]
      BY <1>0, <2>2, <3>1, <3>2 DEF CreateFormationInsert, CreateFormationStoreGenesis, GenesisStored, Put
    <3>6. [mesh_id |-> r].mesh_id = r
      OBVIOUS
    <3> QED
      BY <1>2, <2>0, <2>1, <3>2, <3>3, <3>4, <3>5, <3>6
  <2>3. CASE DeleteFormationGenesis(r)
    <3>1. \A x \in Keys : formations'[x] = formations[x] /\ genesis'[x] \in {genesis[x], NoRow}
      BY <1>0, <2>3 DEF DeleteFormationGenesis, GenesisDeleted, Remove, Put
    <3> QED
      BY <1>3, <2>0, <2>1, <3>1
  <2>4. CASE ~CreateFormationInsert(r) /\ ~CreateFormationStoreGenesis(r) /\ ~DeleteFormationGenesis(r)
    <3>1. UNCHANGED <<formations, genesis>>
      BY <1>5, <2>4 DEF GoesOn, CreateOrgInsert, UpdateOrgWrite, CreateFormationCheckQuota,
           CreateFormationCheckUnique, CreateSinkCheckQuota, CreateSinkInsert, CreateIdpInsert,
           CreatePolicyRuleInsert, CreateSettingInsert, ToggleWrite, Drop, tables
    <3> QED
      BY <1>3, <2>0, <2>1, <3>1
  <2> QED
    BY <2>2, <2>3, <2>4
<1> QED
  BY <1>1, <1>4, <1>5, StepOfOne

-----------------------------------------------------------------------------
(* Formations and their keypairs, over either backend.                      *)

\* The formation, and the genesis, stored under name k is the one of mesh id m.
OwnRow(k, m) == Present(formations, k) /\ formations[k].mesh_id = m
OwnGenesis(k, m) == Present(genesis, k) /\ genesis[k].mesh_id = m

\* A create between its two writes owns the row unless it was crossed; a row
\* that a delete between its two writes will deprive of its genesis was crossed.
PairInv ==
    /\ KeypairHasFormation
    /\ FormationHasKeypair
    /\ \A r \in Requests : pc[r] = "store_genesis" => r \in crossed \/ OwnRow(Key(r), r)
    /\ \A r \in Requests : pc[r] = "delete_genesis" /\ Present(formations, Key(r))
                              => formations[Key(r)].mesh_id \in crossed

\* A mesh id is being forgotten if its delete_formation has one call to go.
LEMMA Forgotten ==
    \A m : m \in BeingForgotten
           <=> \E q \in Requests : pc[q] = "delete_genesis" /\ mesh[q] = m
BY DEF BeingForgotten

\* What an earlier gateway left unpaired is on record.
LEMMA PairInit == Init => PairInv
<1> SUFFICES ASSUME Init PROVE PairInv
  OBVIOUS
<1>1. PICK old \in SUBSET Keys, held \in SUBSET Keys :
          /\ \A k \in old \cup held : Present(orgs, k[1])
          /\ formations = [k \in Keys |-> IF k \in old THEN [mesh_id |-> k] ELSE NoRow]
          /\ genesis = [k \in Keys |-> IF k \in held THEN [mesh_id |-> k] ELSE NoRow]
          /\ cutShort = old \ held /\ spared = held \ old
  BY InitRows, Zenon
<1>2. \A k \in Keys : [mesh_id |-> k].mesh_id = k /\ [mesh_id |-> k] # NoRow
  BY DEF FormationConfig, MeshIds
<1>3. \A k \in Keys : /\ Present(formations, k) <=> k \in old
                      /\ Present(genesis, k) <=> k \in held
                      /\ k \in old => formations[k].mesh_id = k
                      /\ k \in held => genesis[k].mesh_id = k
  <2>1. \A k \in Keys : /\ formations[k] = IF k \in old THEN [mesh_id |-> k] ELSE NoRow
                        /\ genesis[k] = IF k \in held THEN [mesh_id |-> k] ELSE NoRow
    BY <1>1
  <2> QED
    BY <1>2, <2>1 DEF Present
<1>4. \A r \in Requests : pc[r] = "idle"
  BY DEF Init
<1>5. KeypairHasFormation
  BY <1>1, <1>3 DEF KeypairHasFormation
<1>6. FormationHasKeypair
  BY <1>1, <1>3 DEF FormationHasKeypair
<1> QED
  BY <1>4, <1>5, <1>6 DEF PairInv

Between == {"store_genesis", "delete_genesis"}

\* A step of r touches no rows but those of the names K; what is on record stays.
Touches(r, K) ==
    /\ cutShort \subseteq cutShort' /\ spared \subseteq spared' /\ crossed \subseteq crossed'
    /\ \A x \in Keys \ K : formations'[x] = formations[x] /\ genesis'[x] = genesis[x]
    /\ pc[r] \in Between => Key(r) \in K
    /\ pc'[r] \in Between => Key(r)' \in K

\* The four parts of the invariant after a step, at the names K.
PairedAt(K) ==
    /\ \A k \in K : Present(genesis', k) =>
          \/ OwnRow(k, genesis[k].mesh_id)'
          \/ \E q \in Requests : pc'[q] = "delete_genesis" /\ mesh'[q] = genesis'[k].mesh_id
          \/ genesis'[k].mesh_id \in spared' \cup crossed'
    /\ \A k \in K : Present(formations', k) =>
          \/ OwnGenesis(k, formations[k].mesh_id)'
          \/ Present(genesis', k) /\ genesis'[k].mesh_id \in crossed'
          \/ formations'[k].mesh_id \in cutShort' \cup crossed'
          \/ formations'[k].mesh_id \in Requests /\ pc'[formations'[k].mesh_id] = "store_genesis"
    /\ \A q \in Requests : pc'[q] = "store_genesis" /\ Key(q)' \in K
                              => q \in crossed' \/ OwnRow(Key(q), q)'
    /\ \A q \in Requests :
          pc'[q] = "delete_genesis" /\ Key(q)' \in K /\ Present(formations', Key(q)')
          => formations'[Key(q)'].mesh_id \in crossed'

\* Every step keeps it.
LEMMA PairStep == TInv /\ OwnedInv /\ OrphanInv /\ PairInv /\ [Next]_vars => PairInv'
<1> SUFFICES ASSUME TInv, OwnedInv, OrphanInv, PairInv, [Next]_vars PROVE PairInv'
  OBVIOUS
<1>0. /\ formations \in [Keys -> FormationConfig \cup {NoRow}]
      /\ genesis \in [Keys -> GenesisRecord \cup {NoRow}]
      /\ pc \in [Requests -> Steps] /\ mesh \in [Requests -> MeshIds \cup {None}]
      /\ org \in [Requests -> Orgs \cup {None}] /\ app \in [Requests -> Apps \cup {None}]
      /\ \A r \in Requests : pc[r] \in Creating => Key(r) \in Keys /\ mesh[r] = r
      /\ \A r \in Requests : pc[r] = "store_genesis" => Key(r) \in Keys /\ mesh[r] = r
      /\ \A r \in Requests : pc[r] = "delete_genesis" => Key(r) \in Keys
      /\ \A o \in Orgs, a \in Apps : <<o, a>> \in Keys
  BY DEF TInv, TypeOK, Located, Creating, Key, Keys
<1>k. ASSUME NEW k \in Keys, Present(genesis, k)
      PROVE  \/ OwnRow(k, genesis[k].mesh_id)
             \/ \E q \in Requests : pc[q] = "delete_genesis" /\ mesh[q] = genesis[k].mesh_id
             \/ genesis[k].mesh_id \in spared \cup crossed
  BY <1>k, Forgotten DEF PairInv, KeypairHasFormation, OwnRow
<1>f. ASSUME NEW k \in Keys, Present(formations, k)
      PROVE  \/ OwnGenesis(k, formations[k].mesh_id)
             \/ Present(genesis, k) /\ genesis[k].mesh_id \in crossed
             \/ formations[k].mesh_id \in cutShort \cup crossed
             \/ formations[k].mesh_id \in Requests /\ pc[formations[k].mesh_id] = "store_genesis"
  BY <1>f DEF PairInv, FormationHasKeypair, OwnGenesis
\* The four parts of the invariant after a step of r.
<1>q. ASSUME NEW r \in Requests, Moves(r),
             \A k \in Keys : Present(genesis', k) =>
                \/ OwnRow(k, genesis[k].mesh_id)'
                \/ \E q \in Requests : pc'[q] = "delete_genesis" /\ mesh'[q] = genesis'[k].mesh_id
                \/ genesis'[k].mesh_id \in spared' \cup crossed',
             \A k \in Keys : Present(formations', k) =>
                \/ OwnGenesis(k, formations[k].mesh_id)'
                \/ Present(genesis', k) /\ genesis'[k].mesh_id \in crossed'
                \/ formations'[k].mesh_id \in cutShort' \cup crossed'
                \/ /\ formations'[k].mesh_id \in Requests
                   /\ pc'[formations'[k].mesh_id] = "store_genesis",
             \A q \in Requests : pc'[q] = "store_genesis" => q \in crossed' \/ OwnRow(Key(q), q)',
             \A q \in Requests : pc'[q] = "delete_genesis" /\ Present(formations', Key(q)')
                                   => formations'[Key(q)'].mesh_id \in crossed'
      PROVE  PairInv'
  <2>1. \A m : m \in BeingForgotten'
               <=> \E q \in Requests : pc'[q] = "delete_genesis" /\ mesh'[q] = m
    BY DEF BeingForgotten
  <2>2. KeypairHasFormation'
    BY <1>q, <2>1 DEF KeypairHasFormation, OwnRow, Present
  <2>3. FormationHasKeypair'
    BY <1>q DEF FormationHasKeypair, OwnGenesis, Present
  <2> QED
    BY <1>q, <2>2, <2>3 DEF PairInv, Present
<1>o. ASSUME NEW r \in Requests, Moves(r)
      PROVE  \A x \in Requests \ {r} : pc'[x] = pc[x] /\ mesh'[x] = mesh[x] /\ Key(x)' = Key(x)
  BY <1>o DEF Moves, Key
\* It is enough to look at the names K that the step touches.
<1>n. ASSUME NEW r \in Requests, Moves(r), NEW K \in SUBSET Keys, Touches(r, K), PairedAt(K)
      PROVE  PairInv'
  <2>1. \A q \in Requests : \/ pc'[q] \in Between /\ Key(q)' \notin K
                            \/ pc[q] \in Between /\ Key(q) \notin K
          => q # r /\ pc'[q] = pc[q] /\ mesh'[q] = mesh[q] /\ Key(q)' = Key(q)
    BY <1>n, <1>o DEF Touches, Between
  <2>2. ASSUME NEW x \in Keys, Present(genesis', x)
        PROVE  \/ OwnRow(x, genesis[x].mesh_id)'
               \/ \E q \in Requests : pc'[q] = "delete_genesis" /\ mesh'[q] = genesis'[x].mesh_id
               \/ genesis'[x].mesh_id \in spared' \cup crossed'
    <3>1. CASE x \in K
      BY <1>n, <2>2, <3>1 DEF PairedAt
    <3>2. CASE x \notin K
      <4>1. PICK m \in MeshIds : m = genesis[x].mesh_id /\ m = genesis'[x].mesh_id /\ Present(genesis, x)
        BY <1>0, <1>n, <2>2, <3>2 DEF Touches, Present, GenesisRecord
      <4>2. Owner(x, m)
        BY <4>1 DEF OwnedInv
      <4>3. CASE OwnRow(x, m)
        BY <1>n, <3>2, <4>1, <4>3 DEF Touches, OwnRow, Present
      <4>4. ASSUME NEW q \in Requests, pc[q] = "delete_genesis", mesh[q] = m
            PROVE  pc'[q] = "delete_genesis" /\ mesh'[q] = m
        <5>1. Owner(Key(q), m) /\ Key(q) \in Keys
          BY <1>0, <4>4 DEF OwnedInv
        <5>2. Key(q) = x
          BY <4>2, <5>1, OneOwner
        <5> QED
          BY <2>1, <3>2, <4>4, <5>2 DEF Between
      <4>5. OwnRow(x, m) \/ (\E q \in Requests : pc[q] = "delete_genesis" /\ mesh[q] = m)
              \/ m \in spared \cup crossed
        BY <1>k, <4>1
      <4> QED
        BY <1>n, <4>1, <4>3, <4>4, <4>5 DEF Touches
    <3> QED
      BY <3>1, <3>2
  <2>3. ASSUME NEW x \in Keys, Present(formations', x)
        PROVE  \/ OwnGenesis(x, formations[x].mesh_id)'
               \/ Present(genesis', x) /\ genesis'[x].mesh_id \in crossed'
               \/ formations'[x].mesh_id \in cutShort' \cup crossed'
               \/ /\ formations'[x].mesh_id \in Requests
                  /\ pc'[formations'[x].mesh_id] = "store_genesis"
    <3>1. CASE x \in K
      BY <1>n, <2>3, <3>1 DEF PairedAt
    <3>2. CASE x \notin K
      <4>1. PICK m \in MeshIds : /\ m = formations[x].mesh_id /\ m = formations'[x].mesh_id
                                 /\ Present(formations, x)
        BY <1>0, <1>n, <2>3, <3>2 DEF Touches, Present, FormationConfig
      <4>2. Owner(x, m)
        BY <4>1 DEF OwnedInv
      <4>3. genesis'[x] = genesis[x] /\ (Present(genesis', x) <=> Present(genesis, x))
        BY <1>n, <3>2 DEF Touches, Present
      <4>4. CASE OwnGenesis(x, m) \/ (Present(genesis, x) /\ genesis[x].mesh_id \in crossed)
        BY <1>n, <4>1, <4>3, <4>4 DEF Touches, OwnGenesis
      <4>5. CASE m \in Requests /\ pc[m] = "store_genesis"
        <5>1. Key(m) = x
          BY <4>2, <4>5 DEF Owner
        <5>2. pc'[m] = "store_genesis"
          BY <2>1, <3>2, <4>5, <5>1 DEF Between
        <5> QED
          BY <4>1, <4>5, <5>2
      <4>6. \/ OwnGenesis(x, m) \/ (Present(genesis, x) /\ genesis[x].mesh_id \in crossed)
            \/ m \in cutShort \cup crossed
            \/ m \in Requests /\ pc[m] = "store_genesis"
        BY <1>f, <4>1
      <4> QED
        BY <1>n, <4>1, <4>4, <4>5, <4>6 DEF Touches
    <3> QED
      BY <3>1, <3>2
  <2>4. ASSUME NEW q \in Requests, pc'[q] = "store_genesis"
        PROVE  q \in crossed' \/ OwnRow(Key(q), q)'
    <3>1. CASE Key(q)' \in K
      BY <1>n, <2>4, <3>1 DEF PairedAt
    <3>2. CASE Key(q)' \notin K
      <4>1. pc[q] = "store_genesis" /\ Key(q)' = Key(q) /\ Key(q) \in Keys
        BY <1>0, <2>1, <2>4, <3>2 DEF Between
      <4>2. q \in crossed \/ OwnRow(Key(q), q)
        BY <4>1 DEF PairInv
      <4>3. formations'[Key(q)] = formations[Key(q)]
        BY <1>n, <3>2, <4>1 DEF Touches
      <4> QED
        BY <1>n, <4>1, <4>2, <4>3 DEF Touches, OwnRow, Present
    <3> QED
      BY <3>1, <3>2
  <2>5. ASSUME NEW q \in Requests, pc'[q] = "delete_genesis", Present(formations', Key(q)')
        PROVE  formations'[Key(q)'].mesh_id \in crossed'
    <3>1. CASE Key(q)' \in K
      BY <1>n, <2>5, <3>1 DEF PairedAt
    <3>2. CASE Key(q)' \notin K
      <4>1. pc[q] = "delete_genesis" /\ Key(q)' = Key(q) /\ Key(q) \in Keys
        BY <1>0, <2>1, <2>5, <3>2 DEF Between
      <4>2. formations'[Key(q)] = formations[Key(q)]
        BY <1>n, <3>2, <4>1 DEF Touches
      <4> QED
        BY <1>n, <2>5, <4>1, <4>2 DEF Touches, PairInv, Present
    <3> QED
      BY <3>1, <3>2
  <2> QED
    BY <1>n, <1>q, <2>2, <2>3, <2>4, <2>5
\* Most steps touch none.
<1>1. ASSUME NEW r \in Requests, Moves(r), UNCHANGED <<cutShort, spared>>, crossed \subseteq crossed',
             \A k \in Keys : formations'[k] = formations[k] /\ genesis'[k] = genesis[k],
             pc[r] \notin Between, pc'[r] \notin Between
      PROVE  PairInv'
  <2>1. PICK K \in SUBSET Keys : K = {}
    OBVIOUS
  <2>2. Touches(r, K)
    BY <1>1, <2>1 DEF Touches
  <2>3. PairedAt(K)
    BY <2>1 DEF PairedAt
  <2> QED
    BY <1>1, <1>n, <2>2, <2>3
<1>2. CASE UNCHANGED vars
  BY <1>2 DEF vars, tables, local, history, pairing, PairInv, KeypairHasFormation, FormationHasKeypair,
              BeingForgotten, OwnRow, Key, Present
<1>3. ASSUME NEW r \in Requests, CreateFormationInsert(r)
      PROVE  PairInv'
  <2>0. Moves(r)
    BY <1>3, GoesOnMoves DEF GoesOn
  <2>1. /\ pc[r] = "create_formation" /\ mesh[r] = r /\ UNCHANGED <<genesis, local, cutShort, spared>>
        /\ pc' = [pc EXCEPT ![r] = IF InsertOk(formations, Key(r), Present(orgs, org[r]))
                                   THEN "store_genesis" ELSE "done"]
    BY <1>0, <1>3 DEF CreateFormationInsert, Goto, Creating
  <2>2. PICK k \in Keys : k = Key(r) /\ k = Key(r)'
    BY <1>0, <2>1 DEF Creating, local, Key
  <2>3. CASE InsertOk(formations, k, Present(orgs, org[r]))
    <3>1. /\ formations'[k] = [mesh_id |-> r] /\ [mesh_id |-> r].mesh_id = r
          /\ [mesh_id |-> r] # NoRow
          /\ \A x \in Keys \ {k} : formations'[x] = formations[x]
      BY <1>0, <1>3, <2>1, <2>2, <2>3 DEF CreateFormationInsert, Insert, Put, FormationConfig, MeshIds
    <3>2. /\ crossed \subseteq crossed'
          /\ Present(formations, k) => formations[k].mesh_id \in crossed'
          /\ Forgetting(k) # {} => r \in crossed'
      BY <1>3, <2>1, <2>2, <2>3 DEF CreateFormationInsert
    <3>3. pc'[r] = "store_genesis"
      BY <1>0, <2>1, <2>2, <2>3
    <3>4. OwnRow(k, r)'
      BY <3>1 DEF OwnRow, Present
    <3>5. ASSUME Present(genesis', k)
          PROVE  \/ \E q \in Requests : pc'[q] = "delete_genesis" /\ mesh'[q] = genesis'[k].mesh_id
                 \/ genesis'[k].mesh_id \in spared' \cup crossed'
      <4>1. Present(genesis, k) /\ genesis'[k] = genesis[k]
        BY <2>1, <3>5 DEF Present
      <4>2. CASE OwnRow(k, genesis[k].mesh_id)
        BY <3>2, <4>1, <4>2 DEF OwnRow
      <4>3. ASSUME NEW q \in Requests, pc[q] = "delete_genesis"
            PROVE  pc'[q] = "delete_genesis" /\ mesh'[q] = mesh[q]
        BY <1>o, <2>0, <2>1, <4>3
      <4> QED
        BY <1>k, <2>1, <3>2, <4>1, <4>2, <4>3
    <3>6. ASSUME NEW q \in Requests, pc'[q] = "store_genesis", Key(q)' = k
          PROVE  q \in crossed' \/ OwnRow(Key(q), q)'
      <4>1. CASE q = r
        BY <2>2, <3>4, <4>1 DEF OwnRow
      <4>2. CASE q # r
        <5>1. pc[q] = "store_genesis" /\ Key(q) = k
          BY <1>o, <2>0, <3>6, <4>2
        <5>2. q \in crossed \/ OwnRow(k, q)
          BY <5>1 DEF PairInv
        <5> QED
          BY <3>2, <5>2 DEF OwnRow
      <4> QED
        BY <4>1, <4>2
    <3>7. ASSUME NEW q \in Requests, pc'[q] = "delete_genesis", Key(q)' = k
          PROVE  formations'[k].mesh_id \in crossed'
      <4>1. pc[q] = "delete_genesis" /\ Key(q) = k
        BY <1>o, <2>0, <3>3, <3>7
      <4> QED
        BY <3>1, <3>2, <4>1 DEF Forgetting
    <3>8. PICK K \in SUBSET Keys : K = {k}
      OBVIOUS
    <3>9. Touches(r, K)
      BY <2>1, <2>2, <3>1, <3>2, <3>8 DEF Touches
    <3>10. PairedAt(K)
      BY <3>1, <3>3, <3>5, <3>6, <3>7, <3>8 DEF PairedAt
    <3> QED
      BY <1>n, <2>0, <3>9, <3>10
  <2>4. CASE ~InsertOk(formations, k, Present(orgs, org[r]))
    <3>1. /\ UNCHANGED <<formations, crossed>> /\ pc'[r] = "done"
      BY <1>0, <1>3, <2>1, <2>2, <2>4 DEF CreateFormationInsert, Insert
    <3> QED
      BY <1>1, <2>0, <2>1, <3>1 DEF Between
  <2> QED
    BY <2>3, <2>4
<1>4. ASSUME NEW r \in Requests, CreateFormationStoreGenesis(r)
      PROVE  PairInv'
  <2>0. Moves(r)
    BY <1>4, GoesOnMoves DEF GoesOn
  <2>1. /\ pc[r] = "store_genesis" /\ mesh[r] = r /\ pc'[r] = "done"
        /\ UNCHANGED <<formations, local, cutShort, spared, crossed>>
    BY <1>0, <1>4 DEF CreateFormationStoreGenesis, Goto, history, pairing
  <2>2. PICK k \in Keys : k = Key(r)
    BY <1>0, <2>1
  <2>3. /\ \A x \in Keys \ {k} : genesis'[x] = genesis[x]
        /\ genesis'[k] = IF UpsertOk(Present(orgs, org[r])) THEN [mesh_id |-> r] ELSE genesis[k]
        /\ [mesh_id |-> r].mesh_id = r /\ [mesh_id |-> r] # NoRow
    BY <1>0, <1>4, <2>1, <2>2 DEF CreateFormationStoreGenesis, GenesisStored, Put, FormationConfig, MeshIds
  <2>4. r \in crossed \/ OwnRow(k, r)
    BY <2>1, <2>2 DEF PairInv
  <2>5. \A x \in Requests : pc'[x] \in Between \/ (pc[x] \in Between /\ x # r)
          => x # r /\ pc'[x] = pc[x] /\ mesh'[x] = mesh[x] /\ Key(x)' = Key(x)
    BY <1>o, <2>0, <2>1 DEF Between
  <2>6. ASSUME Present(genesis', k)
        PROVE  \/ OwnRow(k, genesis[k].mesh_id)'
               \/ \E q \in Requests : pc'[q] = "delete_genesis" /\ mesh'[q] = genesis'[k].mesh_id
               \/ genesis'[k].mesh_id \in spared' \cup crossed'
    <3>1. CASE UpsertOk(Present(orgs, org[r]))
      BY <2>1, <2>3, <2>4, <3>1 DEF OwnRow, Present
    <3>2. CASE ~UpsertOk(Present(orgs, org[r]))
      <4>1. Present(genesis, k) /\ genesis'[k] = genesis[k]
        BY <2>3, <2>6, <3>2 DEF Present
      <4>2. \A q \in Requests : pc[q] = "delete_genesis" => pc'[q] = "delete_genesis" /\ mesh'[q] = mesh[q]
        BY <2>1, <2>5 DEF Between
      <4> QED
        BY <1>k, <2>1, <4>1, <4>2 DEF OwnRow, Present
    <3> QED
      BY <3>1, <3>2
  <2>7. ASSUME Present(formations', k)
        PROVE  \/ OwnGenesis(k, formations[k].mesh_id)'
               \/ Present(genesis', k) /\ genesis'[k].mesh_id \in crossed'
    <3>1. UpsertOk(Present(orgs, org[r]))
      <4>1. Present(orgs, k[1]) \/ backend = "redb"
        BY <2>1, <2>7 DEF OrphanInv, NoOrphans, Present
      <4>2. k[1] = org[r]
        BY <2>2 DEF Key
      <4> QED
        BY <4>1, <4>2 DEF UpsertOk
    <3>2. genesis'[k] = [mesh_id |-> r] /\ Present(genesis', k)
      BY <2>3, <3>1 DEF Present
    <3>3. CASE r \in crossed
      BY <2>1, <2>3, <3>2, <3>3
    <3>4. CASE OwnRow(k, r)
      BY <2>1, <2>3, <3>2, <3>4 DEF OwnRow, OwnGenesis
    <3> QED
      BY <2>4, <3>3, <3>4
  <2>8. ASSUME NEW q \in Requests, pc'[q] = "store_genesis"
        PROVE  q \in crossed' \/ OwnRow(Key(q), q)'
    <3>1. pc[q] = "store_genesis" /\ Key(q)' = Key(q)
      BY <2>5, <2>8 DEF Between
    <3>2. q \in crossed \/ OwnRow(Key(q), q)
      BY <3>1 DEF PairInv
    <3> QED
      BY <2>1, <3>1, <3>2 DEF OwnRow, Present
  <2>9. ASSUME NEW q \in Requests, pc'[q] = "delete_genesis", Present(formations', Key(q)')
        PROVE  formations'[Key(q)'].mesh_id \in crossed'
    <3>1. pc[q] = "delete_genesis" /\ Key(q)' = Key(q)
      BY <2>5, <2>9 DEF Between
    <3> QED
      BY <2>1, <2>9, <3>1 DEF PairInv, Present
  <2>10. PICK K \in SUBSET Keys : K = {k}
    OBVIOUS
  <2>11. Touches(r, K)
    BY <2>1, <2>2, <2>3, <2>10 DEF Touches, Between
  <2>12. PairedAt(K)
    BY <2>6, <2>7, <2>8, <2>9, <2>10 DEF PairedAt
  <2> QED
    BY <1>n, <2>0, <2>11, <2>12
<1>5. ASSUME NEW r \in Requests, DeleteFormationGenesis(r)
      PROVE  PairInv'
  <2>0. Moves(r)
    BY <1>5, GoesOnMoves DEF GoesOn
  <2>1. /\ pc[r] = "delete_genesis" /\ pc'[r] = "done"
        /\ UNCHANGED <<formations, local, cutShort, crossed>>
        /\ spared \subseteq spared'
    BY <1>0, <1>5 DEF DeleteFormationGenesis, Goto
  <2>2. PICK k \in Keys : k = Key(r)
    BY <1>0, <2>1
  <2>3. /\ \A x \in Keys \ {k} : genesis'[x] = genesis[x]
        /\ genesis'[k] = NoRow \/ (genesis'[k] = genesis[k] /\ mesh[r] \in spared')
    BY <1>0, <1>5, <2>2 DEF DeleteFormationGenesis, GenesisDeleted, Remove, Put
  <2>4. \A x \in Requests \ {r} : pc'[x] = pc[x] /\ mesh'[x] = mesh[x] /\ Key(x)' = Key(x)
    BY <1>o, <2>0
  <2>5. ASSUME Present(genesis', k)
        PROVE  \/ OwnRow(k, genesis[k].mesh_id)'
               \/ \E q \in Requests : pc'[q] = "delete_genesis" /\ mesh'[q] = genesis'[k].mesh_id
               \/ genesis'[k].mesh_id \in spared' \cup crossed'
    <3>1. Present(genesis, k) /\ genesis'[k] = genesis[k] /\ mesh[r] \in spared'
      BY <2>3, <2>5 DEF Present
    <3>2. \A q \in Requests : pc[q] = "delete_genesis"
            => q = r \/ (pc'[q] = "delete_genesis" /\ mesh'[q] = mesh[q])
      BY <2>4
    <3> QED
      BY <1>k, <2>1, <3>1, <3>2 DEF OwnRow, Present
  <2>6. Present(formations', k) => formations'[k].mesh_id \in crossed'
    BY <2>1, <2>2 DEF PairInv, Present
  <2>7. ASSUME NEW q \in Requests, pc'[q] = "store_genesis"
        PROVE  q \in crossed' \/ OwnRow(Key(q), q)'
    <3>1. pc[q] = "store_genesis" /\ Key(q)' = Key(q)
      BY <2>1, <2>4, <2>7
    <3>2. q \in crossed \/ OwnRow(Key(q), q)
      BY <3>1 DEF PairInv
    <3> QED
      BY <2>1, <3>1, <3>2 DEF OwnRow, Present
  <2>8. ASSUME NEW q \in Requests, pc'[q] = "delete_genesis", Present(formations', Key(q)')
        PROVE  formations'[Key(q)'].mesh_id \in crossed'
    <3>1. pc[q] = "delete_genesis" /\ Key(q)' = Key(q)
      BY <2>1, <2>4, <2>8
    <3> QED
      BY <2>1, <2>8, <3>1 DEF PairInv, Present
  <2>9. PICK K \in SUBSET Keys : K = {k}
    OBVIOUS
  <2>10. Touches(r, K)
    BY <2>1, <2>2, <2>3, <2>9 DEF Touches, Between
  <2>11. PairedAt(K)
    BY <2>5, <2>6, <2>7, <2>8, <2>9 DEF PairedAt
  <2> QED
    BY <1>n, <2>0, <2>10, <2>11
<1>6. ASSUME NEW r \in Requests, Drop(r)
      PROVE  PairInv'
  <2>0. Moves(r)
    BY <1>6, GoesOnMoves DEF GoesOn
  <2>1. /\ pc'[r] = "done" /\ UNCHANGED <<formations, genesis, local, crossed>>
        /\ cutShort \subseteq cutShort' /\ spared \subseteq spared'
    BY <1>0, <1>6 DEF Drop, Goto, tables
  <2>2. CASE pc[r] \in Between
    <3>1. PICK k \in Keys : k = Key(r)
      BY <1>0, <2>2 DEF Between
    <3>2. \A x \in Requests \ {r} : pc'[x] = pc[x] /\ mesh'[x] = mesh[x] /\ Key(x)' = Key(x)
      BY <1>o, <2>0
    <3>3. ASSUME Present(genesis', k)
          PROVE  \/ OwnRow(k, genesis[k].mesh_id)'
                 \/ \E q \in Requests : pc'[q] = "delete_genesis" /\ mesh'[q] = genesis'[k].mesh_id
                 \/ genesis'[k].mesh_id \in spared' \cup crossed'
      <4>1. Present(genesis, k) /\ genesis'[k] = genesis[k]
        BY <2>1, <3>3
      <4>2. \A q \in Requests : pc[q] = "delete_genesis"
              => mesh[q] \in spared' \/ (pc'[q] = "delete_genesis" /\ mesh'[q] = mesh[q])
        BY <1>6, <3>2 DEF Drop
      <4> QED
        BY <1>k, <2>1, <4>1, <4>2 DEF OwnRow, Present
    <3>4. ASSUME Present(formations', k)
          PROVE  \/ OwnGenesis(k, formations[k].mesh_id)'
                 \/ Present(genesis', k) /\ genesis'[k].mesh_id \in crossed'
                 \/ formations'[k].mesh_id \in cutShort' \cup crossed'
                 \/ /\ formations'[k].mesh_id \in Requests
                    /\ pc'[formations'[k].mesh_id] = "store_genesis"
      <4>1. Present(formations, k) /\ formations'[k] = formations[k]
        BY <2>1, <3>4
      <4>2. \A m \in Requests : pc[m] = "store_genesis" => m \in cutShort' \/ pc'[m] = "store_genesis"
        BY <1>0, <1>6, <3>2 DEF Drop
      <4> QED
        BY <1>f, <2>1, <4>1, <4>2 DEF OwnGenesis, Present
    <3>5. ASSUME NEW q \in Requests, pc'[q] = "store_genesis"
          PROVE  q \in crossed' \/ OwnRow(Key(q), q)'
      <4>1. pc[q] = "store_genesis" /\ Key(q)' = Key(q)
        BY <2>1, <3>2, <3>5
      <4>2. q \in crossed \/ OwnRow(Key(q), q)
        BY <4>1 DEF PairInv
      <4> QED
        BY <2>1, <4>1, <4>2 DEF OwnRow, Present
    <3>6. ASSUME NEW q \in Requests, pc'[q] = "delete_genesis", Present(formations', Key(q)')
          PROVE  formations'[Key(q)'].mesh_id \in crossed'
      <4>1. pc[q] = "delete_genesis" /\ Key(q)' = Key(q)
        BY <2>1, <3>2, <3>6
      <4> QED
        BY <2>1, <3>6, <4>1 DEF PairInv, Present
    <3>7. PICK K \in SUBSET Keys : K = {k}
      OBVIOUS
    <3>8. Touches(r, K)
      BY <2>1, <3>1, <3>7 DEF Touches, Between
    <3>9. PairedAt(K)
      BY <3>3, <3>4, <3>5, <3>6, <3>7 DEF PairedAt
    <3> QED
      BY <1>n, <2>0, <3>8, <3>9
  <2>3. CASE pc[r] \notin Between
    <3>1. UNCHANGED <<cutShort, spared>>
      BY <1>6, <2>3 DEF Drop, Between
    <3> QED
      BY <1>1, <2>0, <2>1, <2>3, <3>1 DEF Between
  <2> QED
    BY <2>2, <2>3
<1>7. ASSUME NEW r \in Requests, NEW o \in Orgs, NEW a \in Apps, DeleteFormationRow(r, o, a)
      PROVE  PairInv'
  <2>0. Moves(r)
    BY <1>7, BeginsMoves, Zenon DEF Begins
  <2>1. /\ pc[r] = "idle" /\ UNCHANGED <<genesis, cutShort, spared>>
        /\ org' = [org EXCEPT ![r] = o] /\ app' = [app EXCEPT ![r] = a]
    BY <1>7 DEF DeleteFormationRow, Arrive
  <2>2. PICK k \in Keys : k = <<o, a>>
    BY <1>0
  <2>3. formations'[k] = NoRow /\ \A x \in Keys \ {k} : formations'[x] = formations[x]
    BY <1>0, <1>7, <2>2 DEF DeleteFormationRow, Remove, Put
  <2>4. CASE Present(formations, k)
    <3>1. /\ pc'[r] = "delete_genesis" /\ mesh'[r] = formations[k].mesh_id
          /\ crossed' = crossed \cup {mesh[q] : q \in Storing(k)}
      BY <1>0, <1>7, <2>2, <2>4 DEF DeleteFormationRow, Goto
    <3>2. Key(r)' = k
      BY <1>0, <2>1, <2>2 DEF Key
    <3>3. ASSUME Present(genesis', k)
          PROVE  \/ \E q \in Requests : pc'[q] = "delete_genesis" /\ mesh'[q] = genesis'[k].mesh_id
                 \/ genesis'[k].mesh_id \in spared' \cup crossed'
      <4>1. \A q \in Requests : pc[q] = "delete_genesis" => pc'[q] = "delete_genesis" /\ mesh'[q] = mesh[q]
        BY <1>o, <2>0, <2>1
      <4>2. CASE OwnRow(k, genesis[k].mesh_id)
        BY <2>1, <3>1, <4>2 DEF OwnRow
      <4> QED
        BY <1>k, <2>1, <3>1, <3>3, <4>1, <4>2
    <3>4. ASSUME NEW q \in Requests, pc'[q] = "store_genesis", Key(q)' = k
          PROVE  q \in crossed'
      <4>1. pc[q] = "store_genesis" /\ Key(q) = k
        BY <1>o, <2>0, <3>1, <3>4
      <4> QED
        BY <1>0, <3>1, <4>1 DEF Storing
    <3>5. PICK K \in SUBSET Keys : K = {k}
      OBVIOUS
    <3>6. Touches(r, K)
      BY <2>1, <2>3, <3>1, <3>2, <3>5 DEF Touches, Between
    <3>7. ~Present(formations', k)
      BY <2>3 DEF Present
    <3>8. PairedAt(K)
      BY <3>3, <3>4, <3>5, <3>7 DEF PairedAt
    <3> QED
      BY <1>n, <2>0, <3>6, <3>8
  <2>5. CASE ~Present(formations, k)
    <3>1. pc'[r] = "done" /\ UNCHANGED crossed
      BY <1>0, <1>7, <2>2, <2>5 DEF DeleteFormationRow, Goto
    <3>2. \A x \in Keys : formations'[x] = formations[x]
      BY <2>3, <2>5 DEF Present
    <3> QED
      BY <1>1, <2>0, <2>1, <3>1, <3>2 DEF Between
  <2> QED
    BY <2>4, <2>5
<1>8. ASSUME NEW r \in Requests, NEW o \in Orgs, DeleteOrg(r, o)
      PROVE  PairInv'
  <2>0. Moves(r)
    BY <1>8, BeginsMoves DEF Begins
  <2>1. pc[r] = "idle" /\ pc'[r] = "done" /\ UNCHANGED <<cutShort, spared>> /\ crossed \subseteq crossed'
    BY <1>0, <1>8 DEF DeleteOrg, Arrive, Goto
  <2>2. \/ UNCHANGED <<formations, genesis>>
        \/ \A x \in Keys : /\ formations'[x] = IF x[1] = o THEN NoRow ELSE formations[x]
                           /\ genesis'[x] = IF x[1] = o THEN NoRow ELSE genesis[x]
    BY <1>0, <1>8 DEF DeleteOrg, CascadeGenesis, Cascade
  <2>3. CASE UNCHANGED <<formations, genesis>>
    BY <1>1, <2>0, <2>1, <2>3 DEF Between
  <2>4. CASE \A x \in Keys : /\ formations'[x] = IF x[1] = o THEN NoRow ELSE formations[x]
                             /\ genesis'[x] = IF x[1] = o THEN NoRow ELSE genesis[x]
    <3>1. PICK K \in SUBSET Keys : K = {x \in Keys : x[1] = o}
      OBVIOUS
    <3>2. Touches(r, K)
      BY <2>1, <2>4, <3>1 DEF Touches, Between
    <3>3. \A x \in K : ~Present(formations', x) /\ ~Present(genesis', x)
      BY <2>4, <3>1 DEF Present
    <3>4. ASSUME NEW q \in Requests, pc'[q] = "store_genesis", Key(q)' \in K
          PROVE  q \in crossed'
      <4>1. pc[q] = "store_genesis" /\ mesh[q] = q /\ Key(q) \in K
        BY <1>0, <1>o, <2>0, <2>1, <3>4
      <4>2. org[q] = o
        BY <3>1, <4>1 DEF Key
      <4> QED
        BY <1>8, <4>1, <4>2 DEF DeleteOrg, InFlight
    <3>5. PairedAt(K)
      BY <3>3, <3>4 DEF PairedAt
    <3> QED
      BY <1>n, <2>0, <3>2, <3>5
  <2> QED
    BY <2>2, <2>3, <2>4
\* The remaining steps.
<1>9. ASSUME NEW r \in Requests, NEW o \in Orgs, Begins(r, o), ~DeleteOrg(r, o),
             \A a \in Apps : ~DeleteFormationRow(r, o, a)
      PROVE  PairInv'
  <2>0. Moves(r) /\ pc[r] = "idle"
    BY <1>9, BeginsMoves
  <2>1. UNCHANGED <<formations, genesis, cutShort, spared, crossed>>
    BY <1>9 DEF Begins, CreateOrgGet, UpdateOrgGet, CreateFormationGetOrg, CreateSettingGetOrg,
                ToggleGet, DeleteSetting, tables, history, pairing
  <2>2. pc'[r] \notin Between
    BY <1>0, <1>9 DEF Begins, CreateOrgGet, UpdateOrgGet, CreateFormationGetOrg,
                      CreateSettingGetOrg, ToggleGet, DeleteSetting, Goto, Between
  <2> QED
    BY <1>1, <2>0, <2>1, <2>2 DEF Between
<1>10. ASSUME NEW r \in Requests, GoesOn(r), ~CreateFormationInsert(r), ~CreateFormationStoreGenesis(r),
              ~DeleteFormationGenesis(r), ~Drop(r)
       PROVE  PairInv'
  <2>0. Moves(r)
    BY <1>10, GoesOnMoves
  <2>1. UNCHANGED <<formations, genesis, cutShort, spared, crossed>>
    BY <1>10 DEF GoesOn, CreateOrgInsert, UpdateOrgWrite, CreateFormationCheckQuota,
         CreateFormationCheckUnique, CreateSinkCheckQuota, CreateSinkInsert, CreateIdpInsert,
         CreatePolicyRuleInsert, CreateSettingInsert, ToggleWrite, tables, history, pairing
  <2>2. pc[r] \notin Between /\ pc'[r] \notin Between
    BY <1>0, <1>10 DEF GoesOn, CreateOrgInsert, UpdateOrgWrite, CreateFormationCheckQuota,
         CreateFormationCheckUnique, CreateSinkCheckQuota, CreateSinkInsert, CreateIdpInsert,
         CreatePolicyRuleInsert, CreateSettingInsert, ToggleWrite, Goto, Between
  <2> QED
    BY <1>1, <2>0, <2>1, <2>2
<1> QED
  BY <1>2, <1>3, <1>4, <1>5, <1>6, <1>7, <1>8, <1>9, <1>10, StepOfOne

\* A stored genesis belongs to its formation, for any requests and faults: what
\* is left over was left by a failed delete or by two calls that crossed.
THEOREM KeypairsHaveFormations == Spec => []KeypairHasFormation
<1>1. PairInv => KeypairHasFormation
  BY DEF PairInv
<1> QED
  BY <1>1, TypeInit, TypeStep, OwnedInit, OwnedStep, OrphanInit, OrphanStep, PairInit, PairStep, PTL
  DEF Spec

\* A formation has the genesis it was made with, with the same exceptions.
THEOREM FormationsHaveKeypairs == Spec => []FormationHasKeypair
<1>1. PairInv => FormationHasKeypair
  BY DEF PairInv
<1> QED
  BY <1>1, TypeInit, TypeStep, OwnedInit, OwnedStep, OrphanInit, OrphanStep, PairInit, PairStep, PTL
  DEF Spec

-----------------------------------------------------------------------------
(* While calls neither overlap nor fail.                                    *)

Busy(r) == pc[r] \notin {"idle", "done"}

\* One request is busy at most, and what it has read is still so.
CalmInv ==
    calm =>
        /\ \A r, q \in Requests : Busy(r) /\ Busy(q) => r = q
        /\ \A r \in Requests :
              /\ pc[r] = "create_org_insert" => ~Present(orgs, org[r])
              /\ pc[r] = "update_org_write" => orgs[org[r]] = seen[r]
              /\ pc[r] = "update_setting" => Present(settings, <<org[r], item[r]>>)

\* Nothing has begun.
LEMMA CalmInit == Init => CalmInv
<1> SUFFICES ASSUME Init PROVE CalmInv
  OBVIOUS
<1>1. \A r \in Requests : pc[r] = "idle"
  BY DEF Init
<1> QED
  BY <1>1 DEF CalmInv, Busy

\* A request that is alone acts on what it has just read.
LEMMA CalmStep == TInv /\ CalmInv /\ [Next]_vars => CalmInv'
<1> SUFFICES ASSUME TInv, CalmInv, [Next]_vars, calm' PROVE CalmInv'
  BY DEF CalmInv
<1>0. /\ pc \in [Requests -> Steps] /\ org \in [Requests -> Orgs \cup {None}]
      /\ item \in [Requests -> SettingIds \cup {None}]
      /\ seen \in [Requests -> Organization \cup {NoRow}]
  BY DEF TInv, TypeOK
<1>1. CASE UNCHANGED vars
  BY <1>1 DEF vars, tables, local, CalmInv, Busy, Present
<1>2. ASSUME NEW r \in Requests, \A x \in Requests \ {r} : ~Busy(x)',
             /\ pc'[r] = "create_org_insert" => ~Present(orgs', org'[r])
             /\ pc'[r] = "update_org_write" => orgs'[org'[r]] = seen'[r]
             /\ pc'[r] = "update_setting" => Present(settings', <<org'[r], item'[r]>>)
      PROVE  CalmInv'
  BY <1>2 DEF CalmInv, Busy, Present
<1>3. ASSUME NEW r \in Requests, NEW o \in Orgs, Begins(r, o)
      PROVE  CalmInv'
  <2>1. Moves(r) /\ InFlight = {}
    BY <1>3, BeginsMoves DEF Moves
  <2>2. \A x \in Requests \ {r} : ~Busy(x)'
    BY <2>1 DEF Moves, InFlight, Busy
  <2>3. pc'[r] = "create_org_insert" => ~Present(orgs', org'[r])
    <3>1. pc'[r] = "create_org_insert" => CreateOrgGet(r, o)
      BY <1>0, <1>3 DEF Begins, UpdateOrgGet, DeleteOrg, CreateFormationGetOrg,
           DeleteFormationRow, CreateSettingGetOrg, ToggleGet, DeleteSetting, Goto
    <3> QED
      BY <1>0, <3>1 DEF CreateOrgGet, Arrive, Goto, tables, Present
  <2>4. pc'[r] = "update_org_write" => orgs'[org'[r]] = seen'[r]
    <3>1. pc'[r] = "update_org_write" => \E p \in PatchArgs : UpdateOrgGet(r, o, p)
      BY <1>0, <1>3 DEF Begins, CreateOrgGet, DeleteOrg, CreateFormationGetOrg,
           DeleteFormationRow, CreateSettingGetOrg, ToggleGet, DeleteSetting, Goto
    <3> QED
      BY <1>0, <3>1 DEF UpdateOrgGet, Arrive, tables
  <2>5. pc'[r] = "update_setting" => Present(settings', <<org'[r], item'[r]>>)
    <3>1. pc'[r] = "update_setting" => \E i, enabled : ToggleGet(r, o, i, enabled)
      BY <1>0, <1>3 DEF Begins, CreateOrgGet, UpdateOrgGet, DeleteOrg, CreateFormationGetOrg,
           DeleteFormationRow, CreateSettingGetOrg, DeleteSetting, Goto
    <3> QED
      BY <1>0, <3>1 DEF ToggleGet, Arrive, Goto, tables, Present
  <2> QED
    BY <1>2, <2>2, <2>3, <2>4, <2>5
<1>4. ASSUME NEW r \in Requests, GoesOn(r)
      PROVE  CalmInv'
  <2>1. Moves(r) /\ Busy(r) /\ calm
    BY <1>4, GoesOnMoves DEF Moves, Busy
  <2>2. \A x \in Requests \ {r} : ~Busy(x)'
    BY <2>1 DEF CalmInv, Moves, Busy
  <2>3. pc'[r] \notin {"create_org_insert", "update_org_write", "update_setting"}
    BY <1>0, <1>4 DEF GoesOn, CreateOrgInsert, UpdateOrgWrite, CreateFormationCheckQuota,
         CreateFormationCheckUnique, CreateFormationInsert, CreateFormationStoreGenesis,
         DeleteFormationGenesis, CreateSinkCheckQuota, CreateSinkInsert, CreateIdpInsert,
         CreatePolicyRuleInsert, CreateSettingInsert, ToggleWrite, Drop, Goto
  <2> QED
    BY <1>2, <2>2, <2>3
<1> QED
  BY <1>1, <1>3, <1>4, StepOfOne

\* So it is as long as they stay calm.
LEMMA CalmAlways == Spec => [](TInv /\ CalmInv)
BY TypeInit, TypeStep, CalmInit, CalmStep, PTL DEF Spec

\* Quotas change to the value a PATCH gives; to what update_org had read, or to
\* the default of a second create_org over redb, only once calls overlapped.
THEOREM QuotaChangesHold == Spec => QuotaChangeHolds
<1>1. TInv /\ CalmInv /\ [Next]_vars
      => [\A o \in Orgs :
             /\ Present(orgs, o) /\ Present(orgs', o)
             /\ orgs[o].quotas # orgs'[o].quotas
             => \E r \in Requests :
                   /\ org[r] = o /\ pc'[r] = "done"
                   /\ \/ pc[r] = "update_org_write" /\ patch[r].quotas = orgs'[o].quotas
                      \/ /\ ~calm /\ pc[r] = "update_org_write" /\ patch[r].quotas = None
                         /\ seen[r].quotas = orgs'[o].quotas
                      \/ ~calm /\ backend = "redb" /\ pc[r] = "create_org_insert"]_vars
  <2> SUFFICES ASSUME TInv, CalmInv, [Next]_vars, NEW o \in Orgs,
                      Present(orgs, o), Present(orgs', o), orgs[o].quotas # orgs'[o].quotas
               PROVE  \E r \in Requests :
                   /\ org[r] = o /\ pc'[r] = "done"
                   /\ \/ pc[r] = "update_org_write" /\ patch[r].quotas = orgs'[o].quotas
                      \/ /\ ~calm /\ pc[r] = "update_org_write" /\ patch[r].quotas = None
                         /\ seen[r].quotas = orgs'[o].quotas
                      \/ ~calm /\ backend = "redb" /\ pc[r] = "create_org_insert"
    OBVIOUS
  <2>0. orgs \in [Orgs -> Organization \cup {NoRow}] /\ pc \in [Requests -> Steps] /\ orgs' # orgs
    BY DEF TInv, TypeOK
  <2>1. PICK r \in Requests : CreateOrgInsert(r) \/ UpdateOrgWrite(r) \/ \E x \in Orgs : DeleteOrg(r, x)
    BY <2>0, OrgWriters
  <2>2. ~\E x \in Orgs : DeleteOrg(r, x)
    BY <2>0 DEF DeleteOrg, Remove, Put, Present
  <2>3. CASE CreateOrgInsert(r)
    <3>1. /\ org[r] = o /\ pc'[r] = "done" /\ pc[r] = "create_org_insert"
          /\ InsertOk(orgs, o, TRUE)
      BY <2>0, <2>3 DEF CreateOrgInsert, Insert, Put, Goto
    <3>2. backend = "redb"
      BY <3>1 DEF InsertOk, PgInsertOk
    <3>3. ~calm
      BY <3>1 DEF CalmInv
    <3> QED
      BY <3>1, <3>2, <3>3
  <2>4. CASE UpdateOrgWrite(r)
    <3>1. /\ org[r] = o /\ pc'[r] = "done" /\ pc[r] = "update_org_write"
          /\ orgs'[o] = Patched(seen[r], patch[r])
      BY <2>0, <2>4 DEF UpdateOrgWrite, Update, RedbUpdate, PgUpdate, Put, Goto
    <3>2. seen[r] \in Organization /\ patch[r] \in PatchArgs
      BY <3>1 DEF TInv, Located
    <3>3. orgs'[o].quotas = IF patch[r].quotas = None THEN seen[r].quotas ELSE patch[r].quotas
      BY <3>1, <3>2, PatchedType
    <3>4. calm => orgs[o] = seen[r]
      BY <3>1 DEF CalmInv
    <3>5. CASE patch[r].quotas = None
      BY <3>1, <3>3, <3>4, <3>5
    <3>6. CASE patch[r].quotas # None
      BY <3>1, <3>3, <3>6
    <3> QED
      BY <3>5, <3>6
  <2> QED
    BY <2>1, <2>2, <2>3, <2>4
<1> QED
  BY <1>1, CalmAlways, PTL DEF Spec, QuotaChangeHolds

\* A deleted sink, identity provider or rule comes back only over redb, by a
\* toggle that had read it before and that something else has overtaken.
THEOREM SettingsStayGone == Spec => DeletedSettingStaysGone
<1>1. TInv /\ CalmInv /\ [Next]_vars
      => [\A k \in SettingKeys :
             /\ k[2] \in given
             /\ ~Present(settings, k) /\ Present(settings', k)
             => /\ backend = "redb" /\ ~calm
                /\ \E r \in Requests :
                      <<org[r], item[r]>> = k /\ pc[r] = "update_setting"]_vars
  <2> SUFFICES ASSUME TInv, CalmInv, [Next]_vars, NEW k \in SettingKeys, k[2] \in given,
                      ~Present(settings, k), Present(settings', k)
               PROVE  /\ backend = "redb" /\ ~calm
                      /\ \E r \in Requests :
                            <<org[r], item[r]>> = k /\ pc[r] = "update_setting"
    OBVIOUS
  <2>0. settings \in [SettingKeys -> Setting \cup {NoRow}]
    BY DEF TInv, TypeOK
  <2>1. PICK r \in Requests : GoesOn(r) \/ \E o \in Orgs : Begins(r, o)
    BY StepOfOne DEF vars, tables, Present
  <2>2. \A o \in Orgs : ~Begins(r, o)
    <3> SUFFICES ASSUME NEW o \in Orgs, Begins(r, o)
                 PROVE  settings'[k] \in {settings[k], NoRow}
      BY DEF Present
    <3>1. CASE DeleteOrg(r, o)
      BY <2>0, <3>1 DEF DeleteOrg, Cascade
    <3>2. CASE \E i \in given : DeleteSetting(r, o, i)
      BY <2>0, <3>2 DEF DeleteSetting, Remove, Put
    <3>3. CASE ~DeleteOrg(r, o) /\ ~\E i \in given : DeleteSetting(r, o, i)
      BY <3>3 DEF Begins, CreateOrgGet, UpdateOrgGet, CreateFormationGetOrg, DeleteFormationRow,
                  CreateSettingGetOrg, ToggleGet, tables
    <3> QED
      BY <3>1, <3>2, <3>3
  <2>3. \/ ToggleWrite(r)
        \/ \E step, ids : CreateSettingInsert(r, step, ids)
        \/ UNCHANGED settings
    BY <2>1, <2>2 DEF GoesOn, CreateOrgInsert, UpdateOrgWrite, CreateFormationCheckQuota,
         CreateFormationCheckUnique, CreateFormationInsert, CreateFormationStoreGenesis,
         DeleteFormationGenesis, CreateSinkCheckQuota, CreateSinkInsert, CreateIdpInsert,
         CreatePolicyRuleInsert, Drop, tables
  <2>4. ASSUME NEW step, NEW ids, CreateSettingInsert(r, step, ids)
        PROVE  settings'[k] = settings[k]
    <3>1. PICK i \in ids \ given :
              settings' = Insert(settings, <<org[r], i>>, [enabled |-> TRUE], Present(orgs, org[r]))
      BY <2>4 DEF CreateSettingInsert
    <3>2. k # <<org[r], i>>
      BY <3>1
    <3> QED
      BY <2>0, <3>1, <3>2 DEF Insert, Put
  <2>5. ToggleWrite(r)
    BY <2>3, <2>4 DEF Present
  <2>6. pc[r] = "update_setting" /\ <<org[r], item[r]>> = k /\ backend = "redb"
    BY <2>0, <2>5 DEF ToggleWrite, Update, RedbUpdate, PgUpdate, Put, Present
  <2>7. ~calm
    BY <2>6 DEF CalmInv
  <2> QED
    BY <2>6, <2>7
<1> QED
  BY <1>1, CalmAlways, PTL DEF Spec, DeletedSettingStaysGone

-----------------------------------------------------------------------------
(* Quotas.                                                                  *)

\* Requests for organization o that are at one of the steps.
At(steps, o) == {r \in Requests : org[r] = o /\ pc[r] \in steps}

\* Creates that the quota check has let through and that have not stored yet.
Admitted(o) == At({"get_formation", "create_formation"}, o)
AdmittedSinks(o) == At({"create_sink"}, o)

\* Sinks in the table and those that a toggle under way would put back there.
Revivable(o) ==
    {i \in SinkIds : \/ Present(settings, <<o, i>>)
                     \/ \E r \in At({"update_setting"}, o) : item[r] = i}

Slack == IF calm THEN 0 ELSE MaxInFlight - 1

\* Every admitted create has its place reserved, and so has a deleted sink that
\* a toggle may bring back; a request decides on a quota that the organization
\* has had.
QuotaInv ==
    /\ Cardinality(InFlight) <= MaxInFlight
    /\ \A o \in Orgs : Present(orgs, o) => orgs[o].quotas <= peak[o]
    /\ \A r \in Requests :
          pc[r] \in {"list_formations", "list_sinks"} => seen[r].quotas <= peak[org[r]]
    /\ \A o \in Orgs :
          /\ Cardinality(FormationsOf(o)) + Cardinality(Admitted(o)) <= peak[o] + Slack
          /\ Cardinality(Revivable(o)) + Cardinality(AdmittedSinks(o)) <= peak[o] + Slack

\* The sets that are counted are finite.
LEMMA CountedFinite ==
    /\ IsFiniteSet(InFlight)
    /\ \A o \in Orgs : /\ IsFiniteSet(FormationsOf(o)) /\ IsFiniteSet(SinksOf(o))
                       /\ IsFiniteSet(Admitted(o)) /\ IsFiniteSet(AdmittedSinks(o))
                       /\ IsFiniteSet(Revivable(o))
<1>1. InFlight \subseteq Requests
  BY DEF InFlight
<1>2. \A o \in Orgs : /\ FormationsOf(o) \subseteq Apps /\ SinksOf(o) \subseteq SinkIds
                      /\ Admitted(o) \subseteq Requests /\ AdmittedSinks(o) \subseteq Requests
                      /\ Revivable(o) \subseteq SinkIds
  BY DEF FormationsOf, SinksOf, Admitted, AdmittedSinks, Revivable, At
<1> QED
  BY <1>1, <1>2, FS_Subset

\* An earlier gateway has kept the quotas.
LEMMA QuotaInit == Init => QuotaInv
<1> SUFFICES ASSUME Init PROVE QuotaInv
  OBVIOUS
<1>1. InFlight = {} /\ \A o \in Orgs : Admitted(o) = {} /\ AdmittedSinks(o) = {} /\ Revivable(o) = {}
  <2>1. InFlight = {} /\ \A o \in Orgs : Admitted(o) = {} /\ AdmittedSinks(o) = {}
    BY DEF Init, InFlight, Admitted, AdmittedSinks, At
  <2>2. \A o \in Orgs : Revivable(o) = {}
    <3>1. \A o \in Orgs, i \in SinkIds : <<o, i>> \in SettingKeys
      BY DEF SettingKeys, SettingIds
    <3> QED
      BY <3>1 DEF Init, Revivable, At, Empty, Present
  <2> QED
    BY <2>1, <2>2
<1>2. Cardinality({}) = 0
  BY FS_EmptySet
<1>3. Slack = 0
  <2>1. calm
    BY Zenon DEF Init
  <2> QED
    BY <2>1 DEF Slack
<1>4. \A o \in Orgs : /\ peak[o] \in Nat /\ Cardinality(FormationsOf(o)) <= peak[o]
                      /\ Cardinality(FormationsOf(o)) \in Nat
                      /\ Present(orgs, o) => orgs[o].quotas <= peak[o]
  <2>1. \A o \in Orgs : /\ peak[o] \in Nat /\ Cardinality(FormationsOf(o)) <= peak[o]
                        /\ Present(orgs, o) => orgs[o].quotas = peak[o]
    BY TypeInit DEF Init, TInv, TypeOK
  <2> QED
    BY <2>1, CountedFinite, FS_CardinalityType
<1>5. \A r \in Requests : pc[r] = "idle"
  BY DEF Init
<1>6. ASSUME NEW o \in Orgs
      PROVE  /\ Cardinality(FormationsOf(o)) + Cardinality(Admitted(o)) <= peak[o] + Slack
             /\ Cardinality(Revivable(o)) + Cardinality(AdmittedSinks(o)) <= peak[o] + Slack
  <2>1. /\ Cardinality(Admitted(o)) = 0 /\ Cardinality(AdmittedSinks(o)) = 0
        /\ Cardinality(Revivable(o)) = 0
    BY <1>1, <1>2
  <2> QED
    BY <1>3, <1>4, <2>1
<1>7. Cardinality(InFlight) <= MaxInFlight
  BY <1>1, <1>2
<1> QED
  BY <1>4, <1>5, <1>6, <1>7 DEF QuotaInv

\* The last quota check was right, and those who pass it together are no more
\* than are in flight.
LEMMA QuotaStep == TInv /\ CalmInv /\ CalmInv' /\ TInv' /\ QuotaInv /\ [Next]_vars => QuotaInv'
<1> SUFFICES ASSUME TInv, CalmInv, CalmInv', TInv', QuotaInv, [Next]_vars PROVE QuotaInv'
  OBVIOUS
<1>0. /\ orgs \in [Orgs -> Organization \cup {NoRow}]
      /\ pc \in [Requests -> Steps] /\ peak \in [Orgs -> Nat] /\ peak' \in [Orgs -> Nat]
      /\ org \in [Requests -> Orgs \cup {None}]
      /\ \A r \in Requests : Busy(r) => org[r] \in Orgs
      /\ \A o \in Orgs : Present(orgs, o) => orgs[o].quotas \in Nat
  BY DEF TInv, TypeOK, Located, Busy, Present, Organization
<1>1. CASE UNCHANGED vars
  BY <1>1 DEF vars, tables, local, history, QuotaInv, InFlight, Present, FormationsOf, Revivable,
              Admitted, AdmittedSinks, At, Slack
<1>2. ASSUME NEW r \in Requests, Moves(r), GoesOn(r) \/ \E o \in Orgs : Begins(r, o)
      PROVE  QuotaInv'
  <2>0. PICK s \in Nat, t \in Nat : s = Slack /\ t = Slack' /\ s <= t
    <3>1. calm' => calm
      BY <1>2 DEF Moves
    <3>2. CASE calm'
      BY <3>1, <3>2 DEF Slack
    <3>3. CASE ~calm'
      <4>1. CASE calm
        BY <3>3, <4>1 DEF Slack
      <4>2. CASE ~calm
        BY <3>3, <4>2 DEF Slack
      <4> QED
        BY <4>1, <4>2
    <3> QED
      BY <3>2, <3>3
  <2>1. Cardinality(InFlight') <= MaxInFlight
    <3>0. IsFiniteSet(InFlight) /\ Cardinality(InFlight) \in Nat /\ Cardinality(InFlight) <= MaxInFlight
      BY CountedFinite, FS_CardinalityType DEF QuotaInv
    <3>1. CASE GoesOn(r)
      <4>1. Busy(r)
        BY <3>1, GoesOnMoves DEF Busy
      <4>2. InFlight' \subseteq InFlight
        BY <1>2, <4>1 DEF InFlight, Moves, Busy
      <4> QED
        BY <3>0, <4>2, FS_Subset, FS_CardinalityType
    <3>2. ASSUME NEW o \in Orgs, Begins(r, o) PROVE Cardinality(InFlight') <= MaxInFlight
      <4>1. Cardinality(InFlight) < MaxInFlight
        BY <3>2 DEF Begins, CreateOrgGet, UpdateOrgGet, DeleteOrg, CreateFormationGetOrg,
           DeleteFormationRow, CreateSettingGetOrg, ToggleGet, DeleteSetting, Arrive
      <4>2. InFlight' \subseteq InFlight \cup {r}
        BY <1>2 DEF InFlight, Moves
      <4>3. /\ IsFiniteSet(InFlight \cup {r})
            /\ Cardinality(InFlight \cup {r})
                  = IF r \in InFlight THEN Cardinality(InFlight) ELSE Cardinality(InFlight) + 1
        BY <3>0, FS_AddElement
      <4>4. Cardinality(InFlight \cup {r}) <= MaxInFlight /\ Cardinality(InFlight \cup {r}) \in Nat
        BY <3>0, <4>1, <4>3
      <4>5. Cardinality(InFlight') <= Cardinality(InFlight \cup {r}) /\ Cardinality(InFlight') \in Nat
        BY <4>2, <4>3, FS_Subset, FS_CardinalityType
      <4> QED
        BY <4>4, <4>5
    <3> QED
      BY <1>2, <3>1, <3>2
  <2>2. \A o \in Orgs : /\ peak[o] <= peak'[o]
                        /\ Present(orgs', o) => orgs'[o].quotas <= peak'[o]
    <3>1. CASE CreateOrgInsert(r) \/ UpdateOrgWrite(r)
      <4>1. org[r] \in Orgs /\ RaisePeak(org[r])
        BY <3>1 DEF CreateOrgInsert, UpdateOrgWrite, TInv, Located
      <4>2. orgs' \in [Orgs -> Organization \cup {NoRow}]
        BY DEF TInv, TypeOK
      <4>3. /\ \A o \in Orgs \ {org[r]} : peak'[o] = peak[o]
            /\ peak[org[r]] <= peak'[org[r]]
            /\ Present(orgs', org[r]) => orgs'[org[r]].quotas <= peak'[org[r]]
        BY <1>0, <4>1, <4>2, PeakType
      <4>4. \A o \in Orgs \ {org[r]} : orgs'[o] = orgs[o]
        BY <1>0, <3>1 DEF CreateOrgInsert, UpdateOrgWrite, Insert, Update, RedbUpdate, PgUpdate, Put
      <4>5. \A o \in Orgs : peak[o] \in Nat /\ (Present(orgs, o) => orgs[o].quotas <= peak[o])
        BY <1>0 DEF QuotaInv
      <4> QED
        BY <4>3, <4>4, <4>5 DEF Present
    <3>2. CASE ~CreateOrgInsert(r) /\ ~UpdateOrgWrite(r)
      <4>1. UNCHANGED peak
        <5>1. CASE GoesOn(r)
          BY <3>2, <5>1 DEF GoesOn, CreateFormationCheckQuota, CreateFormationCheckUnique,
               CreateFormationInsert, CreateFormationStoreGenesis, DeleteFormationGenesis,
               CreateSinkCheckQuota, CreateSinkInsert, CreateIdpInsert, CreatePolicyRuleInsert,
               CreateSettingInsert, ToggleWrite, Drop, history
        <5>2. ASSUME NEW o \in Orgs, Begins(r, o) PROVE UNCHANGED peak
          BY <5>2 DEF Begins, CreateOrgGet, UpdateOrgGet, DeleteOrg, CreateFormationGetOrg,
           DeleteFormationRow, CreateSettingGetOrg, ToggleGet, DeleteSetting, history
        <5> QED
          BY <1>2, <5>1, <5>2
      <4>2. \A o \in Orgs : orgs'[o] = orgs[o] \/ orgs'[o] = NoRow
        <5>1. CASE GoesOn(r)
          BY <3>2, <5>1 DEF GoesOn, CreateFormationCheckQuota, CreateFormationCheckUnique,
               CreateFormationInsert, CreateFormationStoreGenesis, DeleteFormationGenesis,
               CreateSinkCheckQuota, CreateSinkInsert, CreateIdpInsert, CreatePolicyRuleInsert,
               CreateSettingInsert, ToggleWrite, Drop, tables
        <5>2. ASSUME NEW x \in Orgs, Begins(r, x)
              PROVE  \A o \in Orgs : orgs'[o] = orgs[o] \/ orgs'[o] = NoRow
          <6>1. CASE DeleteOrg(r, x)
            BY <1>0, <6>1 DEF DeleteOrg, Remove, Put
          <6>2. CASE ~DeleteOrg(r, x)
            BY <5>2, <6>2 DEF Begins, CreateOrgGet, UpdateOrgGet, CreateFormationGetOrg,
                 DeleteFormationRow, CreateSettingGetOrg, ToggleGet, DeleteSetting, tables
          <6> QED
            BY <6>1, <6>2
        <5> QED
          BY <1>2, <5>1, <5>2
      <4>3. \A o \in Orgs : peak[o] \in Nat /\ (Present(orgs, o) => orgs[o].quotas <= peak[o])
        BY <1>0 DEF QuotaInv
      <4> QED
        BY <4>1, <4>2, <4>3 DEF Present
    <3> QED
      BY <3>1, <3>2
  <2>3. \A x \in Requests :
          pc'[x] \in {"list_formations", "list_sinks"} => seen'[x].quotas <= peak'[org'[x]]
    <3> SUFFICES ASSUME NEW x \in Requests, pc'[x] \in {"list_formations", "list_sinks"}
                 PROVE  seen'[x].quotas <= peak'[org'[x]]
      OBVIOUS
    <3>1. CASE x # r
      <4>1. pc[x] = pc'[x] /\ seen'[x] = seen[x] /\ org'[x] = org[x]
        BY <1>2, <3>1 DEF Moves
      <4>2. org[x] \in Orgs /\ seen[x].quotas \in Nat /\ seen[x].quotas <= peak[org[x]]
        BY <4>1 DEF TInv, Located, QuotaInv, Organization
      <4>3. peak[org[x]] <= peak'[org[x]] /\ peak[org[x]] \in Nat /\ peak'[org[x]] \in Nat
        BY <1>0, <2>2, <4>2
      <4> QED
        BY <4>1, <4>2, <4>3
    <3>2. CASE x = r
      <4>1. ~GoesOn(r)
        BY <1>0, <3>2 DEF GoesOn, CreateOrgInsert, UpdateOrgWrite, CreateFormationCheckQuota,
             CreateFormationCheckUnique, CreateFormationInsert, CreateFormationStoreGenesis,
             DeleteFormationGenesis, CreateSinkCheckQuota, CreateSinkInsert, CreateIdpInsert,
             CreatePolicyRuleInsert, CreateSettingInsert, ToggleWrite, Drop, Goto
      <4>2. PICK o \in Orgs : Begins(r, o)
        BY <1>2, <4>1
      <4>3. \/ \E a \in Apps : CreateFormationGetOrg(r, o, a)
            \/ \E next \in {"list_sinks", "create_idp", "create_policy_rule"} :
                  CreateSettingGetOrg(r, o, next)
        BY <1>0, <3>2, <4>2 DEF Begins, CreateOrgGet, UpdateOrgGet, DeleteOrg,
             DeleteFormationRow, ToggleGet, DeleteSetting, Goto
      <4>4. /\ Present(orgs, o) /\ org'[r] = o /\ seen'[r] = orgs[o] /\ UNCHANGED <<orgs, peak>>
        <5>1. seen \in [Requests -> Organization \cup {NoRow}]
          BY DEF TInv, TypeOK
        <5> QED
          BY <1>0, <3>2, <4>3, <5>1 DEF CreateFormationGetOrg, CreateSettingGetOrg, Arrive, Goto,
                tables, history
      <4> QED
        BY <2>2, <3>2, <4>4 DEF Present
    <3> QED
      BY <3>1, <3>2
  \* How a step may change what is counted.
  <2>c. ASSUME NEW o \in Orgs, NEW F, NEW W, NEW G, NEW V, IsFiniteSet(F), IsFiniteSet(W),
               Cardinality(F) + Cardinality(W) <= peak[o] + s,
               \/ G \subseteq F /\ V \subseteq W
               \/ \E a, x : x \in W /\ G \subseteq F \cup {a} /\ V \subseteq W \ {x}
               \/ /\ IsFiniteSet(G) /\ IsFiniteSet(V)
                  /\ \E U \in SUBSET InFlight' :
                        Cardinality(G) + Cardinality(V) < peak[o] + Cardinality(U)
        PROVE  Cardinality(G) + Cardinality(V) <= peak'[o] + t
    <3>0. peak[o] \in Nat /\ peak'[o] \in Nat /\ peak[o] <= peak'[o]
      BY <1>0, <2>2
    <3>1. CASE \/ G \subseteq F /\ V \subseteq W
               \/ \E a, x : x \in W /\ G \subseteq F \cup {a} /\ V \subseteq W \ {x}
      <4>1. PICK n \in Nat : n = peak'[o] + t
        BY <2>0, <3>0
      <4>2. Cardinality(F) + Cardinality(W) <= n
        <5>1. Cardinality(F) \in Nat /\ Cardinality(W) \in Nat
          BY <2>c, FS_CardinalityType
        <5> QED
          BY <2>0, <2>c, <3>0, <4>1, <5>1
      <4> QED
        BY <2>c, <3>1, <4>1, <4>2, Trade
    <3>2. CASE /\ IsFiniteSet(G) /\ IsFiniteSet(V)
               /\ \E U \in SUBSET InFlight' :
                     Cardinality(G) + Cardinality(V) < peak[o] + Cardinality(U)
      <4>1. PICK U \in SUBSET InFlight' : Cardinality(G) + Cardinality(V) < peak[o] + Cardinality(U)
        BY <3>2
      <4>2. IsFiniteSet(InFlight') /\ Cardinality(InFlight') \in Nat
        <5>1. InFlight' \subseteq Requests
          BY DEF InFlight
        <5> QED
          BY <5>1, FS_Subset, FS_CardinalityType
      <4>3. /\ Cardinality(G) \in Nat /\ Cardinality(V) \in Nat
            /\ Cardinality(U) \in Nat /\ Cardinality(U) <= Cardinality(InFlight')
        BY <3>2, <4>2, FS_Subset, FS_CardinalityType
      <4>4. Cardinality(U) <= t + 1
        <5>1. CASE calm'
          <6>1. \A x, y \in U : x = y
            BY <5>1 DEF CalmInv, InFlight, Busy
          <6>2. U = {} \/ \E x : U = {x}
            <7>1. ASSUME NEW x \in U PROVE U = {x}
              BY <6>1
            <7> QED
              BY <7>1
          <6>3. Cardinality(U) = 0 \/ Cardinality(U) = 1
            BY <6>2, FS_EmptySet, FS_Singleton
          <6> QED
            BY <2>0, <6>3
        <5>2. CASE ~calm'
          <6>1. t = MaxInFlight - 1
            BY <2>0, <5>2 DEF Slack
          <6> QED
            BY <2>1, <4>2, <4>3, <6>1
        <5> QED
          BY <5>1, <5>2
      <4> QED
        BY <2>0, <3>0, <4>1, <4>3, <4>4
    <3> QED
      BY <2>c, <3>1, <3>2
  <2>4. ASSUME NEW o \in Orgs
        PROVE  Cardinality(FormationsOf(o)') + Cardinality(Admitted(o)') <= peak'[o] + t
    <3> DEFINE F == FormationsOf(o)
               W == Admitted(o)
    <3>0. /\ IsFiniteSet(F) /\ IsFiniteSet(W) /\ IsFiniteSet(Admitted(o)')
          /\ Cardinality(F) + Cardinality(W) <= peak[o] + s
          /\ formations \in [Keys -> FormationConfig \cup {NoRow}]
          /\ \A a \in Apps : <<o, a>> \in Keys
      <4>1. Admitted(o)' \subseteq Requests
        BY DEF Admitted, At
      <4> QED
        BY <2>0, <4>1, CountedFinite, FS_Subset DEF QuotaInv, TInv, TypeOK, Keys
    <3>1. CASE CreateFormationInsert(r) /\ org[r] = o
      <4>1. /\ pc[r] = "create_formation" /\ pc'[r] \notin {"get_formation", "create_formation"}
            /\ UNCHANGED org
        BY <1>0, <3>1 DEF CreateFormationInsert, Goto, local
      <4>2. r \in W /\ Admitted(o)' \subseteq W \ {r}
        BY <1>2, <3>1, <4>1 DEF Admitted, At, Moves
      <4>3. \A a \in Apps \ {app[r]} : formations'[<<o, a>>] = formations[<<o, a>>]
        BY <3>0, <3>1 DEF CreateFormationInsert, Insert, Put, Key
      <4>4. FormationsOf(o)' \subseteq F \cup {app[r]}
        BY <4>3 DEF FormationsOf, Present
      <4> QED
        BY <2>c, <3>0, <4>2, <4>4
    <3>2. CASE CreateFormationCheckQuota(r) /\ org[r] = o /\ pc'[r] = "get_formation"
      <4>1. /\ UNCHANGED formations /\ pc[r] = "list_formations"
            /\ ~QuotaReached(Cardinality(FormationsOf(org[r])), seen[r].quotas)
        BY <1>0, <3>2 DEF CreateFormationCheckQuota, Goto, tables
      <4>2. seen[r].quotas \in Nat /\ seen[r].quotas <= peak[o] /\ peak[o] \in Nat
        BY <1>0, <3>2, <4>1 DEF TInv, Located, QuotaInv, Organization
      <4>3. Cardinality(F) < peak[o]
        <5>1. Cardinality(F) \in Nat
          BY <3>0, FS_CardinalityType
        <5> QED
          BY <3>2, <4>1, <4>2, <5>1 DEF QuotaReached
      <4>4. FormationsOf(o)' \subseteq F
        BY <4>1 DEF FormationsOf, Present
      <4>5. Admitted(o)' \in SUBSET InFlight'
        BY DEF Admitted, At, InFlight
      <4>6. /\ IsFiniteSet(FormationsOf(o)') /\ Cardinality(FormationsOf(o)') <= Cardinality(F)
            /\ Cardinality(FormationsOf(o)') \in Nat /\ Cardinality(F) \in Nat
            /\ Cardinality(Admitted(o)') \in Nat
        BY <3>0, <4>4, FS_Subset, FS_CardinalityType
      <4>7. Cardinality(FormationsOf(o)') + Cardinality(Admitted(o)')
              < peak[o] + Cardinality(Admitted(o)')
        BY <4>2, <4>3, <4>6
      <4> QED
        BY <2>c, <3>0, <4>5, <4>6, <4>7
    <3>3. CASE ~(CreateFormationInsert(r) /\ org[r] = o)
               /\ ~(CreateFormationCheckQuota(r) /\ org[r] = o /\ pc'[r] = "get_formation")
      <4>1. \A a \in Apps : formations'[<<o, a>>] \in {formations[<<o, a>>], NoRow}
        <5>1. CASE CreateFormationInsert(r)
          BY <3>0, <3>3, <5>1 DEF CreateFormationInsert, Insert, Put, Key
        <5>2. ASSUME NEW x \in Orgs, DeleteOrg(r, x) \/ \E a \in Apps : DeleteFormationRow(r, x, a)
              PROVE  \A k \in Keys : formations'[k] \in {formations[k], NoRow}
          <6>1. CASE DeleteOrg(r, x)
            BY <3>0, <6>1 DEF DeleteOrg, Cascade
          <6>2. CASE \E a \in Apps : DeleteFormationRow(r, x, a)
            BY <3>0, <6>2 DEF DeleteFormationRow, Remove, Put
          <6> QED
            BY <5>2, <6>1, <6>2
        <5>3. CASE GoesOn(r) /\ ~CreateFormationInsert(r)
          BY <5>3 DEF GoesOn, CreateOrgInsert, UpdateOrgWrite, CreateFormationCheckQuota,
             CreateFormationCheckUnique, CreateFormationStoreGenesis,
             DeleteFormationGenesis, CreateSinkCheckQuota, CreateSinkInsert, CreateIdpInsert,
             CreatePolicyRuleInsert, CreateSettingInsert, ToggleWrite, Drop, tables
        <5>4. ASSUME NEW x \in Orgs, Begins(r, x), ~DeleteOrg(r, x),
                     \A a \in Apps : ~DeleteFormationRow(r, x, a)
              PROVE  UNCHANGED formations
          BY <5>4 DEF Begins, CreateOrgGet, UpdateOrgGet, CreateFormationGetOrg,
             CreateSettingGetOrg, ToggleGet, DeleteSetting, tables
        <5> QED
          BY <1>2, <3>0, <5>1, <5>2, <5>3, <5>4
      <4>2. FormationsOf(o)' \subseteq F
        BY <4>1 DEF FormationsOf, Present
      <4>3. Admitted(o)' \subseteq W
        <5>1. pc'[r] \in {"get_formation", "create_formation"} /\ org'[r] = o
              => pc[r] \in {"get_formation", "create_formation"} /\ org[r] = o
          <6>1. ASSUME NEW x \in Orgs, Begins(r, x)
                PROVE  pc'[r] \notin {"get_formation", "create_formation"}
            BY <1>0, <6>1 DEF Begins, CreateOrgGet, UpdateOrgGet, DeleteOrg, CreateFormationGetOrg,
               DeleteFormationRow, CreateSettingGetOrg, ToggleGet, DeleteSetting, Goto
          <6>2. CASE GoesOn(r)
            <7>1. org'[r] = org[r]
              BY <6>2, GoesOnMoves DEF Moves
            <7>2. \/ pc'[r] \notin {"get_formation", "create_formation"}
                  \/ CreateFormationCheckQuota(r) /\ pc'[r] = "get_formation"
                  \/ pc[r] = "get_formation"
              BY <1>0, <6>2 DEF GoesOn, CreateOrgInsert, UpdateOrgWrite, CreateFormationCheckQuota,
                 CreateFormationCheckUnique, CreateFormationInsert, CreateFormationStoreGenesis,
                 DeleteFormationGenesis, CreateSinkCheckQuota, CreateSinkInsert, CreateIdpInsert,
                 CreatePolicyRuleInsert, CreateSettingInsert, ToggleWrite, Drop, Goto
            <7> QED
              BY <3>3, <7>1, <7>2
          <6> QED
            BY <1>2, <6>1, <6>2
        <5> QED
          BY <1>2, <5>1 DEF Admitted, At, Moves
      <4> QED
        BY <2>c, <3>0, <4>2, <4>3
    <3> QED
      BY <3>1, <3>2, <3>3
  <2>5. ASSUME NEW o \in Orgs
        PROVE  Cardinality(Revivable(o)') + Cardinality(AdmittedSinks(o)') <= peak'[o] + t
    <3> DEFINE F == Revivable(o)
               W == AdmittedSinks(o)
    <3>0. /\ IsFiniteSet(F) /\ IsFiniteSet(W) /\ IsFiniteSet(AdmittedSinks(o)')
          /\ Cardinality(F) + Cardinality(W) <= peak[o] + s
          /\ settings \in [SettingKeys -> Setting \cup {NoRow}]
          /\ \A i \in SinkIds : <<o, i>> \in SettingKeys
      <4>1. AdmittedSinks(o)' \subseteq Requests
        BY DEF AdmittedSinks, At
      <4> QED
        BY <2>0, <4>1, CountedFinite, FS_Subset DEF QuotaInv, TInv, TypeOK, SettingKeys, SettingIds
    \* A toggle begins on a row that is there.
    <3>t. ASSUME NEW x \in At({"update_setting"}, o)', item'[x] \in SinkIds
          PROVE  item'[x] \in F
      <4>0. x \in Requests /\ pc'[x] = "update_setting" /\ org'[x] = o
        BY <3>t DEF At
      <4>1. CASE x # r
        <5>1. pc[x] = "update_setting" /\ org[x] = o /\ item[x] = item'[x]
          BY <1>2, <4>0, <4>1 DEF Moves
        <5> QED
          BY <3>t, <4>0, <5>1 DEF At, Revivable
      <4>2. CASE x = r
        <5>1. ~GoesOn(r)
          BY <1>0, <4>0, <4>2 DEF GoesOn, CreateOrgInsert, UpdateOrgWrite, CreateFormationCheckQuota,
             CreateFormationCheckUnique, CreateFormationInsert, CreateFormationStoreGenesis,
             DeleteFormationGenesis, CreateSinkCheckQuota, CreateSinkInsert, CreateIdpInsert,
             CreatePolicyRuleInsert, CreateSettingInsert, ToggleWrite, Drop, Goto
        <5>2. PICK y \in Orgs : Begins(r, y)
          BY <1>2, <5>1
        <5>3. PICK i, enabled : ToggleGet(r, y, i, enabled)
          <6>1. ~\/ CreateOrgGet(r, y)
                 \/ \E p \in PatchArgs : UpdateOrgGet(r, y, p)
                 \/ DeleteOrg(r, y)
                 \/ \E a \in Apps : CreateFormationGetOrg(r, y, a) \/ DeleteFormationRow(r, y, a)
                 \/ \E next \in {"list_sinks", "create_idp", "create_policy_rule"} :
                       CreateSettingGetOrg(r, y, next)
                 \/ \E i \in given : DeleteSetting(r, y, i)
            BY <1>0, <4>0, <4>2 DEF CreateOrgGet, UpdateOrgGet, DeleteOrg, CreateFormationGetOrg,
               DeleteFormationRow, CreateSettingGetOrg, DeleteSetting, Goto
          <6> QED
            BY <5>2, <6>1, Zenon DEF Begins
        <5>4. org'[r] = y /\ item'[r] = i
          <6>1. item \in [Requests -> SettingIds \cup {None}]
            BY DEF TInv, TypeOK
          <6> QED
            BY <1>0, <5>3, <6>1 DEF ToggleGet, Arrive
        <5>5. Present(settings, <<y, i>>)
          BY <1>0, <4>0, <4>2, <5>3 DEF ToggleGet, Goto
        <5> QED
          BY <3>t, <4>0, <4>2, <5>4, <5>5 DEF Revivable
      <4> QED
        BY <4>1, <4>2
    <3>1. CASE CreateSinkInsert(r) /\ org[r] = o
      <4>1. pc[r] = "create_sink" /\ pc'[r] # "create_sink" /\ UNCHANGED org
        BY <1>0, <3>1 DEF CreateSinkInsert, CreateSettingInsert, Goto, local
      <4>2. r \in W /\ AdmittedSinks(o)' \subseteq W \ {r}
        BY <1>2, <3>1, <4>1 DEF AdmittedSinks, At, Moves
      <4>3. PICK i : settings' = Insert(settings, <<o, i>>, [enabled |-> TRUE], Present(orgs, o))
        BY <3>1 DEF CreateSinkInsert, CreateSettingInsert
      <4>4. \A x \in SinkIds \ {i} : settings'[<<o, x>>] = settings[<<o, x>>]
        BY <3>0, <4>3 DEF Insert, Put
      <4>5. Revivable(o)' \subseteq F \cup {i}
        BY <3>t, <4>4 DEF Revivable, Present
      <4> QED
        BY <2>c, <3>0, <4>2, <4>5
    <3>2. CASE CreateSinkCheckQuota(r) /\ org[r] = o /\ pc'[r] = "create_sink"
      <4>1. /\ UNCHANGED settings /\ pc[r] = "list_sinks" /\ UNCHANGED <<org, item>>
            /\ ~QuotaReached(Cardinality(SinksOf(org[r])), seen[r].quotas)
        BY <1>0, <3>2 DEF CreateSinkCheckQuota, Goto, tables, local
      <4>2. seen[r].quotas \in Nat /\ seen[r].quotas <= peak[o] /\ peak[o] \in Nat
        BY <1>0, <3>2, <4>1 DEF TInv, Located, QuotaInv, Organization
      <4>3. Cardinality(SinksOf(o)) < peak[o] /\ Cardinality(SinksOf(o)) \in Nat
        <5>1. Cardinality(SinksOf(o)) \in Nat
          BY CountedFinite, FS_CardinalityType
        <5> QED
          BY <3>2, <4>1, <4>2, <5>1 DEF QuotaReached
      <4> DEFINE toggling == At({"update_setting"}, o)'
                 admitted == AdmittedSinks(o)'
      <4>4. toggling \subseteq InFlight' /\ admitted \subseteq InFlight' /\ toggling \cap admitted = {}
        BY DEF AdmittedSinks, At, InFlight
      <4>5. IsFiniteSet(toggling) /\ IsFiniteSet(admitted)
        <5>1. toggling \subseteq Requests
          BY DEF At
        <5> QED
          BY <3>0, <5>1, FS_Subset
      <4>6. \A i \in Revivable(o)' : i \in SinksOf(o) \/ \E x \in toggling : item[x] = i
        BY <4>1 DEF Revivable, SinksOf, Present
      <4> HIDE DEF toggling, admitted
      <4>7. /\ IsFiniteSet(Revivable(o)')
            /\ Cardinality(Revivable(o)') <= Cardinality(SinksOf(o)) + Cardinality(toggling)
        BY <4>5, <4>6, CountedFinite, Covered
      <4>8. /\ Cardinality(toggling \cup admitted) = Cardinality(toggling) + Cardinality(admitted)
            /\ Cardinality(toggling) \in Nat /\ Cardinality(admitted) \in Nat
            /\ Cardinality(Revivable(o)') \in Nat
        <5>1. /\ Cardinality(toggling) \in Nat /\ Cardinality(admitted) \in Nat
              /\ Cardinality(Revivable(o)') \in Nat
          BY <4>5, <4>7, FS_CardinalityType
        <5>2. Cardinality(toggling \cap admitted) = 0
          BY <4>4, FS_EmptySet
        <5>3. Cardinality(toggling \cup admitted)
                = Cardinality(toggling) + Cardinality(admitted) - Cardinality(toggling \cap admitted)
          BY <4>5, FS_Union
        <5> QED
          BY <5>1, <5>2, <5>3
      <4>9. /\ Cardinality(Revivable(o)') + Cardinality(admitted)
                  < peak[o] + Cardinality(toggling \cup admitted)
            /\ toggling \cup admitted \in SUBSET InFlight'
        BY <4>2, <4>3, <4>4, <4>7, <4>8
      <4> QED
        BY <2>c, <3>0, <4>5, <4>7, <4>9 DEF admitted
    <3>3. CASE ~(CreateSinkInsert(r) /\ org[r] = o)
               /\ ~(CreateSinkCheckQuota(r) /\ org[r] = o /\ pc'[r] = "create_sink")
      <4>1. \A i \in SinkIds : settings'[<<o, i>>] \in {settings[<<o, i>>], NoRow} \/ i \in F
        <5>1. CASE CreateSinkInsert(r)
          <6>1. PICK i \in SinkIds :
                    settings' = Insert(settings, <<org[r], i>>, [enabled |-> TRUE], Present(orgs, org[r]))
            BY <5>1 DEF CreateSinkInsert, CreateSettingInsert
          <6> QED
            BY <3>0, <3>3, <5>1, <6>1 DEF Insert, Put
        <5>2. CASE CreateIdpInsert(r) \/ CreatePolicyRuleInsert(r)
          <6>1. PICK i \in IdpIds \cup RuleIds :
                    settings' = Insert(settings, <<org[r], i>>, [enabled |-> TRUE], Present(orgs, org[r]))
            BY <5>2 DEF CreateIdpInsert, CreatePolicyRuleInsert, CreateSettingInsert
          <6>2. i \notin SinkIds
            OBVIOUS
          <6> QED
            BY <3>0, <6>1, <6>2 DEF Insert, Put
        <5>3. CASE ToggleWrite(r)
          <6>1. pc[r] = "update_setting"
            BY <5>3 DEF ToggleWrite
          <6>2. \A i \in SinkIds : <<o, i>> = <<org[r], item[r]>> => i \in F
            BY <6>1 DEF Revivable, At
          <6>3. \A i \in SinkIds : <<o, i>> # <<org[r], item[r]>> => settings'[<<o, i>>] = settings[<<o, i>>]
            BY <3>0, <5>3 DEF ToggleWrite, Update, RedbUpdate, PgUpdate, Put
          <6> QED
            BY <6>2, <6>3
        <5>4. CASE GoesOn(r) /\ ~CreateSinkInsert(r) /\ ~CreateIdpInsert(r)
                 /\ ~CreatePolicyRuleInsert(r) /\ ~ToggleWrite(r)
          <6>1. UNCHANGED settings
            BY <5>4 DEF GoesOn, CreateOrgInsert, UpdateOrgWrite, CreateFormationCheckQuota,
             CreateFormationCheckUnique, CreateFormationInsert, CreateFormationStoreGenesis,
             DeleteFormationGenesis, CreateSinkCheckQuota, Drop, tables
          <6> QED
            BY <6>1
        <5>5. ASSUME NEW x \in Orgs, Begins(r, x)
              PROVE  \A k \in SettingKeys : settings'[k] \in {settings[k], NoRow}
          <6>1. CASE DeleteOrg(r, x)
            BY <3>0, <6>1 DEF DeleteOrg, Cascade
          <6>2. CASE \E i \in given : DeleteSetting(r, x, i)
            BY <3>0, <6>2 DEF DeleteSetting, Remove, Put
          <6>3. CASE ~DeleteOrg(r, x) /\ ~\E i \in given : DeleteSetting(r, x, i)
            BY <5>5, <6>3 DEF Begins, CreateOrgGet, UpdateOrgGet, CreateFormationGetOrg,
                        DeleteFormationRow, CreateSettingGetOrg, ToggleGet, tables
          <6> QED
            BY <6>1, <6>2, <6>3
        <5> QED
          BY <1>2, <3>0, <5>1, <5>2, <5>3, <5>4, <5>5
      <4>2. Revivable(o)' \subseteq F
        <5> SUFFICES ASSUME NEW i \in Revivable(o)' PROVE i \in F
          OBVIOUS
        <5>1. CASE Present(settings', <<o, i>>)
          BY <4>1, <5>1 DEF Revivable, Present
        <5>2. CASE ~Present(settings', <<o, i>>)
          BY <3>t, <5>2 DEF Revivable, Present
        <5> QED
          BY <5>1, <5>2
      <4>3. AdmittedSinks(o)' \subseteq W
        <5>1. pc'[r] = "create_sink" /\ org'[r] = o => pc[r] = "create_sink" /\ org[r] = o
          <6>1. ASSUME NEW x \in Orgs, Begins(r, x)
                PROVE  pc'[r] # "create_sink"
            BY <1>0, <6>1 DEF Begins, CreateOrgGet, UpdateOrgGet, DeleteOrg, CreateFormationGetOrg,
               DeleteFormationRow, CreateSettingGetOrg, ToggleGet, DeleteSetting, Goto
          <6>2. CASE GoesOn(r)
            <7>1. org'[r] = org[r]
              BY <6>2, GoesOnMoves DEF Moves
            <7>2. pc'[r] # "create_sink" \/ CreateSinkCheckQuota(r)
              BY <1>0, <6>2 DEF GoesOn, CreateOrgInsert, UpdateOrgWrite, CreateFormationCheckQuota,
                 CreateFormationCheckUnique, CreateFormationInsert, CreateFormationStoreGenesis,
                 DeleteFormationGenesis, CreateSinkInsert, CreateIdpInsert,
                 CreatePolicyRuleInsert, CreateSettingInsert, ToggleWrite, Drop, Goto
            <7> QED
              BY <3>3, <7>1, <7>2
          <6> QED
            BY <1>2, <6>1, <6>2
        <5> QED
          BY <1>2, <5>1 DEF AdmittedSinks, At, Moves
      <4> QED
        BY <2>c, <3>0, <4>2, <4>3
    <3> QED
      BY <3>1, <3>2, <3>3
  <2> QED
    BY <2>0, <2>1, <2>2, <2>3, <2>4, <2>5 DEF QuotaInv, Present
<1> QED
  BY <1>1, <1>2, StepOfOne, BeginsMoves, GoesOnMoves

\* With one request at a time an organization never has more formations or
\* sinks than the largest quota it has had; with n requests at a time never
\* more than n - 1 above it, creates that pass the check together and toggles
\* that bring a deleted sink back taken together.
THEOREM QuotasHold == Spec => []QuotaRespected
<1>1. TInv /\ QuotaInv => QuotaRespected
  <2> SUFFICES ASSUME TInv, QuotaInv, NEW o \in Orgs
               PROVE  /\ Cardinality(FormationsOf(o)) <= peak[o] + Slack
                      /\ Cardinality(SinksOf(o)) <= peak[o] + Slack
    BY DEF QuotaRespected, Slack
  <2>1. SinksOf(o) \subseteq Revivable(o)
    BY DEF SinksOf, Revivable
  <2>2. /\ Cardinality(FormationsOf(o)) \in Nat /\ Cardinality(Admitted(o)) \in Nat
        /\ Cardinality(Revivable(o)) \in Nat /\ Cardinality(AdmittedSinks(o)) \in Nat
        /\ Cardinality(SinksOf(o)) \in Nat /\ Cardinality(SinksOf(o)) <= Cardinality(Revivable(o))
    BY <2>1, CountedFinite, FS_CardinalityType, FS_Subset
  <2>3. peak[o] + Slack \in Nat
    BY DEF TInv, TypeOK, Slack
  <2> QED
    BY <2>2, <2>3 DEF QuotaInv
<1> QED
  BY <1>1, TypeInit, TypeStep, CalmInit, CalmStep, QuotaInit, QuotaStep, PTL
     DEF Spec
=============================================================================
