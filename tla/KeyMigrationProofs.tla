------------------------- MODULE KeyMigrationProofs -------------------------
(***************************************************************************)
(* Theorems about KeyMigration, for every set of formations, requests and  *)
(* keys, every build and either backend.                                   *)
(***************************************************************************)
EXTENDS KeyMigration, SequenceTheorems, FiniteSetTheorems, TLAPS

USE BackendAssumption, MigrationAssumption, RowsAssumption

\* A configuration either stops the process or selects a provider; one that
\* names a key never falls through to the plaintext provider.
LEMMA ProviderSelected ==
    ASSUME NEW c \in KeyConfig, BuildKeyProvider(c) # Refused
    PROVE  /\ BuildKeyProvider(c) \in Provider
           /\ EncryptEnabled(BuildKeyProvider(c)) => BuildKeyProvider(c) # Plaintext
           /\ Configured(c) => EncryptEnabled(BuildKeyProvider(c))
<1> USE DEF BuildKeyProvider, KmsProvider, VaultProvider, LocalOrPlaintext, LocalProvider,
            KeyConfig, Provider, Plaintext, EncryptEnabled, Configured
<1>1. CASE c.kms_key_arn # None
  BY <1>1
<1>2. CASE c.kms_key_arn = None /\ c.vault_addr # None
  BY <1>2
<1>3. CASE c.kms_key_arn = None /\ c.vault_addr = None
  BY <1>3
<1> QED
  BY <1>1, <1>2, <1>3

\* Sealing bytes that nobody has sealed gives bytes with that one seal.
LEMMA SealPlain ==
    ASSUME NEW p \in Provider, EncryptEnabled(p), NEW b \in Genesis, b.wraps = <<>>
    PROVE  /\ Seal(p, b) = [mesh |-> b.mesh, wraps |-> <<p>>]
           /\ Seal(p, b) \in Genesis
<1>1. <<p>> \o <<>> = <<p>>
  OBVIOUS
<1>2. Seal(p, b) = [mesh |-> b.mesh, wraps |-> <<p>>]
  BY <1>1 DEF Seal, Genesis
<1>3. p \in Provider \ {Plaintext}
  BY DEF EncryptEnabled, Plaintext
<1>4. <<p>> \in Seq(Provider \ {Plaintext})
  BY <1>3
<1> QED
  BY <1>2, <1>4 DEF Genesis

-----------------------------------------------------------------------------
(* Types.                                                                   *)

\* What a request carries between its store calls.
Located ==
    \A r \in Requests :
        /\ pc[r] \in {"create_formation", "store_genesis", "delete_genesis"} => app[r] \in Apps
        /\ pc[r] \in {"create_formation", "store_genesis"} => bytes[r] \in Genesis

TInv == TypeOK /\ Located

\* The idle migrate-keys process is well-formed.
LEMMA IdleType == Idle \in Job
<1>1. Plaintext \in Provider
  BY DEF Provider
<1> QED
  BY <1>1 DEF Idle, Job

\* A counted formation leaves a well-formed job and its step alone.
LEMMA CountedType ==
    ASSUME job \in Job, NEW a \in Apps,
           NEW k \in {"migrated", "already_encrypted", "missing_genesis"}
    PROVE  /\ Counted(a, k) \in Job
           /\ Counted(a, k).step = job.step
           /\ Counted(a, k).provider = job.provider
           /\ Counted(a, k).app = job.app
           /\ Counted(a, k).sealed = job.sealed
           /\ Counted(a, k).dry_run = job.dry_run
           /\ Counted(a, k).todo = job.todo \ {a}
           /\ Counted(a, k).total = job.total + 1
           /\ Counted(a, k).migrated
                  = IF k = "migrated" THEN job.migrated + 1 ELSE job.migrated
           /\ Counted(a, k).already_encrypted
                  = IF k = "already_encrypted" THEN job.already_encrypted + 1
                                               ELSE job.already_encrypted
           /\ Counted(a, k).missing_genesis
                  = IF k = "missing_genesis" THEN job.missing_genesis + 1
                                             ELSE job.missing_genesis
<1> DEFINE one(name) == IF k = name THEN 1 ELSE 0
<1>1. one("migrated") \in Nat /\ one("already_encrypted") \in Nat /\ one("missing_genesis") \in Nat
  OBVIOUS
<1>2. /\ job.total + 1 \in Nat
      /\ job.migrated + one("migrated") \in Nat
      /\ job.already_encrypted + one("already_encrypted") \in Nat
      /\ job.missing_genesis + one("missing_genesis") \in Nat
      /\ job.todo \ {a} \in SUBSET Apps
  BY <1>1 DEF Job
<1>3. Counted(a, k) = [job EXCEPT !.todo = job.todo \ {a}, !.total = job.total + 1,
                                  !.migrated = job.migrated + one("migrated"),
                                  !.already_encrypted = job.already_encrypted + one("already_encrypted"),
                                  !.missing_genesis = job.missing_genesis + one("missing_genesis")]
  BY DEF Counted
<1> HIDE DEF one
<1>4. Counted(a, k) \in Job
  BY <1>2, <1>3, ZenonT(40) DEF Job
<1>5. /\ Counted(a, k).step = job.step
      /\ Counted(a, k).provider = job.provider
      /\ Counted(a, k).app = job.app
      /\ Counted(a, k).sealed = job.sealed
      /\ Counted(a, k).dry_run = job.dry_run
      /\ Counted(a, k).todo = job.todo \ {a}
      /\ Counted(a, k).total = job.total + 1
      /\ Counted(a, k).migrated = job.migrated + one("migrated")
      /\ Counted(a, k).already_encrypted = job.already_encrypted + one("already_encrypted")
      /\ Counted(a, k).missing_genesis = job.missing_genesis + one("missing_genesis")
  BY <1>3 DEF Job
<1> QED
  BY <1>4, <1>5 DEF one, Job

\* The types hold initially.
LEMMA TypeInit == Init => TInv
<1> SUFFICES ASSUME Init PROVE TInv
  OBVIOUS
<1>1. PICK p \in {BuildKeyProvider(c) : c \in Configs} \ {Plaintext, Refused} :
          /\ genesis \in [Apps -> {NoRow} \cup [mesh : Apps, wraps : {<<>>, <<p>>}]]
          /\ sealers = {p}
  BY DEF Init
<1>2. p \in Provider \ {Plaintext}
  BY <1>1, ProviderSelected
<1>3. <<p>> \in Seq(Provider \ {Plaintext}) /\ <<>> \in Seq(Provider \ {Plaintext})
  BY <1>2
<1>4. [mesh : Apps, wraps : {<<>>, <<p>>}] \subseteq Genesis
  BY <1>3 DEF Genesis, MeshIds
<1>5. genesis \in [Apps -> Genesis \cup {NoRow}]
  BY <1>1, <1>4
<1>6. formations \in [Apps -> MeshIds \cup {NoRow}]
  BY DEF Init, MeshIds
<1>7. job \in Job /\ job.step = "off"
  BY IdleType DEF Init, Idle
<1> QED
  BY <1>1, <1>2, <1>5, <1>6, <1>7 DEF Init, TInv, TypeOK, Located

\* Every step of either process keeps the types.
LEMMA TypeStep == TInv /\ [Next]_vars => TInv'
<1> SUFFICES ASSUME TInv, [Next]_vars PROVE TInv'
  OBVIOUS
<1>0. Idle \in Job /\ Idle.step = "off"
  BY IdleType DEF Idle
<1> USE DEF TInv, TypeOK, Located, store, requests, history, Goto
<1>1. ASSUME NEW c \in Configs, StartGateway(c)
      PROVE  TInv'
  <2>1. BuildKeyProvider(c) \in Provider /\ c # Down
    BY <1>1, ProviderSelected DEF StartGateway
  <2>2. disciplined' \in BOOLEAN
    BY <1>1, Zenon DEF StartGateway
  <2> QED
    BY <1>1, <2>1, <2>2 DEF StartGateway
<1>2. ASSUME NEW c \in Configs, NEW dry \in BOOLEAN, MigrateStart(c, dry)
      PROVE  TInv'
  <2>1. BuildKeyProvider(c) \in Provider /\ EncryptEnabled(BuildKeyProvider(c))
    BY <1>2, ProviderSelected DEF MigrateStart, MayMigrate
  <2>2. /\ job' \in Job /\ job'.step = "list" /\ job'.provider = BuildKeyProvider(c)
    BY <1>0, <1>2, <2>1 DEF MigrateStart, Job
  <2>3. disciplined' \in BOOLEAN
    BY <1>2, Zenon DEF MigrateStart
  <2> QED
    BY <1>2, <2>1, <2>2, <2>3 DEF MigrateStart
<1>3. CASE StopGateway
  BY <1>3 DEF StopGateway
<1>4. ASSUME NEW r \in Requests, NEW a \in Apps, CreateFormationSeal(r, a)
      PROVE  TInv'
  <2>1. provider \in Provider
    BY <1>4 DEF CreateFormationSeal, provider
  <2> DEFINE encoded == [mesh |-> r, wraps |-> <<>>]
  <2>2. encoded \in Genesis /\ encoded.wraps = <<>>
    BY DEF Genesis, MeshIds
  <2>3. EncryptEnabled(provider) => Seal(provider, encoded) \in Genesis
    BY <2>1, <2>2, SealPlain
  <2>4. /\ bytes' = [bytes EXCEPT ![r] = IF EncryptEnabled(provider)
                                         THEN Seal(provider, encoded) ELSE encoded]
        /\ app' = [app EXCEPT ![r] = a]
        /\ pc' = [pc EXCEPT ![r] = "create_formation"]
    BY <1>4 DEF CreateFormationSeal
  <2>5. /\ sealers' \subseteq Provider /\ keyed' \subseteq Requests
        /\ UNCHANGED <<store, gateway, starts, job, runs, report, disciplined>>
    BY <1>4, <2>1 DEF CreateFormationSeal
  <2> HIDE DEF encoded
  <2>6. /\ bytes' \in [Requests -> Genesis \cup {NoRow}] /\ bytes'[r] \in Genesis
        /\ \A x \in Requests \ {r} : bytes'[x] = bytes[x]
    BY <2>2, <2>3, <2>4
  <2> QED
    BY <2>4, <2>5, <2>6
<1>5. ASSUME NEW r \in Requests, NEW a \in Apps, DeleteFormationRow(r, a)
      PROVE  TInv'
  BY <1>5 DEF DeleteFormationRow, Remove, Put
<1>6. ASSUME NEW r \in Requests, CreateFormationInsert(r)
      PROVE  TInv'
  <2>1. formations' \in [Apps -> MeshIds \cup {NoRow}]
    BY <1>6 DEF CreateFormationInsert, Insert, Put, MeshIds
  <2> QED
    BY <1>6, <2>1 DEF CreateFormationInsert
<1>7. ASSUME NEW r \in Requests, CreateFormationStoreGenesis(r)
      PROVE  TInv'
  BY <1>7 DEF CreateFormationStoreGenesis, Put
<1>8. ASSUME NEW r \in Requests, DeleteFormationGenesis(r)
      PROVE  TInv'
  BY <1>8 DEF DeleteFormationGenesis, Remove, Put
<1>9. ASSUME NEW r \in Requests, Drop(r)
      PROVE  TInv'
  BY <1>9 DEF Drop
<1>10. CASE MigrateListFormations
  <2>1. job' \in Job /\ job'.step = "next" /\ job'.provider = job.provider
    BY <1>10 DEF MigrateListFormations, Job
  <2> QED
    BY <1>10, <2>1 DEF MigrateListFormations
<1>11. ASSUME NEW a \in Apps, MigrateSkip(a)
       PROVE  TInv'
  <2>1. job' \in Job /\ job'.step = "next" /\ job'.provider = job.provider
    BY <1>11, CountedType DEF MigrateSkip
  <2> QED
    BY <1>11, <2>1 DEF MigrateSkip
<1>12. ASSUME NEW a \in Apps, MigrateSeal(a)
       PROVE  TInv'
  <2>1. /\ genesis[a] \in Genesis /\ genesis[a].wraps = <<>>
        /\ job.provider \in Provider /\ EncryptEnabled(job.provider)
    BY <1>12 DEF MigrateSeal, IsEnvelope, Present, Job
  <2>2. Seal(job.provider, genesis[a]) \in Genesis
    BY <2>1, SealPlain
  <2>3. \/ job' = Idle
        \/ job' = [job EXCEPT !.step = "store", !.app = a, !.sealed = Seal(job.provider, genesis[a])]
    BY <1>12 DEF MigrateSeal
  <2>4. /\ job' \in Job
        /\ job'.step # "off" => job'.provider = job.provider
        /\ job'.step = "store" => job'.app \in Apps /\ job'.sealed # NoRow
    <3>1. CASE job' = Idle
      BY <1>0, <3>1
    <3>2. CASE job' = [job EXCEPT !.step = "store", !.app = a,
                                  !.sealed = Seal(job.provider, genesis[a])]
      <4>1. job' \in Job
        BY <2>2, <3>2 DEF Job
      <4>2. job'.provider = job.provider /\ job'.app = a
        BY <3>2 DEF Job
      <4>3. job'.sealed = Seal(job.provider, genesis[a])
        BY <3>2 DEF Job
      <4> QED
        BY <2>2, <4>1, <4>2, <4>3
    <3> QED
      BY <2>3, <3>1, <3>2
  <2> QED
    BY <1>12, <2>1, <2>4 DEF MigrateSeal
<1>13. CASE MigrateStore
  <2>1. job.app \in Apps /\ job.sealed \in Genesis
    BY <1>13 DEF MigrateStore, Job
  <2>2. genesis' \in [Apps -> Genesis \cup {NoRow}]
    BY <1>13, <2>1 DEF MigrateStore, Put
  <2>3. Counted(job.app, "migrated") \in Job
    BY <2>1, CountedType
  <2>4. Counted(job.app, "migrated").provider = job.provider
    BY <2>1, CountedType
  <2>5. job' \in Job /\ job'.step = "next" /\ job'.provider = job.provider
    BY <1>13, <2>3, <2>4 DEF MigrateStore, Job
  <2> QED
    BY <1>13, <2>2, <2>5 DEF MigrateStore
<1>14. CASE MigrateFinish
  <2>1. report' \in Report
    BY <1>14 DEF MigrateFinish, Report, Job
  <2> QED
    BY <1>0, <1>14, <2>1 DEF MigrateFinish
<1>15. CASE MigrateAbort
  BY <1>0, <1>15 DEF MigrateAbort
<1>16. CASE Rest \/ UNCHANGED vars
  BY <1>16 DEF Rest, vars
<1> QED
  BY <1>1, <1>2, <1>3, <1>4, <1>5, <1>6, <1>7, <1>8, <1>9, <1>10, <1>11, <1>12,
     <1>13, <1>14, <1>15, <1>16 DEF Next

\* Whatever two processes do to the genesis table, its rows stay genesis
\* records sealed by real key providers, and migrate-keys never works with the
\* provider that does not encrypt.
THEOREM TypeCorrect == Spec => []TypeOK
<1>1. Spec => []TInv
  BY TypeInit, TypeStep, PTL DEF Spec
<1>2. TInv => TypeOK
  BY DEF TInv
<1> QED
  BY <1>1, <1>2, PTL

-----------------------------------------------------------------------------
(* Sealing.                                                                 *)

\* Bytes in the clear, or with the one seal of a provider that has been used.
Once(b) == b.wraps = <<>> \/ \E p \in sealers : b.wraps = <<p>>

\* The request that made some key material has left "idle" for good.
Begun(b) == b.mesh \in Requests => pc[b.mesh] # "idle"

\* In the table, ...
RowsSealed ==
    \A a \in Apps : Present(genesis, a) =>
        /\ Once(genesis[a]) /\ Begun(genesis[a])
        /\ genesis[a].mesh \in keyed => genesis[a].wraps # <<>>

\* ... in the hands of a request between create_formation's seal and store, ...
CopiesSealed ==
    \A r \in Requests :
        /\ pc[r] \in {"create_formation", "store_genesis"} =>
              /\ Once(bytes[r]) /\ bytes[r].mesh = r
              /\ r \in keyed => bytes[r].wraps # <<>>
        /\ pc[r] = "idle" => r \notin keyed

\* ... and in those of migrate-keys between its seal and its store.
JobSealed ==
    job.step = "store" =>
        /\ \E p \in sealers : job.sealed.wraps = <<p>>
        /\ Begun(job.sealed)

SealersEncrypt == \A p \in sealers : EncryptEnabled(p)

SealInv == RowsSealed /\ CopiesSealed /\ JobSealed /\ SealersEncrypt

\* A store left by earlier gateways has the invariant.
LEMMA SealInit == Init => SealInv
<1> SUFFICES ASSUME Init PROVE SealInv
  OBVIOUS
<1>1. PICK p \in {BuildKeyProvider(c) : c \in Configs} \ {Plaintext, Refused} :
          /\ genesis \in [Apps -> {NoRow} \cup [mesh : Apps, wraps : {<<>>, <<p>>}]]
          /\ sealers = {p}
  BY DEF Init
<1>2. p \in Provider /\ p # Plaintext
  BY <1>1, ProviderSelected
<1>3. EncryptEnabled(p)
  BY <1>2 DEF EncryptEnabled, Provider, Plaintext
<1>4. \A a \in Apps : Present(genesis, a) => Once(genesis[a]) /\ genesis[a].mesh \in Apps
  BY <1>1 DEF Present, Once
<1>5. RowsSealed
  BY <1>4 DEF RowsSealed, Begun, Init
<1> QED
  BY <1>1, <1>3, <1>5 DEF SealInv, CopiesSealed, JobSealed, SealersEncrypt, Init, Idle

\* Every step keeps it.
LEMMA SealStep == TInv /\ SealInv /\ [Next]_vars => SealInv'
<1> SUFFICES ASSUME TInv, SealInv, [Next]_vars PROVE SealInv'
  OBVIOUS
<1>0. Idle.step = "off"
  BY DEF Idle
<1> USE DEF SealInv, RowsSealed, CopiesSealed, JobSealed, SealersEncrypt, Once, Begun, Present,
            store, requests, history, Goto
<1>1. ASSUME NEW c \in Configs, StartGateway(c)
      PROVE  SealInv'
  BY <1>1 DEF StartGateway
<1>2. ASSUME NEW c \in Configs, NEW dry \in BOOLEAN, MigrateStart(c, dry)
      PROVE  SealInv'
  <2>1. job'.step = "list"
    BY <1>2 DEF MigrateStart, Idle
  <2> QED
    BY <1>2, <2>1 DEF MigrateStart
<1>3. CASE StopGateway
  <2>1. \A x \in Requests : pc'[x] = IF pc[x] = "idle" THEN "idle" ELSE "done"
    BY <1>3 DEF StopGateway
  <2> QED
    BY <1>3, <2>1 DEF StopGateway
<1>4. ASSUME NEW r \in Requests, NEW a \in Apps, CreateFormationSeal(r, a)
      PROVE  SealInv'
  <2> DEFINE encoded == [mesh |-> r, wraps |-> <<>>]
             made == IF EncryptEnabled(provider) THEN Seal(provider, encoded) ELSE encoded
  <2>1. provider \in Provider
    BY <1>4 DEF CreateFormationSeal, provider, TInv, TypeOK
  <2>2. encoded \in Genesis /\ encoded.wraps = <<>> /\ encoded.mesh = r
    BY DEF Genesis, MeshIds
  <2>3. EncryptEnabled(provider) => Seal(provider, encoded) = [mesh |-> r, wraps |-> <<provider>>]
    BY <2>1, <2>2, SealPlain
  <2>4. Configured(gateway) => EncryptEnabled(provider)
    <3>1. gateway \in KeyConfig
      BY <1>4 DEF CreateFormationSeal, TInv, TypeOK
    <3>2. BuildKeyProvider(gateway) # Refused
      BY <1>4 DEF CreateFormationSeal, TInv, TypeOK, Refused, Provider, Plaintext
    <3> QED
      BY <3>1, <3>2, ProviderSelected DEF provider
  <2>5. /\ pc[r] = "idle"
        /\ bytes' = [bytes EXCEPT ![r] = made]
        /\ pc' = [pc EXCEPT ![r] = "create_formation"]
        /\ sealers' = IF EncryptEnabled(provider) THEN sealers \cup {provider} ELSE sealers
        /\ keyed' = IF Configured(gateway) THEN keyed \cup {r} ELSE keyed
        /\ UNCHANGED <<genesis, job>>
    BY <1>4 DEF CreateFormationSeal
  <2>6. /\ made.mesh = r
        /\ EncryptEnabled(provider) => made.wraps = <<provider>>
        /\ ~EncryptEnabled(provider) => made.wraps = <<>>
    BY <2>2, <2>3
  <2> HIDE DEF encoded, made
  <2>7. sealers \subseteq sealers' /\ SealersEncrypt'
    BY <2>5
  <2>8. /\ pc'[r] = "create_formation" /\ bytes'[r] = made
        /\ \A x \in Requests \ {r} : pc'[x] = pc[x] /\ bytes'[x] = bytes[x]
    BY <2>5 DEF TInv, TypeOK
  <2>9. \A x \in Requests \ {r} : x \in keyed' => x \in keyed
    BY <2>5
  <2>10. RowsSealed'
    BY <2>5, <2>7, <2>8, <2>9
  <2>11. JobSealed'
    BY <2>5, <2>7, <2>8
  <2>12. CopiesSealed'
    <3>1. ASSUME NEW x \in Requests, x # r,
                 pc'[x] \in {"create_formation", "store_genesis"}
          PROVE  /\ Once(bytes[x])' /\ bytes'[x].mesh = x
                 /\ x \in keyed' => bytes'[x].wraps # <<>>
      BY <2>7, <2>8, <2>9, <3>1
    <3>2. Once(bytes[r])' /\ bytes'[r].mesh = r
      BY <2>5, <2>6, <2>8
    <3>3. r \in keyed' => bytes'[r].wraps # <<>>
      BY <2>4, <2>5, <2>6, <2>8
    <3>4. \A x \in Requests : pc'[x] = "idle" => x \notin keyed'
      BY <2>8, <2>9
    <3> QED
      BY <3>1, <3>2, <3>3, <3>4
  <2> QED
    BY <2>7, <2>10, <2>11, <2>12
<1>5. ASSUME NEW r \in Requests, NEW a \in Apps, DeleteFormationRow(r, a)
      PROVE  SealInv'
  <2>1. /\ pc'[r] = "delete_genesis" /\ \A x \in Requests \ {r} : pc'[x] = pc[x]
        /\ pc[r] = "idle" /\ UNCHANGED <<genesis, bytes, job, sealers, keyed>>
    BY <1>5 DEF DeleteFormationRow, TInv, TypeOK
  <2> QED
    BY <2>1
<1>6. ASSUME NEW r \in Requests, CreateFormationInsert(r)
      PROVE  SealInv'
  <2>1. /\ pc'[r] \in {"store_genesis", "done"} /\ \A x \in Requests \ {r} : pc'[x] = pc[x]
        /\ pc[r] = "create_formation" /\ UNCHANGED <<genesis, bytes, job, sealers, keyed>>
    BY <1>6 DEF CreateFormationInsert, TInv, TypeOK
  <2> QED
    BY <2>1
<1>7. ASSUME NEW r \in Requests, CreateFormationStoreGenesis(r)
      PROVE  SealInv'
  <2>1. /\ pc'[r] = "done" /\ \A x \in Requests \ {r} : pc'[x] = pc[x]
        /\ pc[r] = "store_genesis" /\ UNCHANGED <<bytes, job, sealers, keyed>>
    BY <1>7 DEF CreateFormationStoreGenesis, TInv, TypeOK
  <2>2. /\ genesis'[app[r]] = bytes[r] /\ app[r] \in Apps
        /\ \A x \in Apps \ {app[r]} : genesis'[x] = genesis[x]
    BY <1>7 DEF CreateFormationStoreGenesis, Put, TInv, TypeOK, Located
  <2>3. bytes[r].mesh = r
    BY <2>1
  <2> QED
    BY <2>1, <2>2, <2>3
<1>8. ASSUME NEW r \in Requests, DeleteFormationGenesis(r)
      PROVE  SealInv'
  <2>1. /\ pc'[r] = "done" /\ \A x \in Requests \ {r} : pc'[x] = pc[x]
        /\ pc[r] = "delete_genesis" /\ UNCHANGED <<bytes, job, sealers, keyed>>
    BY <1>8 DEF DeleteFormationGenesis, TInv, TypeOK
  <2>2. \A x \in Apps : genesis'[x] = genesis[x] \/ genesis'[x] = NoRow
    BY <1>8 DEF DeleteFormationGenesis, Remove, Put, TInv, TypeOK
  <2> QED
    BY <2>1, <2>2
<1>9. ASSUME NEW r \in Requests, Drop(r)
      PROVE  SealInv'
  <2>1. /\ pc'[r] = "done" /\ \A x \in Requests \ {r} : pc'[x] = pc[x]
        /\ pc[r] # "idle" /\ UNCHANGED <<genesis, bytes, job, sealers, keyed>>
    BY <1>9 DEF Drop, TInv, TypeOK
  <2> QED
    BY <2>1
<1>10. CASE MigrateListFormations
  <2>1. job'.step = "next"
    BY <1>10 DEF MigrateListFormations, TInv, TypeOK, Job
  <2> QED
    BY <1>10, <2>1 DEF MigrateListFormations
<1>11. ASSUME NEW a \in Apps, MigrateSkip(a)
       PROVE  SealInv'
  <2>1. job'.step = "next"
    BY <1>11, CountedType DEF MigrateSkip, TInv, TypeOK
  <2> QED
    BY <1>11, <2>1 DEF MigrateSkip
<1>12. ASSUME NEW a \in Apps, MigrateSeal(a)
       PROVE  SealInv'
  <2>1. /\ genesis[a] \in Genesis /\ genesis[a].wraps = <<>> /\ Present(genesis, a)
        /\ job.provider \in Provider /\ EncryptEnabled(job.provider)
    BY <1>12 DEF MigrateSeal, IsEnvelope, TInv, TypeOK, Job
  <2>2. Seal(job.provider, genesis[a]) = [mesh |-> genesis[a].mesh, wraps |-> <<job.provider>>]
    BY <2>1, SealPlain
  <2>3. \/ job' = Idle
        \/ job' = [job EXCEPT !.step = "store", !.app = a, !.sealed = Seal(job.provider, genesis[a])]
    BY <1>12 DEF MigrateSeal
  <2>4. job'.step = "store" => job'.sealed = Seal(job.provider, genesis[a])
    <3>1. CASE job' = Idle
      BY <1>0, <3>1
    <3>2. CASE job' = [job EXCEPT !.step = "store", !.app = a,
                                  !.sealed = Seal(job.provider, genesis[a])]
      BY <3>2 DEF TInv, TypeOK, Job
    <3> QED
      BY <2>3, <3>1, <3>2
  <2>5. sealers' = sealers \cup {job.provider} /\ UNCHANGED <<genesis, pc, bytes, keyed>>
    BY <1>12 DEF MigrateSeal
  <2>6. JobSealed'
    BY <2>1, <2>2, <2>4, <2>5
  <2> QED
    BY <2>1, <2>5, <2>6
<1>13. CASE MigrateStore
  <2>1. /\ job.app \in Apps
        /\ job' = [Counted(job.app, "migrated") EXCEPT !.step = "next", !.app = None, !.sealed = NoRow]
    BY <1>13 DEF MigrateStore, TInv, TypeOK
  <2>2. Counted(job.app, "migrated") \in Job
    BY <2>1, CountedType DEF TInv, TypeOK
  <2>3. job'.step = "next"
    BY <2>1, <2>2 DEF Job
  <2>4. /\ genesis'[job.app] = job.sealed /\ \A x \in Apps \ {job.app} : genesis'[x] = genesis[x]
        /\ job.step = "store" /\ UNCHANGED <<pc, bytes, sealers, keyed>>
    BY <1>13 DEF MigrateStore, Put, TInv, TypeOK
  <2> QED
    BY <2>1, <2>3, <2>4
<1>14. CASE MigrateFinish \/ MigrateAbort
  BY <1>0, <1>14 DEF MigrateFinish, MigrateAbort
<1>15. CASE Rest \/ UNCHANGED vars
  BY <1>15 DEF Rest, vars
<1> QED
  BY <1>1, <1>2, <1>3, <1>4, <1>5, <1>6, <1>7, <1>8, <1>9, <1>10, <1>11, <1>12,
     <1>13, <1>14, <1>15 DEF Next

\* Both invariants hold throughout.
LEMMA SealAlways == Spec => [](TInv /\ SealInv)
BY TypeInit, TypeStep, SealInit, SealStep, PTL DEF Spec

\* No record is ever sealed twice, by a gateway and migrate-keys in any
\* interleaving: is_envelope is asked of the very bytes that are then sealed,
\* and what create_formation stores it has just made.
THEOREM NeverSealedTwice == Spec => []SealedOnce
<1>1. TInv /\ SealInv => SealedOnce
  <2> SUFFICES ASSUME SealInv, NEW a \in Apps, Present(genesis, a)
               PROVE  Len(genesis[a].wraps) <= 1
    BY DEF SealedOnce
  <2>1. CASE genesis[a].wraps = <<>>
    BY <2>1
  <2>2. CASE \E p \in sealers : genesis[a].wraps = <<p>>
    <3>1. PICK p \in sealers : genesis[a].wraps = <<p>>
      BY <2>2
    <3>2. Len(<<p>>) = 1
      OBVIOUS
    <3> QED
      BY <3>1, <3>2
  <2> QED
    BY <2>1, <2>2 DEF SealInv, RowsSealed, Once
<1> QED
  BY <1>1, SealAlways, PTL

\* Key material made under a configuration that names a key is never stored in
\* the clear, also not by a later start, by migrate-keys or by a build without
\* the provider's feature: such a configuration stops the gateway instead.
THEOREM ConfiguredSealed == Spec => []ConfiguredMeansSealed
<1>1. SealInv => ConfiguredMeansSealed
  BY DEF SealInv, RowsSealed, ConfiguredMeansSealed
<1> QED
  BY <1>1, SealAlways, PTL

\* A gateway whose provider opens everything that has been sealed loads every
\* record, sealed or not, at any point of a migration.
THEOREM AlwaysLoadable == Spec => []Loadable
<1>1. TInv /\ SealInv => Loadable
  <2> SUFFICES ASSUME TInv, SealInv, gateway # Down, \A s \in sealers : Unwraps(provider, s),
                      NEW a \in Apps, Present(genesis, a)
               PROVE  LoadGenesis(provider, genesis[a])
    BY DEF Loadable
  <2>1. genesis[a] \in Genesis
    BY DEF TInv, TypeOK, Present
  <2>2. CASE genesis[a].wraps = <<>>
    BY <2>2 DEF LoadGenesis, Open
  <2>3. CASE \E p \in sealers : genesis[a].wraps = <<p>>
    <3>1. PICK p \in sealers : genesis[a].wraps = <<p>>
      BY <2>3
    <3>2. EncryptEnabled(provider)
      BY <3>1 DEF SealInv, SealersEncrypt, EncryptEnabled, Unwraps
    <3>3. genesis[a].wraps # <<>> /\ Head(genesis[a].wraps) = p /\ Tail(genesis[a].wraps) = <<>>
      BY <3>1
    <3>4. Open(provider, genesis[a])
              = [result |-> "some", bytes |-> [genesis[a] EXCEPT !.wraps = Tail(genesis[a].wraps)]]
      BY <3>1, <3>2, <3>3 DEF Open
    <3>5. [genesis[a] EXCEPT !.wraps = Tail(genesis[a].wraps)].wraps = <<>>
      BY <2>1, <3>3 DEF Genesis
    <3>6. /\ Open(provider, genesis[a]).result = "some"
          /\ Open(provider, genesis[a]).bytes = [genesis[a] EXCEPT !.wraps = Tail(genesis[a].wraps)]
      BY <3>4
    <3>7. /\ Open(provider, genesis[a]).result # "error"
          /\ Open(provider, genesis[a]).bytes.wraps = <<>>
      BY <3>5, <3>6
    <3> QED
      BY <3>2, <3>7, Zenon DEF LoadGenesis
  <2> QED
    BY <2>2, <2>3 DEF SealInv, RowsSealed, Once
<1> QED
  BY <1>1, SealAlways, PTL

-----------------------------------------------------------------------------
(* The two processes apart.                                                 *)

\* The file lock of redb, or an operator who stops the gateway first.
Apart == disciplined \/ backend # "postgres"

\* A stopped gateway has no request under way, and while the processes are kept
\* apart, what migrate-keys has sealed is still what the store holds.
ExclusiveInv ==
    /\ gateway = Down => \A r \in Requests : pc[r] \in {"idle", "done"}
    /\ Apart /\ job.step # "off" => gateway = Down
    /\ Apart /\ job.step = "store" =>
          /\ Present(genesis, job.app) /\ genesis[job.app].wraps = <<>>
          /\ genesis[job.app].mesh = job.sealed.mesh

\* Neither process runs at first.
LEMMA ExclusiveInit == Init => ExclusiveInv
BY DEF Init, ExclusiveInv, Idle

\* Every step keeps them apart, and the sealed copy current.
LEMMA ExclusiveStep == TInv /\ ExclusiveInv /\ [Next]_vars => ExclusiveInv'
<1> SUFFICES ASSUME TInv, ExclusiveInv, [Next]_vars PROVE ExclusiveInv'
  OBVIOUS
<1>0. Idle.step = "off"
  BY DEF Idle
<1> USE DEF ExclusiveInv, Apart, Present, store, requests, history, Goto
<1>1. ASSUME NEW c \in Configs, StartGateway(c)
      PROVE  ExclusiveInv'
  <2>1. gateway' # Down
    BY <1>1 DEF StartGateway
  <2>2. Apart' => job.step = "off"
    BY <1>1 DEF StartGateway, MayOpen
  <2> QED
    BY <1>1, <2>1, <2>2 DEF StartGateway
<1>2. ASSUME NEW c \in Configs, NEW dry \in BOOLEAN, MigrateStart(c, dry)
      PROVE  ExclusiveInv'
  <2>1. job'.step = "list"
    BY <1>2 DEF MigrateStart, Idle
  <2>2. Apart' => gateway = Down
    BY <1>2 DEF MigrateStart, MayOpen
  <2> QED
    BY <1>2, <2>1, <2>2 DEF MigrateStart
<1>3. CASE StopGateway
  <2>1. \A x \in Requests : pc'[x] \in {"idle", "done"}
    BY <1>3 DEF StopGateway
  <2> QED
    BY <1>3, <2>1 DEF StopGateway
<1>4. ASSUME NEW r \in Requests,
             \/ \E a \in Apps : CreateFormationSeal(r, a) \/ DeleteFormationRow(r, a)
             \/ CreateFormationInsert(r)
             \/ CreateFormationStoreGenesis(r)
             \/ DeleteFormationGenesis(r)
             \/ Drop(r)
      PROVE  ExclusiveInv'
  <2>1. gateway # Down
    BY <1>4 DEF CreateFormationSeal, DeleteFormationRow, CreateFormationInsert,
                CreateFormationStoreGenesis, DeleteFormationGenesis, Drop
  <2>2. UNCHANGED <<backend, gateway, job, disciplined>>
    BY <1>4 DEF CreateFormationSeal, DeleteFormationRow, CreateFormationInsert,
                CreateFormationStoreGenesis, DeleteFormationGenesis, Drop
  <2>3. ~(Apart /\ job.step # "off")
    BY <2>1
  <2> QED
    BY <2>1, <2>2, <2>3
<1>5. CASE MigrateListFormations
  <2>1. job'.step = "next" /\ job.step = "list"
    BY <1>5 DEF MigrateListFormations, TInv, TypeOK, Job
  <2> QED
    BY <1>5, <2>1 DEF MigrateListFormations
<1>6. ASSUME NEW a \in Apps, MigrateSkip(a)
      PROVE  ExclusiveInv'
  <2>1. job'.step = "next" /\ job.step = "next"
    BY <1>6, CountedType DEF MigrateSkip, TInv, TypeOK
  <2> QED
    BY <1>6, <2>1 DEF MigrateSkip
<1>7. ASSUME NEW a \in Apps, MigrateSeal(a)
      PROVE  ExclusiveInv'
  <2>1. /\ genesis[a] \in Genesis /\ genesis[a].wraps = <<>> /\ Present(genesis, a)
        /\ job.provider \in Provider /\ EncryptEnabled(job.provider) /\ job.step = "next"
    BY <1>7 DEF MigrateSeal, IsEnvelope, TInv, TypeOK, Job
  <2>2. Seal(job.provider, genesis[a]).mesh = genesis[a].mesh
    BY <2>1, SealPlain
  <2>3. \/ job' = Idle
        \/ job' = [job EXCEPT !.step = "store", !.app = a, !.sealed = Seal(job.provider, genesis[a])]
    BY <1>7 DEF MigrateSeal
  <2>4. job'.step = "store" => job'.app = a /\ job'.sealed.mesh = genesis[a].mesh
    <3>1. CASE job' = Idle
      BY <1>0, <3>1
    <3>2. CASE job' = [job EXCEPT !.step = "store", !.app = a,
                                  !.sealed = Seal(job.provider, genesis[a])]
      BY <2>2, <3>2 DEF TInv, TypeOK, Job
    <3> QED
      BY <2>3, <3>1, <3>2
  <2> QED
    BY <1>7, <2>1, <2>4 DEF MigrateSeal
<1>8. CASE MigrateStore
  <2>1. /\ job.app \in Apps
        /\ job' = [Counted(job.app, "migrated") EXCEPT !.step = "next", !.app = None, !.sealed = NoRow]
    BY <1>8 DEF MigrateStore, TInv, TypeOK
  <2>2. Counted(job.app, "migrated") \in Job
    BY <2>1, CountedType DEF TInv, TypeOK
  <2>3. job'.step = "next" /\ job.step = "store"
    BY <1>8, <2>1, <2>2 DEF Job, MigrateStore
  <2> QED
    BY <1>8, <2>3 DEF MigrateStore
<1>9. CASE MigrateFinish \/ MigrateAbort
  BY <1>0, <1>9 DEF MigrateFinish, MigrateAbort
<1>10. CASE Rest \/ UNCHANGED vars
  BY <1>10 DEF Rest, vars
<1> QED
  BY <1>1, <1>2, <1>3, <1>4, <1>5, <1>6, <1>7, <1>8, <1>9, <1>10 DEF Next

\* migrate-keys puts a record back for the mesh it was read for: as long as the
\* file lock or the operator keeps the gateway away, no delete or re-creation
\* comes between its get_genesis and its store_genesis.
THEOREM MeshKept == Spec => MigrationKeepsMesh
<1>1. TInv /\ ExclusiveInv /\ [Next]_vars
      => [\A a \in Apps :
             job.step = "store" /\ job'.step = "next" /\ job.app = a
             => \/ Present(genesis, a) /\ genesis'[a].mesh = genesis[a].mesh
                \/ backend = "postgres" /\ ~disciplined]_vars
  <2> SUFFICES ASSUME TInv, ExclusiveInv, Next, job.step = "store", job'.step = "next",
                      NEW a \in Apps, job.app = a, Apart
               PROVE  Present(genesis, a) /\ genesis'[a].mesh = genesis[a].mesh
    BY DEF Apart
  <2>1. gateway = Down
    BY DEF ExclusiveInv
  <2>2. MigrateStore
    <3>1. \A r \in Requests : pc[r] \in {"idle", "done"}
      BY <2>1 DEF ExclusiveInv
    <3>2. ~\E c \in Configs : StartGateway(c) \/ \E dry \in BOOLEAN : MigrateStart(c, dry)
      BY DEF StartGateway, MigrateStart
    <3>3. ~MigrateAbort /\ ~MigrateFinish /\ ~MigrateListFormations
      BY DEF MigrateAbort, MigrateFinish, MigrateListFormations, Idle
    <3>4. ~\E a_1 \in Apps : MigrateSkip(a_1) \/ MigrateSeal(a_1)
      BY DEF MigrateSkip, MigrateSeal
    <3>5. job' # job
      OBVIOUS
    <3>6. ~StopGateway /\ ~Rest
      BY <3>5 DEF StopGateway, Rest, vars
    <3>7. ~\E r \in Requests :
              \/ \E a_1 \in Apps : CreateFormationSeal(r, a_1) \/ DeleteFormationRow(r, a_1)
              \/ CreateFormationInsert(r)
              \/ CreateFormationStoreGenesis(r)
              \/ DeleteFormationGenesis(r)
              \/ Drop(r)
      BY <2>1, <3>1 DEF CreateFormationSeal, DeleteFormationRow, CreateFormationInsert,
                        CreateFormationStoreGenesis, DeleteFormationGenesis, Drop
    <3> QED
      BY <3>2, <3>3, <3>4, <3>6, <3>7 DEF Next
  <2>3. genesis'[a] = job.sealed
    BY <2>2 DEF MigrateStore, Put, TInv, TypeOK
  <2> QED
    BY <2>3 DEF ExclusiveInv
<1> QED
  BY <1>1, TypeInit, TypeStep, ExclusiveInit, ExclusiveStep, PTL DEF Spec, MigrationKeepsMesh

-----------------------------------------------------------------------------
(* The summary.                                                             *)

Listed == {a \in Apps : Present(formations, a)}
SealedIn(S, table) == {a \in S : Present(table, a) /\ table[a].wraps # <<>>}
ClearIn(S, table) == {a \in S : Present(table, a) /\ table[a].wraps = <<>>}
MissingIn(S, table) == {a \in S : ~Present(table, a)}

\* The counters are right for the formations of S and a genesis table.
Tally(S, table, counts) ==
    /\ counts.total = Cardinality(S)
    /\ counts.missing_genesis = Cardinality(MissingIn(S, table))
    /\ IF counts.dry_run
       THEN /\ counts.migrated = Cardinality(ClearIn(S, table))
            /\ counts.already_encrypted = Cardinality(SealedIn(S, table))
       ELSE /\ ClearIn(S, table) = {}
            /\ counts.migrated + counts.already_encrypted = Cardinality(SealedIn(S, table))

\* Under an operator who keeps the processes apart, the running counters are
\* right for the formations dealt with, and the last summary for all of them
\* until something else is started.
CountInv ==
    disciplined =>
        /\ job.step = "list" =>
              /\ job.total = 0 /\ job.missing_genesis = 0
              /\ job.migrated = 0 /\ job.already_encrypted = 0
        /\ job.step \in {"next", "store"} =>
              job.todo \subseteq Listed /\ Tally(Listed \ job.todo, genesis, job)
        /\ job.step = "store" => job.app \in job.todo /\ ~job.dry_run
        /\ report # None => gateway = Down /\ job.step = "off" /\ Tally(Listed, genesis, report)

\* One more member counts one more.
LEMMA CountOneMore ==
    ASSUME NEW S \in SUBSET Apps, NEW a \in Apps \ S
    PROVE  /\ Cardinality(S \cup {a}) = Cardinality(S) + 1
           /\ Cardinality(S) \in Nat
<1>1. IsFiniteSet(S)
  BY FS_Subset
<1> QED
  BY <1>1, FS_AddElement, FS_CardinalityType

\* Nothing is counted at first.
LEMMA CountInit == Init => CountInv
BY DEF Init, CountInv, Idle

\* A formation that migrate-keys only reads is counted under what it is.
LEMMA SkipCounts ==
    ASSUME TInv, ExclusiveInv, CountInv, disciplined, NEW a \in Apps, MigrateSkip(a)
    PROVE  Tally(Listed \ (job.todo \ {a}), genesis, job')
<1> DEFINE S == Listed \ job.todo
           T == Listed \ (job.todo \ {a})
<1>1. /\ job.step = "next" /\ a \in job.todo /\ job.todo \subseteq Listed /\ Tally(S, genesis, job)
      /\ job \in Job
  BY DEF MigrateSkip, CountInv, TInv, TypeOK
<1>2. T = S \cup {a} /\ a \notin S /\ S \subseteq Apps
  BY <1>1 DEF Listed
<1>3. Cardinality(T) = Cardinality(S) + 1
  BY <1>2, CountOneMore
<1>4. /\ MissingIn(S, genesis) \subseteq Apps \ {a} /\ ClearIn(S, genesis) \subseteq Apps \ {a}
      /\ SealedIn(S, genesis) \subseteq Apps \ {a}
  BY <1>2 DEF MissingIn, ClearIn, SealedIn
<1>5. /\ Cardinality(MissingIn(S, genesis) \cup {a}) = Cardinality(MissingIn(S, genesis)) + 1
      /\ Cardinality(ClearIn(S, genesis) \cup {a}) = Cardinality(ClearIn(S, genesis)) + 1
      /\ Cardinality(SealedIn(S, genesis) \cup {a}) = Cardinality(SealedIn(S, genesis)) + 1
      /\ Cardinality(MissingIn(S, genesis)) \in Nat /\ Cardinality(ClearIn(S, genesis)) \in Nat
      /\ Cardinality(SealedIn(S, genesis)) \in Nat
  BY <1>4, CountOneMore
<1> HIDE DEF S, T
<1>6. CASE ~Present(genesis, a) /\ job' = Counted(a, "missing_genesis")
  <2>1. /\ MissingIn(T, genesis) = MissingIn(S, genesis) \cup {a}
        /\ ClearIn(T, genesis) = ClearIn(S, genesis) /\ SealedIn(T, genesis) = SealedIn(S, genesis)
    BY <1>2, <1>6 DEF MissingIn, ClearIn, SealedIn
  <2>2. /\ job'.total = job.total + 1 /\ job'.missing_genesis = job.missing_genesis + 1
        /\ job'.migrated = job.migrated /\ job'.already_encrypted = job.already_encrypted
        /\ job'.dry_run = job.dry_run
    BY <1>1, <1>6, CountedType
  <2> QED
    BY <1>1, <1>3, <1>5, <2>1, <2>2 DEF Tally, T
<1>7. CASE Present(genesis, a) /\ IsEnvelope(genesis[a]) /\ job' = Counted(a, "already_encrypted")
  <2>1. /\ MissingIn(T, genesis) = MissingIn(S, genesis) /\ ClearIn(T, genesis) = ClearIn(S, genesis)
        /\ SealedIn(T, genesis) = SealedIn(S, genesis) \cup {a}
    BY <1>2, <1>7 DEF MissingIn, ClearIn, SealedIn, IsEnvelope
  <2>2. /\ job'.total = job.total + 1 /\ job'.missing_genesis = job.missing_genesis
        /\ job'.migrated = job.migrated /\ job'.already_encrypted = job.already_encrypted + 1
        /\ job'.dry_run = job.dry_run
    BY <1>1, <1>7, CountedType
  <2>3. job.migrated \in Nat /\ job.already_encrypted \in Nat
    BY <1>1 DEF Job
  <2>4. job.total = Cardinality(S) /\ job.missing_genesis = Cardinality(MissingIn(S, genesis))
    BY <1>1, Zenon DEF Tally
  <2>5. job'.total = Cardinality(T) /\ job'.missing_genesis = Cardinality(MissingIn(T, genesis))
    BY <1>3, <2>1, <2>2, <2>4
  <2>6. CASE job.dry_run
    <3>1. /\ job.migrated = Cardinality(ClearIn(S, genesis))
          /\ job.already_encrypted = Cardinality(SealedIn(S, genesis))
      BY <1>1, <2>6, Zenon DEF Tally
    <3>2. /\ job'.migrated = Cardinality(ClearIn(T, genesis))
          /\ job'.already_encrypted = Cardinality(SealedIn(T, genesis))
      BY <1>5, <2>1, <2>2, <3>1
    <3> QED
      BY <2>2, <2>5, <2>6, <3>2, Zenon DEF Tally, T
  <2>7. CASE ~job.dry_run
    <3>1. /\ ClearIn(S, genesis) = {}
          /\ job.migrated + job.already_encrypted = Cardinality(SealedIn(S, genesis))
      BY <1>1, <2>7, Zenon DEF Tally
    <3>2. /\ ClearIn(T, genesis) = {}
          /\ job'.migrated + job'.already_encrypted = Cardinality(SealedIn(T, genesis))
      BY <1>5, <2>1, <2>2, <2>3, <3>1
    <3> QED
      BY <2>2, <2>5, <2>7, <3>2, Zenon DEF Tally, T
  <2> QED
    BY <2>6, <2>7
<1>8. CASE /\ Present(genesis, a) /\ ~IsEnvelope(genesis[a]) /\ job.dry_run
           /\ job' = Counted(a, "migrated")
  <2>1. /\ MissingIn(T, genesis) = MissingIn(S, genesis)
        /\ ClearIn(T, genesis) = ClearIn(S, genesis) \cup {a}
        /\ SealedIn(T, genesis) = SealedIn(S, genesis)
    BY <1>2, <1>8 DEF MissingIn, ClearIn, SealedIn, IsEnvelope
  <2>2. /\ job'.total = job.total + 1 /\ job'.missing_genesis = job.missing_genesis
        /\ job'.migrated = job.migrated + 1 /\ job'.already_encrypted = job.already_encrypted
        /\ job'.dry_run = job.dry_run
    BY <1>1, <1>8, CountedType
  <2>3. job'.dry_run
    BY <1>8, <2>2, Zenon
  <2>4. /\ job.total = Cardinality(S)
        /\ job.missing_genesis = Cardinality(MissingIn(S, genesis))
        /\ job.migrated = Cardinality(ClearIn(S, genesis))
        /\ job.already_encrypted = Cardinality(SealedIn(S, genesis))
    BY <1>1, <1>8, Zenon DEF Tally
  <2>5. /\ job'.total = Cardinality(T)
        /\ job'.missing_genesis = Cardinality(MissingIn(T, genesis))
        /\ job'.migrated = Cardinality(ClearIn(T, genesis))
        /\ job'.already_encrypted = Cardinality(SealedIn(T, genesis))
    BY <1>3, <1>5, <2>1, <2>2, <2>4
  <2> QED
    BY <2>3, <2>5, Zenon DEF Tally, T
<1> QED
  BY <1>6, <1>7, <1>8 DEF MigrateSkip

\* A formation whose record migrate-keys has sealed and stored is counted as
\* migrated, and is no longer in the clear.
LEMMA StoreCounts ==
    ASSUME TInv, SealInv, ExclusiveInv, CountInv, disciplined, MigrateStore
    PROVE  /\ job'.step = "next" /\ job'.todo = job.todo \ {job.app}
           /\ Tally(Listed \ (job.todo \ {job.app}), genesis', job')
<1> DEFINE a == job.app
           S == Listed \ job.todo
           T == Listed \ (job.todo \ {a})
<1>1. /\ job.step = "store" /\ a \in job.todo /\ job.todo \subseteq Listed /\ Tally(S, genesis, job)
      /\ job \in Job /\ a \in Apps /\ ~job.dry_run
  BY DEF MigrateStore, CountInv, TInv, TypeOK
<1>2. T = S \cup {a} /\ a \notin S /\ S \subseteq Apps
  BY <1>1 DEF Listed
<1>3. Cardinality(T) = Cardinality(S) + 1
  BY <1>1, <1>2, CountOneMore
<1>4. SealedIn(S, genesis) \subseteq Apps \ {a}
  BY <1>2 DEF SealedIn
<1>5. /\ Cardinality(SealedIn(S, genesis) \cup {a}) = Cardinality(SealedIn(S, genesis)) + 1
      /\ Cardinality(SealedIn(S, genesis)) \in Nat
  BY <1>1, <1>4, CountOneMore
<1>6. PICK p \in sealers : job.sealed.wraps = <<p>>
  BY <1>1 DEF SealInv, JobSealed
<1>7. job.sealed # NoRow /\ job.sealed.wraps # <<>>
  BY <1>1, <1>6 DEF TInv, TypeOK
<1>8. genesis' = [genesis EXCEPT ![a] = job.sealed] /\ UNCHANGED formations
  BY DEF MigrateStore, Put
<1>9. genesis'[a] = job.sealed /\ \A x \in Apps \ {a} : genesis'[x] = genesis[x]
  BY <1>1, <1>8 DEF TInv, TypeOK
<1>10. /\ job'.step = "next" /\ job'.todo = job.todo \ {a} /\ job'.dry_run = job.dry_run
       /\ job'.total = job.total + 1 /\ job'.missing_genesis = job.missing_genesis
       /\ job'.migrated = job.migrated + 1 /\ job'.already_encrypted = job.already_encrypted
  <2> DEFINE c == Counted(a, "migrated")
  <2>1. c \in Job
    BY <1>1, CountedType
  <2>2. /\ c.todo = job.todo \ {a} /\ c.dry_run = job.dry_run
        /\ c.total = job.total + 1 /\ c.missing_genesis = job.missing_genesis
        /\ c.migrated = job.migrated + 1 /\ c.already_encrypted = job.already_encrypted
    BY <1>1, CountedType
  <2>3. job' = [c EXCEPT !.step = "next", !.app = None, !.sealed = NoRow]
    BY DEF MigrateStore
  <2> HIDE DEF c
  <2> QED
    BY <2>1, <2>2, <2>3 DEF Job
<1> HIDE DEF a, S, T
<1>11. /\ MissingIn(T, genesis') = MissingIn(S, genesis)
       /\ ClearIn(T, genesis') = ClearIn(S, genesis)
       /\ SealedIn(T, genesis') = SealedIn(S, genesis) \cup {a}
  BY <1>2, <1>7, <1>9 DEF MissingIn, ClearIn, SealedIn, Present
<1>12. job.migrated \in Nat /\ job.already_encrypted \in Nat
  BY <1>1 DEF Job
<1>13. ~job'.dry_run
  BY <1>1, <1>10, Zenon
<1>14. /\ job.total = Cardinality(S)
       /\ job.missing_genesis = Cardinality(MissingIn(S, genesis))
       /\ ClearIn(S, genesis) = {}
       /\ job.migrated + job.already_encrypted = Cardinality(SealedIn(S, genesis))
  BY <1>1, Zenon DEF Tally
<1>15. /\ job'.total = Cardinality(T)
       /\ job'.missing_genesis = Cardinality(MissingIn(T, genesis'))
       /\ ClearIn(T, genesis') = {}
       /\ job'.migrated + job'.already_encrypted = Cardinality(SealedIn(T, genesis'))
  BY <1>3, <1>5, <1>10, <1>11, <1>12, <1>14
<1>16. Tally(T, genesis', job')
  BY <1>13, <1>15, Zenon DEF Tally
<1> QED
  BY <1>10, <1>16 DEF T, a

\* Every step keeps the counters right.
LEMMA CountStep == TInv /\ SealInv /\ ExclusiveInv /\ CountInv /\ [Next]_vars => CountInv'
<1> SUFFICES ASSUME TInv, SealInv, ExclusiveInv, CountInv, [Next]_vars, disciplined' = TRUE
             PROVE  CountInv'
  <2>1. TInv' => disciplined' \in BOOLEAN
    BY DEF TInv, TypeOK
  <2> QED
    BY <2>1, TypeStep DEF CountInv
<1>0. Idle.step = "off"
  BY DEF Idle
<1> USE DEF CountInv, store, requests, history
<1>1. ASSUME NEW c \in Configs, StartGateway(c)
      PROVE  CountInv'
  <2>1. job.step = "off" /\ job' = job /\ report' = None
    BY <1>1 DEF StartGateway
  <2> QED
    BY <2>1
<1>2. ASSUME NEW c \in Configs, NEW dry \in BOOLEAN, MigrateStart(c, dry)
      PROVE  CountInv'
  <2>1. /\ job'.step = "list" /\ job'.total = 0 /\ job'.missing_genesis = 0
        /\ job'.migrated = 0 /\ job'.already_encrypted = 0
    BY <1>2 DEF MigrateStart, Idle
  <2> QED
    BY <1>2, <2>1 DEF MigrateStart
<1>3. CASE StopGateway
  <2>1. /\ gateway' = Down /\ UNCHANGED <<formations, genesis, job, report, disciplined>>
    BY <1>3 DEF StopGateway
  <2> QED
    BY <2>1 DEF Listed, Tally
<1>4. ASSUME NEW r \in Requests,
             \/ \E a \in Apps : CreateFormationSeal(r, a) \/ DeleteFormationRow(r, a)
             \/ CreateFormationInsert(r)
             \/ CreateFormationStoreGenesis(r)
             \/ DeleteFormationGenesis(r)
             \/ Drop(r)
      PROVE  CountInv'
  <2>1. gateway # Down
    BY <1>4 DEF CreateFormationSeal, DeleteFormationRow, CreateFormationInsert,
                CreateFormationStoreGenesis, DeleteFormationGenesis, Drop, ExclusiveInv
  <2>2. UNCHANGED <<gateway, job, report, disciplined>>
    BY <1>4 DEF CreateFormationSeal, DeleteFormationRow, CreateFormationInsert,
                CreateFormationStoreGenesis, DeleteFormationGenesis, Drop
  <2>3. job.step = "off" /\ report = None
    BY <2>1, <2>2 DEF ExclusiveInv, Apart
  <2> QED
    BY <2>2, <2>3
<1>5. CASE MigrateListFormations
  <2>1. /\ job'.step = "next" /\ job'.todo = Listed /\ job'.total = 0 /\ job'.missing_genesis = 0
        /\ job'.migrated = 0 /\ job'.already_encrypted = 0 /\ job.step = "list"
        /\ report = None /\ UNCHANGED <<formations, genesis, report>>
    BY <1>5 DEF MigrateListFormations, TInv, TypeOK, Job, Listed
  <2>2. Listed' = Listed /\ Listed \ Listed = {}
    BY <2>1 DEF Listed, Present
  <2>3. MissingIn({}, genesis) = {} /\ ClearIn({}, genesis) = {} /\ SealedIn({}, genesis) = {}
    BY DEF MissingIn, ClearIn, SealedIn
  <2>4. Tally({}, genesis, job')
    BY <2>1, <2>3, FS_EmptySet DEF Tally
  <2> QED
    BY <2>1, <2>2, <2>4
<1>6. ASSUME NEW a \in Apps, MigrateSkip(a)
      PROVE  CountInv'
  <2>1. job'.step = "next" /\ job.step = "next" /\ job'.todo = job.todo \ {a}
    BY <1>6, CountedType DEF MigrateSkip, TInv, TypeOK
  <2>2. report = None /\ UNCHANGED <<formations, genesis, report, disciplined>>
    BY <1>6, <2>1 DEF MigrateSkip
  <2>3. Listed' = Listed
    BY <2>2 DEF Listed, Present
  <2>4. Tally(Listed \ (job.todo \ {a}), genesis, job')
    BY <1>6, <2>2, SkipCounts
  <2> QED
    BY <2>1, <2>2, <2>3, <2>4
<1>7. ASSUME NEW a \in Apps, MigrateSeal(a)
      PROVE  CountInv'
  <2>1. /\ a \in job.todo /\ ~job.dry_run /\ job.step = "next" /\ report = None
        /\ UNCHANGED <<formations, genesis, report, disciplined>>
    BY <1>7 DEF MigrateSeal
  <2>2. Listed' = Listed
    BY <2>1 DEF Listed, Present
  <2>3. CASE job' = Idle
    BY <1>0, <2>1, <2>3
  <2>4. CASE job' = [job EXCEPT !.step = "store", !.app = a,
                                !.sealed = Seal(job.provider, genesis[a])]
    <3>1. /\ job'.step = "store" /\ job'.app = a /\ job'.todo = job.todo /\ job'.total = job.total
          /\ job'.missing_genesis = job.missing_genesis /\ job'.migrated = job.migrated
          /\ job'.already_encrypted = job.already_encrypted /\ job'.dry_run = job.dry_run
      BY <2>4 DEF TInv, TypeOK, Job
    <3>2. Tally(Listed \ job.todo, genesis, job)
      BY <2>1
    <3>3. Tally(Listed \ job.todo, genesis, job')
      BY <3>1, <3>2, Zenon DEF Tally
    <3>4. ~job'.dry_run
      BY <2>1, <3>1, Zenon
    <3> QED
      BY <2>1, <2>2, <3>1, <3>3, <3>4
  <2> QED
    BY <1>7, <2>3, <2>4 DEF MigrateSeal
<1>8. CASE MigrateStore
  <2>1. /\ job.step = "store" /\ report = None
        /\ UNCHANGED <<formations, report, disciplined>>
    BY <1>8 DEF MigrateStore
  <2>2. Listed' = Listed
    BY <2>1 DEF Listed, Present
  <2>3. /\ job'.step = "next" /\ job'.todo = job.todo \ {job.app}
        /\ Tally(Listed \ (job.todo \ {job.app}), genesis', job')
    BY <1>8, <2>1, StoreCounts
  <2> QED
    BY <2>1, <2>2, <2>3
<1>9. CASE MigrateFinish
  <2>1. /\ job.step = "next" /\ job.todo = {} /\ job' = Idle
        /\ UNCHANGED <<formations, genesis, gateway, disciplined>>
    BY <1>9 DEF MigrateFinish
  <2>2. Listed' = Listed /\ Listed \ {} = Listed
    BY <2>1 DEF Listed, Present
  <2>3. /\ report'.total = job.total /\ report'.dry_run = job.dry_run
        /\ report'.missing_genesis = job.missing_genesis /\ report'.migrated = job.migrated
        /\ report'.already_encrypted = job.already_encrypted
    BY <1>9 DEF MigrateFinish
  <2>4. Tally(Listed, genesis, job)
    BY <2>1, <2>2
  <2>5. Tally(Listed, genesis, report')
    BY <2>3, <2>4, Zenon DEF Tally
  <2>6. gateway = Down
    BY <2>1 DEF ExclusiveInv, Apart
  <2> QED
    BY <1>0, <2>1, <2>2, <2>5, <2>6
<1>10. CASE MigrateAbort
  BY <1>0, <1>10 DEF MigrateAbort
<1>11. CASE Rest \/ UNCHANGED vars
  <2>1. UNCHANGED <<formations, genesis, gateway, job, report, disciplined>>
    BY <1>11 DEF Rest, vars
  <2> QED
    BY <2>1 DEF Listed, Tally
<1> QED
  BY <1>1, <1>2, <1>3, <1>4, <1>5, <1>6, <1>7, <1>8, <1>9, <1>10, <1>11 DEF Next

\* The summary migrate-keys prints agrees with the store for any number of
\* formations: the counts add up, and after a real run nothing is left in the
\* clear, whatever earlier runs had sealed before they were killed.
THEOREM ReportIsTrue == Spec => []ReportTrue
<1>1. CountInv => ReportTrue
  <2> SUFFICES ASSUME CountInv, report # None, disciplined
               PROVE  ReportTrue
    BY DEF ReportTrue
  <2>1. Tally(Listed, genesis, report)
    BY DEF CountInv
  <2>2. Listed \ (SealedIn(Listed, genesis) \cup ClearIn(Listed, genesis)) = MissingIn(Listed, genesis)
    BY DEF SealedIn, ClearIn, MissingIn
  <2> QED
    BY <2>1, <2>2 DEF ReportTrue, Tally, Listed, SealedIn, ClearIn
<1> QED
  BY <1>1, TypeInit, TypeStep, SealInit, SealStep, ExclusiveInit, ExclusiveStep,
     CountInit, CountStep, PTL DEF Spec

=============================================================================
