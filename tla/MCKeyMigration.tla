--------------------------- MODULE MCKeyMigration ---------------------------
(* Instances of KeyMigration for TLC.                                       *)
EXTENDS KeyMigration, TLC

CONSTANTS a1, a2, k1, k2, r1, r2

NoKey == [kms_key_arn |-> None, vault_addr |-> None, vault_token |-> FALSE, kek |-> None]

\* No key at all, a local KEK, one that is malformed, two KMS keys, and a Vault
\* address in a build without the vault feature.
SixConfigs ==
    {NoKey, [NoKey EXCEPT !.kek = k1], [NoKey EXCEPT !.kek = "not 32 bytes of hex"],
     [NoKey EXCEPT !.kms_key_arn = k1], [NoKey EXCEPT !.kms_key_arn = k2],
     [NoKey EXCEPT !.vault_addr = k1, !.vault_token = TRUE]}

Symmetry == Permutations(Requests) \cup Permutations(Apps)
=============================================================================
