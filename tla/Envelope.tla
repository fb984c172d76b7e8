------------------------------ MODULE Envelope ------------------------------
(***************************************************************************)
(* Envelope encryption of genesis records: which key provider a            *)
(* configuration selects, and what seal, is_envelope and open do with the  *)
(* stored bytes.                                                           *)
(*                                                                         *)
(* Bytes are the mesh they encode and the providers that have sealed them, *)
(* outermost first; bytes nobody has sealed are the encoded genesis.       *)
(* Nonces, tags and the layout of the header are left out: a record is     *)
(* what seal made, never a damaged one.                                    *)
(***************************************************************************)
EXTENDS Naturals, Sequences

CONSTANTS Keks,      \* root keys: PEAT_KEK values, KMS keys, Transit keys
          Features,  \* cargo features compiled in
          None       \* Option::None

ASSUME FeaturesAssumption == Features \subseteq {"aws-kms", "vault"}

\* The part of GatewayConfig that build_key_provider reads.
KeyConfig ==
    [kms_key_arn : Keks \cup {None}, vault_addr : Keks \cup {None},
     vault_token : BOOLEAN, kek : Keks \cup {None, "not 32 bytes of hex"}]

Plaintext == [kind |-> "plaintext", key |-> None]

Provider == [kind : {"kms", "vault", "local"}, key : Keks] \cup {Plaintext}

\* build_key_provider answers an error: the process does not start.
Refused == [kind |-> "refused", key |-> None]

KmsProvider(c) ==
    IF "aws-kms" \in Features THEN [kind |-> "kms", key |-> c.kms_key_arn] ELSE Refused

\* The token is required; the transit key has a default.
VaultProvider(c) ==
    IF "vault" \in Features /\ c.vault_token
    THEN [kind |-> "vault", key |-> c.vault_addr]
    ELSE Refused

LocalProvider(c) ==
    IF c.kek \in Keks THEN [kind |-> "local", key |-> c.kek] ELSE Refused

LocalOrPlaintext(c) == IF c.kek # None THEN LocalProvider(c) ELSE Plaintext

\* Mutant: a provider that is not compiled in is passed over.
BuildKeyProviderPassingOver(c) ==
    IF c.kms_key_arn # None /\ KmsProvider(c) # Refused THEN KmsProvider(c)
    ELSE IF c.vault_addr # None /\ VaultProvider(c) # Refused THEN VaultProvider(c)
    ELSE LocalOrPlaintext(c)

BuildKeyProvider(c) ==
    IF c.kms_key_arn # None THEN KmsProvider(c)
    ELSE IF c.vault_addr # None THEN VaultProvider(c)
    ELSE LocalOrPlaintext(c)

EncryptEnabled(provider) == provider.kind # "plaintext"

\* Whether unwrap_dek of a provider gives back a DEK that another one wrapped.
\* KMS Decrypt is not told a key: the ciphertext names it.
Unwraps(provider, wrapper) ==
    /\ provider.kind = wrapper.kind
    /\ provider.kind = "kms" \/ provider.key = wrapper.key

Seal(provider, bytes) == [bytes EXCEPT !.wraps = <<provider>> \o @]

\* Mutant: nothing is recognised as an envelope.
IsEnvelopeNever(bytes) == FALSE

IsEnvelope(bytes) == bytes.wraps # <<>>

\* open: None for bytes without the magic, an error for another provider's.
Open(provider, bytes) ==
    IF bytes.wraps = <<>> THEN [result |-> "none", bytes |-> bytes]
    ELSE IF EncryptEnabled(provider) /\ Unwraps(provider, Head(bytes.wraps))
    THEN [result |-> "some", bytes |-> [bytes EXCEPT !.wraps = Tail(@)]]
    ELSE [result |-> "error", bytes |-> bytes]

\* Mutant: no fallback for records from before encryption.
LoadGenesisSealedOnly(provider, stored) ==
    EncryptEnabled(provider) => Open(provider, stored).result = "some"

\* load_genesis answers Ok: what it ends up with is an encoded genesis.
LoadGenesis(provider, stored) ==
    IF EncryptEnabled(provider)
    THEN /\ Open(provider, stored).result # "error"
         /\ Open(provider, stored).bytes.wraps = <<>>
    ELSE stored.wraps = <<>>
=============================================================================
