------------------------------- MODULE Tokens -------------------------------
(***************************************************************************)
(* Enrollment tokens of one organization: create_token, revoke_token,      *)
(* delete_token and validate_and_consume_token of the TenantManager, run   *)
(* by concurrent HTTP requests over one of the two storage backends.       *)
(*                                                                         *)
(* A request is a process that performs one call.  Every store call is one *)
(* step; what the request has read stays in its local copy until it writes *)
(* that copy back, whole.  Nothing between the read and the write holds a  *)
(* lock.  A request may also stop at any await: the store answers an       *)
(* error, the client goes away, or the process dies (Drop).                *)
(***************************************************************************)
EXTENDS Naturals, FiniteSets, Storage

CONSTANTS TokenIds,      \* token ids OsRng may hand out
          Apps,          \* formation names
          Requests,      \* requests, each served at most once
          MaxUsesArgs,   \* values of max_uses a create request may carry
          ExpiryArgs,    \* values of expires_at a create request may carry
          None,          \* Option::None
          MaxClock,      \* bound on the clock
          MaxInFlight    \* bound on requests in progress at the same time

ASSUME OptionAssumption ==
    /\ None \notin Nat
    /\ MaxUsesArgs \subseteq Nat \cup {None}
    /\ ExpiryArgs \subseteq Nat \cup {None}
    /\ MaxClock \in Nat

EnrollmentToken ==
    [app_id     : Apps,
     max_uses   : Nat \cup {None},
     uses       : Nat,
     expires_at : Nat \cup {None},
     revoked    : BOOLEAN]

ASSUME NoRowAssumption == NoRow \notin EnrollmentToken

VARIABLES orgLive,     \* the org's row exists
          formations,  \* names of the formations whose rows exist
          tokens,      \* the token table
          now,         \* the wall clock, in ticks
          pc,          \* where each request is
          tok, app,    \* the token and the formation a request names
          copy,        \* the token as a request has read it
          start,       \* history: the clock when a request arrived
          calm,        \* history: no request has arrived while another ran
          issued,      \* history: token ids that have been given out
          consumed,    \* history: requests whose consume reached the store
          granted,     \* history: requests whose consume answered Ok
          revocations  \* history: tokens whose revocation reached the store

store == <<backend, orgLive, formations, tokens>>
local == <<tok, app, copy, start, calm>>
history == <<issued, consumed, granted, revocations>>
vars == <<store, now, pc, local, history>>

Steps == {"idle", "create_get_formation", "create_insert", "consume_check",
          "consume_write", "consume_return", "revoke_write", "done"}

TypeOK ==
    /\ backend \in Backends
    /\ orgLive \in BOOLEAN
    /\ formations \subseteq Apps
    /\ tokens \in [TokenIds -> EnrollmentToken \cup {NoRow}]
    /\ now \in Nat
    /\ pc \in [Requests -> Steps]
    /\ tok \in [Requests -> TokenIds \cup {None}]
    /\ app \in [Requests -> Apps \cup {None}]
    /\ copy \in [Requests -> EnrollmentToken \cup {NoRow}]
    /\ start \in [Requests -> Nat]
    /\ calm \in BOOLEAN
    /\ issued \subseteq TokenIds
    /\ consumed \in [TokenIds -> SUBSET Requests]
    /\ granted \in [TokenIds -> SUBSET Requests]
    /\ revocations \subseteq TokenIds

NewToken(a, m, e) ==
    [app_id |-> a, max_uses |-> m, uses |-> 0, expires_at |-> e, revoked |-> FALSE]

NewTokens ==
    [app_id : Apps, max_uses : MaxUsesArgs, uses : {0},
     expires_at : ExpiryArgs, revoked : {FALSE}]

\* The gateway starts over a store in which some tokens are already issued.
Init ==
    /\ backend \in Backends
    /\ orgLive = TRUE
    /\ formations = Apps
    /\ tokens \in [TokenIds -> NewTokens \cup {NoRow}]
    /\ now = 0
    /\ pc = [r \in Requests |-> "idle"]
    /\ tok = [r \in Requests |-> None]
    /\ app = [r \in Requests |-> None]
    /\ copy = [r \in Requests |-> NoRow]
    /\ start = [r \in Requests |-> 0]
    /\ calm = TRUE
    /\ issued = {t \in TokenIds : Present(tokens, t)}
    /\ consumed = [t \in TokenIds |-> {}]
    /\ granted = [t \in TokenIds |-> {}]
    /\ revocations = {}

InFlight == {r \in Requests : pc[r] \notin {"idle", "done"}}

Goto(r, step) == pc' = [pc EXCEPT ![r] = step]

Arrive(r) ==
    /\ pc[r] = "idle"
    /\ Cardinality(InFlight) < MaxInFlight
    /\ start' = [start EXCEPT ![r] = now]
    /\ calm' = (calm /\ InFlight = {})

-----------------------------------------------------------------------------
(* create_token: verify the org, verify the formation, insert a fresh row.  *)

CreateTokenGetOrg(r, a) ==
    /\ Arrive(r)
    /\ app' = [app EXCEPT ![r] = a]
    /\ Goto(r, IF orgLive THEN "create_get_formation" ELSE "done")
    /\ UNCHANGED <<store, now, tok, copy, history>>

CreateTokenGetFormation(r) ==
    /\ pc[r] = "create_get_formation"
    /\ Goto(r, IF app[r] \in formations THEN "create_insert" ELSE "done")
    /\ UNCHANGED <<store, now, local, history>>

\* Mutant: ids are short enough to collide.
CollidingIds == TokenIds

\* OsRng fills 16 bytes: an id that has never been handed out before.
FreshIds == TokenIds \ issued

CreateTokenInsert(r) ==
    /\ pc[r] = "create_insert"
    /\ \E t \in FreshIds, m \in MaxUsesArgs, e \in ExpiryArgs :
          /\ tokens' = Insert(tokens, t, NewToken(app[r], m, e), orgLive)
          /\ issued' = IF InsertOk(tokens, t, orgLive) THEN issued \cup {t} ELSE issued
    /\ Goto(r, "done")
    /\ UNCHANGED <<backend, orgLive, formations, now, local, consumed, granted, revocations>>

-----------------------------------------------------------------------------
(* validate_and_consume_token: read the row, check the copy, write it back. *)

ConsumeGet(r, t, a) ==
    /\ Arrive(r)
    /\ tok' = [tok EXCEPT ![r] = t]
    /\ app' = [app EXCEPT ![r] = a]
    /\ copy' = [copy EXCEPT ![r] = tokens[t]]
    /\ Goto(r, IF Present(tokens, t) THEN "consume_check" ELSE "done")
    /\ UNCHANGED <<store, now, history>>

\* Mutant: expires_at is compared with nothing.
ExpiredNever(token, time) == FALSE

Expired(token, time) == token.expires_at # None /\ time > token.expires_at

\* Mutant: one use too many.
ExhaustedLate(token) == token.max_uses # None /\ token.uses > token.max_uses

Exhausted(token) == token.max_uses # None /\ token.uses >= token.max_uses

Valid(token, a, time) ==
    /\ token.app_id = a
    /\ ~token.revoked
    /\ ~Expired(token, time)
    /\ ~Exhausted(token)

ConsumeCheck(r) ==
    /\ pc[r] = "consume_check"
    /\ Goto(r, IF Valid(copy[r], app[r], now) THEN "consume_write" ELSE "done")
    /\ UNCHANGED <<store, now, local, history>>

\* Mutant: the counter runs down instead of up.
ConsumeDown(token) == [token EXCEPT !.uses = @ - 1]

\* Mutant: the counter is persisted twice for one consume.
ConsumeTwice(token) == [token EXCEPT !.uses = @ + 2]

Consume(token) == [token EXCEPT !.uses = @ + 1]

UpdateToken(t, token) == Update(tokens, t, token)

ConsumeWrite(r) ==
    /\ pc[r] = "consume_write"
    /\ tokens' = UpdateToken(tok[r], Consume(copy[r]))
    /\ consumed' = [consumed EXCEPT ![tok[r]] = @ \cup {r}]
    /\ Goto(r, "consume_return")
    /\ UNCHANGED <<backend, orgLive, formations, now, local, issued, granted, revocations>>

\* validate_and_consume_token answers Ok; the enrollment is approved.
ConsumeReturn(r) ==
    /\ pc[r] = "consume_return"
    /\ granted' = [granted EXCEPT ![tok[r]] = @ \cup {r}]
    /\ Goto(r, "done")
    /\ UNCHANGED <<store, now, local, issued, consumed, revocations>>

-----------------------------------------------------------------------------
(* revoke_token: read the row, refuse a second revocation, write it back.   *)

Revocable(t) == Present(tokens, t) /\ ~tokens[t].revoked

RevokeGet(r, t) ==
    /\ Arrive(r)
    /\ tok' = [tok EXCEPT ![r] = t]
    /\ copy' = [copy EXCEPT ![r] = tokens[t]]
    /\ Goto(r, IF Revocable(t) THEN "revoke_write" ELSE "done")
    /\ UNCHANGED <<store, now, app, history>>

RevokeWrite(r) ==
    /\ pc[r] = "revoke_write"
    /\ tokens' = UpdateToken(tok[r], [copy[r] EXCEPT !.revoked = TRUE])
    /\ revocations' = revocations \cup {tok[r]}
    /\ Goto(r, "done")
    /\ UNCHANGED <<backend, orgLive, formations, now, local, issued, consumed, granted>>

-----------------------------------------------------------------------------
(* Calls that are one store transaction.                                    *)

DeleteToken(r, t) ==
    /\ Arrive(r)
    /\ tokens' = Remove(tokens, t)
    /\ Goto(r, "done")
    /\ UNCHANGED <<backend, orgLive, formations, now, tok, app, copy, history>>

DeleteOrg(r) ==
    /\ Arrive(r)
    /\ orgLive' = FALSE
    /\ formations' = IF backend = "redb" \/ orgLive THEN {} ELSE formations
    /\ tokens' = CascadeDelete(tokens, orgLive)
    /\ Goto(r, "done")
    /\ UNCHANGED <<backend, now, tok, app, copy, history>>

\* The write that ends create_org, create_formation; delete_formation removes
\* the formation's row and leaves its tokens.
CreateOrg(r) ==
    /\ Arrive(r)
    /\ ~orgLive
    /\ orgLive' = TRUE
    /\ Goto(r, "done")
    /\ UNCHANGED <<backend, formations, tokens, now, tok, app, copy, history>>

CreateFormation(r, a) ==
    /\ Arrive(r)
    /\ orgLive
    /\ formations' = formations \cup {a}
    /\ Goto(r, "done")
    /\ UNCHANGED <<backend, orgLive, tokens, now, tok, app, copy, history>>

DeleteFormation(r, a) ==
    /\ Arrive(r)
    /\ formations' = formations \ {a}
    /\ Goto(r, "done")
    /\ UNCHANGED <<backend, orgLive, tokens, now, tok, app, copy, history>>

-----------------------------------------------------------------------------
\* A store error, a dropped handler future or a crash ends the request here.
Drop(r) ==
    /\ r \in InFlight
    /\ Goto(r, "done")
    /\ UNCHANGED <<store, now, local, history>>

Tick ==
    /\ now < MaxClock
    /\ now' = now + 1
    /\ UNCHANGED <<store, pc, local, history>>

AllServed ==
    /\ \A r \in Requests : pc[r] = "done"
    /\ UNCHANGED vars

Next ==
    \/ \E r \in Requests :
          \/ \E a \in Apps : \/ CreateTokenGetOrg(r, a)
                             \/ CreateFormation(r, a)
                             \/ DeleteFormation(r, a)
          \/ CreateTokenGetFormation(r)
          \/ CreateTokenInsert(r)
          \/ \E t \in TokenIds : \/ \E a \in Apps : ConsumeGet(r, t, a)
                                 \/ RevokeGet(r, t)
                                 \/ DeleteToken(r, t)
          \/ ConsumeCheck(r)
          \/ ConsumeWrite(r)
          \/ ConsumeReturn(r)
          \/ RevokeWrite(r)
          \/ DeleteOrg(r)
          \/ CreateOrg(r)
          \/ Drop(r)
    \/ Tick
    \/ AllServed

Spec == Init /\ [][Next]_vars
-----------------------------------------------------------------------------
(* What the token calls promise.                                            *)

\* A persisted token never records more uses than its max_uses, however many
\* requests write stale copies of it back (validate_and_consume_token).
UsesWithinMax ==
    \A t \in TokenIds :
        Present(tokens, t) /\ tokens[t].max_uses # None
            => tokens[t].uses <= tokens[t].max_uses

\* The stored count never runs ahead of the consumes that reached the store:
\* lost updates of validate_and_consume_token can only make it lag behind.
UsesAccountedFor ==
    \A t \in TokenIds :
        Present(tokens, t) => tokens[t].uses <= Cardinality(consumed[t])

\* An approval was given on a copy of a token of the right formation, that was
\* not revoked, had a use left, and had not expired when the request arrived.
GrantsJustified ==
    \A t \in TokenIds : \A r \in granted[t] :
        /\ copy[r].app_id = app[r]
        /\ ~copy[r].revoked
        /\ copy[r].expires_at # None => start[r] <= copy[r].expires_at
        /\ copy[r].max_uses # None => copy[r].uses < copy[r].max_uses

\* Requests that will, or may, write back the copy of token t they have read.
Writers(t) ==
    {r \in Requests : /\ tok[r] = t
                      /\ pc[r] \in {"consume_check", "consume_write", "revoke_write"}}

\* A revoked token loses its revocation only to a request that had read it
\* before revoke_token wrote: with no such request it stays revoked or goes.
RevocationHolds ==
    [][\A t \in TokenIds :
          /\ Present(tokens, t) /\ tokens[t].revoked
          /\ \A r \in Writers(t) : copy[r].revoked
          => ~Present(tokens', t) \/ tokens'[t].revoked]_vars

\* A deleted token comes back only through redb, and only by the hand of a
\* request that had read it before delete_token or delete_org removed it.
DeletionHolds ==
    [][\A t \in issued :
          ~Present(tokens, t) /\ (backend = "postgres" \/ Writers(t) = {})
              => ~Present(tokens', t)]_vars

\* Over Postgres no token outlives its organization: the foreign key against a
\* create_token whose checks delete_org has overtaken, the cascade for the rest.
NoOrphanTokens ==
    backend = "postgres" /\ ~orgLive => \A t \in TokenIds : ~Present(tokens, t)

\* "not over max_uses": a token with max_uses = n approves at most n requests
\* (the doc comment of validate_and_consume_token).
GrantsWithinMax ==
    \A t \in TokenIds :
        Present(tokens, t) /\ tokens[t].max_uses # None
            => Cardinality(granted[t]) <= tokens[t].max_uses

\* Once revoke_token has written, the token is listed as revoked for as long
\* as it is listed at all (revoked_token_still_visible_in_list).
RevokedStaysRevoked ==
    \A t \in revocations : Present(tokens, t) => tokens[t].revoked

-----------------------------------------------------------------------------
(* Until two requests overlap a token is the atomic ledger of TokenLedger.  *)

Status ==
    [t \in TokenIds |->
        IF t \notin issued THEN "fresh"
        ELSE IF Present(tokens, t) /\ ~tokens[t].revoked THEN "live" ELSE "retired"]

Budget ==
    [t \in TokenIds |->
        IF Status[t] # "live" THEN 0
        ELSE IF tokens[t].max_uses = None THEN None
        ELSE tokens[t].max_uses - tokens[t].uses]

Ledger == INSTANCE TokenLedger
              WITH status <- Status, budget <- Budget, redeemed <- consumed, kept <- calm

\* Every step of the token calls is a step of the ledger, or changes nothing
\* that the ledger sees, up to the first arrival of a request during another.
RefinesLedger == Ledger!Spec
=============================================================================
