----------------------------- MODULE Enrollment -----------------------------
(***************************************************************************)
(* The enroll handler for one formation: rate limit, enrollment policy,    *)
(* enrollment token or identity provider, policy rules, audit entry and    *)
(* certificate.  Requests overlap, and meanwhile an administrator deletes  *)
(* and recreates the formation, changes policy rules, switches the         *)
(* identity provider or deletes the organization, one call at a time.      *)
(*                                                                         *)
(* validate_and_consume_token is a step that answers Ok or an error (the   *)
(* module Tokens has its inside); the identity provider and the mesh       *)
(* library that signs certificates are outside this repository.            *)
(***************************************************************************)
EXTENDS Integers, FiniteSets, Storage

CONSTANTS Requests,     \* requests, each served at most once
          Policies,     \* enrollment policies a formation is created with
          RuleIds,      \* ids of policy rules, in the order they are listed
          Priorities,   \* values of a rule's priority
          Claims,       \* claims an identity provider may vouch for
          Limit,        \* quotas.max_enrollments_per_hour
          Window,       \* ticks of the clock an audit entry is counted after its own
          Faults,       \* whether store calls may fail
          MaxClock,     \* bound on the clock
          MaxChanges,   \* bound on the administrator's changes
          MaxInFlight   \* bound on requests in progress at the same time

ASSUME EnrollmentAssumption ==
    /\ RuleIds \subseteq Nat /\ Priorities \subseteq Nat
    /\ {Limit, Window, MaxClock, MaxChanges} \subseteq Nat
    /\ MaxInFlight \in Nat \ {0}
    /\ Policies \subseteq {"Open", "Controlled", "Strict"}
    /\ Faults \in BOOLEAN
    /\ IsFiniteSet(Requests)

\* Mesh n is the mesh of the formation that change n created; 0 was there before.
Meshes == 0..MaxChanges
Time == 0..MaxClock
MeshTier == {"Endpoint", "Authority"}

FormationConfig == [mesh : Meshes, policy : Policies]
PolicyRule == [id : RuleIds, claim : Claims, tier : MeshTier, priority : Priorities]
AuditEntry == [req : Requests, time : Time]

ASSUME NoRowAssumption == NoRow \notin FormationConfig \cup PolicyRule \cup Meshes

Steps == {"idle", "count_recent", "consume_token", "list_idps", "introspect",
          "list_policy_rules", "append_audit", "issue", "done"}

\* What the handler holds of a request, and what is remembered of it.
EnrollRequest ==
    [pc       : Steps,
     answer   : {"none", "ok", "refused", "500"},   \* refused: 400, 401, 403, 429
     bearer   : {"none", "token", "oidc"},
     read     : FormationConfig \cup {NoRow},
     since    : Time,                        \* one_hour_ago
     claims   : SUBSET Claims,
     tier     : MeshTier,
     stamp    : Time,                        \* timestamp_ms of its audit entry
     cert     : Meshes \cup {NoRow},         \* the mesh it has a certificate of
     consumed : BOOLEAN,                     \* its enrollment token was consumed
     ever     : SUBSET PolicyRule,  \* rules stored at some time from the question to
     always   : SUBSET PolicyRule]  \* the IdP to the decision, and during all of it

VARIABLES orgLive, formation, genesis,   \* the org's row, the formation's two rows
          rules, idp, audit,      \* the other tables of the org
          adminStep,  \* "idle", or the second write of the administrator's call
          changes, now,
          req         \* the requests

tables == <<backend, orgLive, formation, genesis, rules, idp, audit>>
admin == <<adminStep, changes>>
vars == <<tables, admin, now, req>>

TypeOK ==
    /\ backend \in Backends
    /\ orgLive \in BOOLEAN /\ idp \in {"none", "enabled", "disabled"}
    /\ formation \in FormationConfig \cup {NoRow}
    /\ genesis \in Meshes \cup {NoRow}
    /\ rules \in [RuleIds -> PolicyRule \cup {NoRow}]
    /\ audit \subseteq AuditEntry
    /\ adminStep \in {"idle", "store_genesis", "delete_genesis"}
    /\ changes \in 0..MaxChanges /\ now \in Time
    /\ req \in [Requests -> EnrollRequest]

Blank == [pc |-> "idle", answer |-> "none", bearer |-> "none", read |-> NoRow,
          since |-> 0, claims |-> {}, tier |-> "Endpoint", stamp |-> 0, cert |-> NoRow,
          consumed |-> FALSE, ever |-> {}, always |-> {}]

Init ==
    /\ backend \in Backends
    /\ orgLive = TRUE /\ idp = "enabled"
    /\ \E p \in Policies : formation = [mesh |-> 0, policy |-> p]
    /\ genesis = 0
    /\ rules = Empty(RuleIds)
    /\ audit = {}
    /\ adminStep = "idle" /\ changes = 0 /\ now = 0
    /\ req = [r \in Requests |-> Blank]

InFlight == {r \in Requests : req[r].pc \notin {"idle", "done"}}

\* What list_policy_rules returns.
Listed(table) == {table[i] : i \in RuleIds} \ {NoRow}

Goto(r, step) == req' = [req EXCEPT ![r].pc = step]

\* An error answer: everything the handler held goes out of scope.
Refuse(r) ==
    req' = [req EXCEPT ![r] = [Blank EXCEPT !.pc = "done", !.answer = "refused"]]

\* The decision is Approved and its audit entry is built.
Approve(r, t, token) ==
    req' = [req EXCEPT ![r] = [@ EXCEPT !.pc = "append_audit", !.tier = t, !.since = 0,
                                        !.stamp = now, !.consumed = token]]
-----------------------------------------------------------------------------
(* The enroll handler, one action for each call it awaits.                  *)

\* now_ms().saturating_sub(3_600_000)
AnHourBefore(time) == IF time > Window THEN time - Window ELSE 0

\* get_org, get_formation and the check of public_key.  A formation that is there
\* has its organization, so the two reads are one step; a malformed key is refused.
EnrollGetFormation(r, b) ==
    /\ req[r].pc = "idle"
    /\ Cardinality(InFlight) < MaxInFlight
    /\ \/ /\ formation # NoRow
          /\ req' = [req EXCEPT ![r] = [@ EXCEPT !.pc = "count_recent", !.bearer = b,
                                                 !.read = formation,
                                                 !.since = AnHourBefore(now)]]
       \/ Refuse(r)
    /\ UNCHANGED <<tables, admin, now>>

Recent(r) == {e \in audit : e.time >= req[r].since}

\* Mutant: one enrollment too many.
RateLimitedLate(r) == Cardinality(Recent(r)) > Limit

RateLimited(r) == Cardinality(Recent(r)) >= Limit

\* count_recent_enrollments asks for usize::MAX entries, which postgres.rs casts
\* to LIMIT -1: Postgres refuses the query.
CountFails == backend = "postgres"

\* Mutant: a Strict formation is treated like an Open one.
AdmitsStrict(policy) == policy # "Controlled"

\* Formations that take anyone without looking at a bearer token.
Admits(policy) == policy = "Open"

ApplyPolicy(r) ==
    CASE Admits(req[r].read.policy)      -> Approve(r, "Endpoint", FALSE)
      [] req[r].read.policy = "Strict"   -> Refuse(r)
      [] OTHER -> CASE req[r].bearer = "none"  -> Refuse(r)
                    [] req[r].bearer = "token" -> Goto(r, "consume_token")
                    [] req[r].bearer = "oidc"  -> Goto(r, "list_idps")

EnrollCountRecent(r) ==
    /\ req[r].pc = "count_recent"
    /\ IF CountFails
       THEN req' = [req EXCEPT ![r] = [@ EXCEPT !.pc = "done", !.answer = "500"]]
       ELSE IF RateLimited(r) THEN Refuse(r) ELSE ApplyPolicy(r)
    /\ UNCHANGED <<tables, admin, now>>

EnrollConsumeToken(r) ==
    /\ req[r].pc = "consume_token"
    /\ Approve(r, "Endpoint", TRUE) \/ Refuse(r)
    /\ UNCHANGED <<tables, admin, now>>

EnrollListIdps(r) ==
    /\ req[r].pc = "list_idps"
    /\ IF orgLive /\ idp = "enabled"
       THEN req' = [req EXCEPT ![r] = [@ EXCEPT !.pc = "introspect", !.ever = Listed(rules),
                                                !.always = Listed(rules)]]
       ELSE Refuse(r)
    /\ UNCHANGED <<tables, admin, now>>

\* The identity provider answers with claims, or that the token is not active;
\* then list_policy_rules looks the organization up before it lists.
EnrollIntrospect(r) ==
    /\ req[r].pc = "introspect"
    /\ \/ /\ orgLive
          /\ \E c \in SUBSET Claims :
                req' = [req EXCEPT ![r] = [@ EXCEPT !.pc = "list_policy_rules", !.claims = c]]
       \/ Refuse(r)
    /\ UNCHANGED <<tables, admin, now>>

Before(x, y) == x.priority < y.priority \/ (x.priority = y.priority /\ x.id <= y.id)

\* Mutant: the last match wins.
WinsLast(x, matching) == \A y \in matching : Before(y, x)

\* The first match in the order of the stable sort by priority.
Wins(x, matching) == \A y \in matching : Before(x, y)

Matching(listed, c) == {x \in listed : x.claim \in c}

\* Mutant: no tier for an identity that no rule matches.
EvaluatePolicyOrDeny(listed, c) ==
    IF Matching(listed, c) = {} THEN "Denied"
    ELSE (CHOOSE x \in listed : Wins(x, Matching(listed, c))).tier

EvaluatePolicy(listed, c) ==
    LET matching == Matching(listed, c) IN
    IF matching = {} THEN "Endpoint"
    ELSE (CHOOSE x \in matching : Wins(x, matching)).tier

EnrollListPolicyRules(r) ==
    /\ req[r].pc = "list_policy_rules"
    /\ Approve(r, EvaluatePolicy(Listed(rules), req[r].claims), FALSE)
    /\ UNCHANGED <<tables, admin, now>>

\* What still matters of a request once its decision has been recorded.
Essentials(r, step) == [Blank EXCEPT !.pc = step, !.read = req[r].read,
                                     !.bearer = req[r].bearer, !.consumed = req[r].consumed]

\* An entry that cannot be stored is only logged, and the enrollment goes on.
EnrollAppendAudit(r) ==
    /\ req[r].pc = "append_audit"
    /\ \/ /\ backend = "redb" \/ orgLive
          /\ audit' = audit \cup {[req |-> r, time |-> req[r].stamp]}
       \/ /\ Faults \/ (backend = "postgres" /\ ~orgLive)
          /\ UNCHANGED audit
    /\ req' = [req EXCEPT ![r] = Essentials(r, "issue")]
    /\ UNCHANGED <<backend, orgLive, formation, genesis, rules, idp, admin, now>>

\* load_genesis looks at the genesis table only, sealed or legacy.
GenesisLoads == genesis # NoRow

\* try_issue_certificate: none without key material in the request or a genesis
\* that loads, and the request is answered Ok all the same.
EnrollIssue(r) ==
    /\ req[r].pc = "issue"
    /\ \/ /\ GenesisLoads
          /\ req' = [req EXCEPT ![r] = [Essentials(r, "done") EXCEPT !.answer = "ok",
                                                                   !.cert = genesis]]
       \/ req' = [req EXCEPT ![r] = [Blank EXCEPT !.pc = "done", !.answer = "ok"]]
    /\ UNCHANGED <<tables, admin, now>>

\* A store error, a client that goes away, a crash: the future is dropped.
Drop(r) ==
    /\ Faults
    /\ r \in InFlight
    /\ req' = [req EXCEPT ![r] = [Blank EXCEPT !.pc = "done"]]
    /\ UNCHANGED <<tables, admin, now>>

-----------------------------------------------------------------------------
(* The administrator.                                                       *)

AdminCall ==
    /\ adminStep = "idle" /\ changes < MaxChanges
    /\ changes' = changes + 1

CreateFormation(p) ==
    /\ AdminCall /\ orgLive /\ formation = NoRow
    /\ formation' = [mesh |-> changes + 1, policy |-> p]
    /\ adminStep' = "store_genesis"
    /\ UNCHANGED <<backend, orgLive, genesis, rules, idp, audit, now, req>>

StoreGenesis ==
    /\ adminStep = "store_genesis"
    /\ genesis' = formation.mesh
    /\ adminStep' = "idle"
    /\ UNCHANGED <<backend, orgLive, formation, rules, idp, audit, changes, now, req>>

DeleteFormation ==
    /\ AdminCall /\ formation # NoRow
    /\ formation' = NoRow
    /\ adminStep' = "delete_genesis"
    /\ UNCHANGED <<backend, orgLive, genesis, rules, idp, audit, now, req>>

DeleteGenesis ==
    /\ adminStep = "delete_genesis"
    /\ genesis' = NoRow
    /\ adminStep' = "idle"
    /\ UNCHANGED <<backend, orgLive, formation, rules, idp, audit, changes, now, req>>

\* The organization has one identity provider or none.
SetIdp(row) ==
    /\ AdminCall
    /\ idp' = row
    /\ UNCHANGED <<backend, orgLive, formation, genesis, rules, audit, adminStep, now, req>>

CreateIdp == orgLive /\ idp = "none" /\ SetIdp("enabled")

ToggleIdp ==
    \/ idp = "enabled" /\ SetIdp("disabled")
    \/ idp = "disabled" /\ SetIdp("enabled")

DeleteIdp == idp # "none" /\ SetIdp("none")

Deciding == {r \in Requests : req[r].pc \in {"introspect", "list_policy_rules"}}

\* What a change of the rules means to the requests that are about to apply them.
NoteRules ==
    req' = [r \in Requests |->
              IF r \in Deciding
              THEN [req[r] EXCEPT !.ever = @ \cup Listed(rules'),
                                  !.always = @ \cap Listed(rules')]
              ELSE req[r]]

CreatePolicyRule(i) ==
    /\ AdminCall /\ orgLive /\ ~Present(rules, i)
    /\ \E c \in Claims, t \in MeshTier, p \in Priorities :
          rules' = Put(rules, i, [id |-> i, claim |-> c, tier |-> t, priority |-> p])
    /\ NoteRules
    /\ UNCHANGED <<backend, orgLive, formation, genesis, idp, audit, adminStep, now>>

DeletePolicyRule(i) ==
    /\ AdminCall /\ Present(rules, i)
    /\ rules' = Remove(rules, i)
    /\ NoteRules
    /\ UNCHANGED <<backend, orgLive, formation, genesis, idp, audit, adminStep, now>>

DeleteOrg ==
    /\ AdminCall /\ orgLive
    /\ orgLive' = FALSE /\ formation' = NoRow /\ genesis' = NoRow
    /\ rules' = Empty(RuleIds) /\ idp' = "none" /\ audit' = {}
    /\ NoteRules
    /\ UNCHANGED <<backend, adminStep, now>>

Tick ==
    /\ now < MaxClock
    /\ now' = now + 1
    /\ UNCHANGED <<tables, admin, req>>

AllServed ==
    /\ \A r \in Requests : req[r].pc = "done"
    /\ UNCHANGED vars
-----------------------------------------------------------------------------

Next ==
    \/ \E r \in Requests :
          \/ \E b \in {"none", "token", "oidc"} : EnrollGetFormation(r, b)
          \/ EnrollCountRecent(r) \/ EnrollConsumeToken(r) \/ EnrollListIdps(r)
          \/ EnrollIntrospect(r) \/ EnrollListPolicyRules(r)
          \/ EnrollAppendAudit(r) \/ EnrollIssue(r) \/ Drop(r)
    \/ \E p \in Policies : CreateFormation(p)
    \/ StoreGenesis \/ DeleteFormation \/ DeleteGenesis
    \/ CreateIdp \/ ToggleIdp \/ DeleteIdp
    \/ \E i \in RuleIds : CreatePolicyRule(i) \/ DeletePolicyRule(i)
    \/ DeleteOrg \/ Tick \/ AllServed

Spec == Init /\ [][Next]_vars
-----------------------------------------------------------------------------

\* The handler counts the audit entries of the last hour before it decides and
\* adds its own afterwards (enroll, lines 79-86 and 171).  Requests that overlap
\* can pass together, but no hour of the audit log ever has more entries than the
\* limit and the other requests that can be in progress.
RateOvershootBounded ==
    \A s \in Time :
        Cardinality({e \in audit : e.time \in s..(s + Window)})
            <= Limit + (MaxInFlight - 1)

\* The policy is read long before the genesis that signs (lines 66 and 248).  A
\* certificate for the mesh of the formation that was read is never issued under
\* Strict, and under Controlled only to a request with a bearer token, whose
\* enrollment token has been consumed if it is one.  A certificate for the mesh
\* of a formation recreated in the meantime escapes this.
PolicyEnforced ==
    \A r \in Requests :
        req[r].cert # NoRow /\ req[r].cert = req[r].read.mesh =>
            /\ req[r].read.policy # "Strict"
            /\ req[r].read.policy = "Controlled" =>
                  /\ req[r].bearer # "none"
                  /\ req[r].bearer = "token" => req[r].consumed

\* Policy rules change while the identity provider is asked (lines 142-159).  A
\* request is approved for the tier of a rule that was stored at some time from the
\* question to the decision, matches the claims, and comes before every matching
\* rule stored during all of that time; or for Endpoint when no matching rule was
\* stored all the time.
TierJustified ==
    \A r \in Requests :
        LET candidates == Matching(req[r].ever, req[r].claims)
            certain == Matching(req[r].always, req[r].claims)
        IN  req[r].pc = "append_audit" =>
               \/ \E x \in candidates :
                     x.tier = req[r].tier /\ \A y \in certain : Before(x, y)
               \/ req[r].tier = "Endpoint" /\ certain = {}

\* "Any valid identity can enroll" in an Open formation (models.rs, line 23):
\* once the formation has been read, and while no store call fails by itself, the
\* handler never answers with an internal error.
OpenAdmits ==
    \A r \in Requests :
        req[r].read # NoRow /\ req[r].read.policy = "Open" /\ ~Faults =>
            req[r].answer # "500"
=============================================================================
