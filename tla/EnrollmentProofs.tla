-------------------------- MODULE EnrollmentProofs --------------------------
(***************************************************************************)
(* Proofs about Enrollment, for every number of requests, every set of     *)
(* rules and claims, every limit and both backends.                        *)
(***************************************************************************)
EXTENDS Enrollment, CountingLemmas

USE BackendAssumption, EnrollmentAssumption, NoRowAssumption
-----------------------------------------------------------------------------
(* What the steps do, apart from the details of the records.               *)

\* The formation the genesis is made for is there until the genesis is stored.
TInv ==
    /\ TypeOK
    /\ adminStep = "store_genesis" => formation # NoRow

\* A request that is over and got no certificate.
Ended(q) == q.pc = "done" /\ q.cert = NoRow

\* Request r has just been approved: its record is q, it was p.
Approved(p, q, t, token) ==
    /\ q.pc = "append_audit" /\ q.tier = t /\ q.stamp = now /\ q.consumed = token
    /\ q.read = p.read /\ q.bearer = p.bearer /\ q.cert = p.cert
    /\ q.claims = p.claims /\ q.ever = p.ever /\ q.always = p.always

\* A request goes on from p to q without a decision.
Passed(p, q, step) ==
    /\ q.pc = step /\ q.read = p.read /\ q.bearer = p.bearer /\ q.cert = p.cert

\* Only request r moves, and its record becomes q.
Moves(r, q) ==
    /\ r \in Requests /\ q \in EnrollRequest
    /\ req' = [req EXCEPT ![r] = q]
    /\ UNCHANGED <<backend, orgLive, formation, genesis, rules, idp, admin, now>>

\* The tier of the policy rules is a tier: among the rules that match there is a
\* first one, by priority and then by id.
LEMMA FirstMatch ==
    ASSUME NEW S \in SUBSET PolicyRule, S # {}
    PROVE  \E x \in S : Wins(x, S)
<1>0. \A x \in S : x.priority \in Nat /\ x.id \in Nat
  BY DEF PolicyRule
<1> DEFINE P == {x.priority : x \in S}
<1>1. P \in SUBSET Nat /\ P # {}
  BY <1>0
<1>2. PICK p \in P : \A m \in P : p <= m
  BY <1>1, LeastNatural
<1> DEFINE I == {x.id : x \in {y \in S : y.priority = p}}
<1>3. I \in SUBSET Nat /\ I # {}
  BY <1>0, <1>2
<1>4. PICK i \in I : \A m \in I : i <= m
  BY <1>3, LeastNatural
<1>5. PICK x \in S : x.priority = p /\ x.id = i
  BY <1>4
<1>6. ASSUME NEW y \in S PROVE Before(x, y)
  <2>1. p <= y.priority /\ p \in Nat /\ y.priority \in Nat
    BY <1>0, <1>1, <1>2
  <2>2. CASE y.priority = p
    <3>1. y.id \in I
      BY <2>2
    <3>2. i <= y.id
      BY <1>4, <3>1
    <3> QED
      BY <1>5, <2>2, <3>2 DEF Before
  <2>3. CASE p < y.priority
    BY <1>5, <2>3 DEF Before
  <2> QED
    BY <2>1, <2>2, <2>3
<1> QED
  BY <1>6 DEF Wins

\* What the decision of an identity with claims c rests on.
LEMMA Evaluated ==
    ASSUME NEW S \in SUBSET PolicyRule, NEW c
    PROVE  /\ EvaluatePolicy(S, c) \in MeshTier
           /\ \/ Matching(S, c) = {} /\ EvaluatePolicy(S, c) = "Endpoint"
              \/ \E x \in Matching(S, c) :
                    x.tier = EvaluatePolicy(S, c) /\ \A y \in Matching(S, c) : Before(x, y)
<1>1. Matching(S, c) \in SUBSET PolicyRule
  BY DEF Matching
<1>2. CASE Matching(S, c) = {}
  BY <1>2 DEF EvaluatePolicy, MeshTier
<1>3. CASE Matching(S, c) # {}
  <2>1. \E x \in Matching(S, c) : Wins(x, Matching(S, c))
    BY <1>1, <1>3, FirstMatch
  <2>2. PICK w : w = CHOOSE x \in Matching(S, c) : Wins(x, Matching(S, c))
    OBVIOUS
  <2>3. w \in Matching(S, c) /\ Wins(w, Matching(S, c))
    BY <2>1, <2>2
  <2>4. EvaluatePolicy(S, c) = w.tier
    BY <1>3, <2>2 DEF EvaluatePolicy
  <2>5. w.tier \in MeshTier
    BY <1>1, <2>3 DEF PolicyRule
  <2> QED
    BY <2>3, <2>4, <2>5 DEF Wins
<1> QED
  BY <1>2, <1>3

\* The rules listed are rules.
LEMMA ListedRules ==
    ASSUME NEW table \in [RuleIds -> PolicyRule \cup {NoRow}]
    PROVE  Listed(table) \in SUBSET PolicyRule
BY DEF Listed

\* A request that has not been served yet is well formed.
LEMMA BlankType == Blank \in EnrollRequest
<1>1. 0 \in Time /\ "Endpoint" \in MeshTier
  BY DEF Time, MeshTier
<1> QED
  BY <1>1 DEF Blank, EnrollRequest, Steps

\* The record of a request that is refused, dropped or approved.
LEMMA RefuseEffect ==
    ASSUME NEW r \in Requests, Refuse(r)
    PROVE  \E q \in EnrollRequest : req' = [req EXCEPT ![r] = q] /\ Ended(q)
<1>1. PICK q : q = [Blank EXCEPT !.pc = "done", !.answer = "refused"]
  OBVIOUS
<1>2. q \in EnrollRequest
  BY <1>1, BlankType DEF EnrollRequest, Steps
<1>3. Ended(q)
  BY <1>1, BlankType DEF Blank, Ended
<1> QED
  BY <1>1, <1>2, <1>3 DEF Refuse

\* An approval stamps the record and keeps what was read and what was asked.
LEMMA ApproveEffect ==
    ASSUME TInv, NEW r \in Requests, NEW t \in MeshTier, NEW token \in BOOLEAN,
           Approve(r, t, token)
    PROVE  \E q \in EnrollRequest :
              req' = [req EXCEPT ![r] = q] /\ Approved(req[r], q, t, token)
<1>1. PICK p \in EnrollRequest : p = req[r]
  BY DEF TInv, TypeOK
<1>2. now \in Time /\ 0 \in Time
  BY DEF TInv, TypeOK, Time
<1>3. PICK q : q = [p EXCEPT !.pc = "append_audit", !.tier = t, !.since = 0,
                             !.stamp = now, !.consumed = token]
  OBVIOUS
<1>4. q \in EnrollRequest
  BY <1>2, <1>3 DEF EnrollRequest, Steps
<1>5. Approved(p, q, t, token)
  BY <1>3 DEF EnrollRequest, Approved
<1>6. req' = [req EXCEPT ![r] = q]
  BY <1>1, <1>3 DEF Approve
<1> QED
  BY <1>1, <1>4, <1>5, <1>6

\* Going on keeps everything but the position.
LEMMA GotoEffect ==
    ASSUME TInv, NEW r \in Requests, NEW step \in Steps, Goto(r, step)
    PROVE  \E q \in EnrollRequest :
              /\ req' = [req EXCEPT ![r] = q] /\ Passed(req[r], q, step)
              /\ q.always = req[r].always
<1>1. PICK p \in EnrollRequest : p = req[r]
  BY DEF TInv, TypeOK
<1>2. PICK q : q = [p EXCEPT !.pc = step]
  OBVIOUS
<1>3. q \in EnrollRequest /\ Passed(p, q, step) /\ q.always = p.always
  BY <1>2 DEF EnrollRequest, Passed
<1>4. req' = [req EXCEPT ![r] = q]
  BY <1>1, <1>2 DEF Goto
<1> QED
  BY <1>1, <1>3, <1>4

\* The handler's steps.
LEMMA GetFormationEffect ==
    ASSUME TInv, NEW r \in Requests, NEW b \in {"none", "token", "oidc"},
           EnrollGetFormation(r, b)
    PROVE  /\ req[r].pc = "idle" /\ UNCHANGED audit /\ Cardinality(InFlight) < MaxInFlight
           /\ \E q : /\ Moves(r, q)
                    /\ \/ Ended(q)
                       \/ /\ q.pc = "count_recent" /\ q.cert = req[r].cert
                          /\ q.always = req[r].always /\ q.since = AnHourBefore(now)
<1>0. /\ UNCHANGED <<backend, orgLive, formation, genesis, rules, idp, admin, now, audit>>
      /\ req[r].pc = "idle" /\ Cardinality(InFlight) < MaxInFlight
  BY DEF EnrollGetFormation, tables
<1>1. CASE Refuse(r)
  BY <1>0, <1>1, RefuseEffect DEF Moves
<1>2. CASE /\ formation # NoRow
           /\ req' = [req EXCEPT ![r] = [@ EXCEPT !.pc = "count_recent", !.bearer = b,
                                                  !.read = formation,
                                                  !.since = AnHourBefore(now)]]
  <2>1. PICK p \in EnrollRequest : p = req[r]
    BY DEF TInv, TypeOK
  <2>2. AnHourBefore(now) \in Time /\ formation \in FormationConfig \cup {NoRow}
    BY DEF TInv, TypeOK, Time, AnHourBefore
  <2>3. PICK q : q = [p EXCEPT !.pc = "count_recent", !.bearer = b, !.read = formation,
                               !.since = AnHourBefore(now)]
    OBVIOUS
  <2>4. /\ q \in EnrollRequest /\ q.pc = "count_recent" /\ q.cert = p.cert
        /\ q.always = p.always /\ q.since = AnHourBefore(now)
    BY <2>2, <2>3 DEF EnrollRequest, Steps
  <2>5. req' = [req EXCEPT ![r] = q]
    BY <1>2, <2>1, <2>3
  <2> QED
    BY <1>0, <2>1, <2>4, <2>5 DEF Moves
<1> QED
  BY <1>0, <1>1, <1>2 DEF EnrollGetFormation

\* A request passes the rate limit and the policy only to be approved by an Open
\* formation or to show its token; otherwise it is over.
LEMMA CountRecentEffect ==
    ASSUME TInv, NEW r \in Requests, EnrollCountRecent(r)
    PROVE  /\ req[r].pc = "count_recent" /\ UNCHANGED audit
           /\ \E q :
                /\ Moves(r, q)
                /\ \/ Ended(q)
                   \/ q.pc = "done" /\ q.cert = req[r].cert
                   \/ /\ ~RateLimited(r)
                      /\ \/ /\ Approved(req[r], q, "Endpoint", FALSE)
                            /\ req[r].read.policy = "Open"
                         \/ /\ Passed(req[r], q, "consume_token")
                            /\ req[r].bearer = "token" /\ req[r].read.policy # "Strict"
                            /\ q.always = req[r].always
                         \/ /\ Passed(req[r], q, "list_idps")
                            /\ req[r].bearer = "oidc" /\ req[r].read.policy # "Strict"
                            /\ q.always = req[r].always
<1>0. /\ UNCHANGED <<backend, orgLive, formation, genesis, rules, idp, admin, now, audit>>
      /\ req[r].pc = "count_recent"
  BY DEF EnrollCountRecent, tables
<1>1. CASE CountFails
  <2>1. PICK p \in EnrollRequest : p = req[r]
    BY DEF TInv, TypeOK
  <2>2. PICK q : q = [p EXCEPT !.pc = "done", !.answer = "500"]
    OBVIOUS
  <2>3. q \in EnrollRequest /\ q.pc = "done" /\ q.cert = p.cert
    BY <2>2 DEF EnrollRequest, Steps
  <2>4. req' = [req EXCEPT ![r] = q]
    BY <1>1, <2>1, <2>2 DEF EnrollCountRecent
  <2> QED
    BY <1>0, <2>1, <2>3, <2>4 DEF Moves
<1>2. ASSUME Refuse(r) PROVE \E q : Moves(r, q) /\ Ended(q)
  BY <1>0, <1>2, RefuseEffect DEF Moves
<1>3. CASE ~CountFails /\ RateLimited(r)
  <2>1. Refuse(r)
    BY <1>3 DEF EnrollCountRecent
  <2> QED
    BY <1>0, <1>2, <2>1
<1>4. CASE ~CountFails /\ ~RateLimited(r)
  <2>0. ApplyPolicy(r)
    BY <1>4 DEF EnrollCountRecent
  <2>1. CASE Admits(req[r].read.policy)
    <3>1. Approve(r, "Endpoint", FALSE) /\ req[r].read.policy = "Open"
      BY <2>0, <2>1 DEF ApplyPolicy, Admits
    <3>2. PICK q \in EnrollRequest : /\ req' = [req EXCEPT ![r] = q]
                                    /\ Approved(req[r], q, "Endpoint", FALSE)
      BY <3>1, ApproveEffect DEF MeshTier
    <3>3. Moves(r, q)
      BY <1>0, <3>2 DEF Moves
    <3> QED
      BY <1>0, <1>4, <3>1, <3>2, <3>3
  <2>2. CASE ~Admits(req[r].read.policy) /\ req[r].read.policy = "Strict"
    <3>1. Refuse(r)
      BY <2>0, <2>2 DEF ApplyPolicy, Admits
    <3> QED
      BY <1>0, <1>2, <3>1
  <2>3. CASE ~Admits(req[r].read.policy) /\ req[r].read.policy # "Strict"
    <3>0. req[r].bearer \in {"none", "token", "oidc"}
      BY DEF TInv, TypeOK, EnrollRequest
    <3>1. CASE req[r].bearer = "none"
      <4>1. Refuse(r)
        BY <2>0, <2>3, <3>1 DEF ApplyPolicy
      <4> QED
        BY <1>0, <1>2, <4>1
    <3>2. CASE req[r].bearer = "token"
      <4>1. Goto(r, "consume_token")
        BY <2>0, <2>3, <3>2 DEF ApplyPolicy
      <4>2. PICK q \in EnrollRequest : /\ req' = [req EXCEPT ![r] = q]
                                      /\ Passed(req[r], q, "consume_token")
                                      /\ q.always = req[r].always
        BY <4>1, GotoEffect DEF Steps
      <4>3. Moves(r, q)
        BY <1>0, <4>2 DEF Moves
      <4> QED
        BY <1>0, <1>4, <2>3, <3>2, <4>2, <4>3
    <3>3. CASE req[r].bearer = "oidc"
      <4>1. Goto(r, "list_idps")
        BY <2>0, <2>3, <3>3 DEF ApplyPolicy
      <4>2. PICK q \in EnrollRequest : /\ req' = [req EXCEPT ![r] = q]
                                      /\ Passed(req[r], q, "list_idps")
                                      /\ q.always = req[r].always
        BY <4>1, GotoEffect DEF Steps
      <4>3. Moves(r, q)
        BY <1>0, <4>2 DEF Moves
      <4> QED
        BY <1>0, <1>4, <2>3, <3>3, <4>2, <4>3
    <3> QED
      BY <3>0, <3>1, <3>2, <3>3
  <2> QED
    BY <2>1, <2>2, <2>3
<1> QED
  BY <1>1, <1>3, <1>4

\* A consumed token is an approval.
LEMMA ConsumeTokenEffect ==
    ASSUME TInv, NEW r \in Requests, EnrollConsumeToken(r)
    PROVE  /\ req[r].pc = "consume_token" /\ UNCHANGED audit
           /\ \E q : /\ Moves(r, q)
                    /\ (Ended(q) \/ Approved(req[r], q, "Endpoint", TRUE))
<1>0. /\ UNCHANGED <<backend, orgLive, formation, genesis, rules, idp, admin, now, audit>>
      /\ req[r].pc = "consume_token"
  BY DEF EnrollConsumeToken, tables
<1>1. CASE Refuse(r)
  BY <1>0, <1>1, RefuseEffect DEF Moves
<1>2. CASE Approve(r, "Endpoint", TRUE)
  <2>1. "Endpoint" \in MeshTier
    BY DEF MeshTier
  <2> QED
    BY <1>0, <1>2, <2>1, ApproveEffect DEF Moves
<1> QED
  BY <1>1, <1>2 DEF EnrollConsumeToken

\* The question to the identity provider starts from the rules as they are now.
LEMMA ListIdpsEffect ==
    ASSUME TInv, NEW r \in Requests, EnrollListIdps(r)
    PROVE  /\ req[r].pc = "list_idps" /\ UNCHANGED audit
           /\ \E q : /\ Moves(r, q)
                    /\ \/ Ended(q)
                       \/ /\ Passed(req[r], q, "introspect")
                          /\ q.ever = Listed(rules) /\ q.always = Listed(rules)
<1>0. /\ UNCHANGED <<backend, orgLive, formation, genesis, rules, idp, admin, now, audit>>
      /\ req[r].pc = "list_idps"
  BY DEF EnrollListIdps, tables
<1>1. CASE Refuse(r)
  BY <1>0, <1>1, RefuseEffect DEF Moves
<1>2. CASE req' = [req EXCEPT ![r] = [@ EXCEPT !.pc = "introspect", !.ever = Listed(rules),
                                               !.always = Listed(rules)]]
  <2>1. PICK p \in EnrollRequest : p = req[r]
    BY DEF TInv, TypeOK
  <2>2. PICK L \in SUBSET PolicyRule : L = Listed(rules)
    BY ListedRules DEF TInv, TypeOK
  <2>3. PICK q : q = [p EXCEPT !.pc = "introspect", !.ever = L, !.always = L]
    OBVIOUS
  <2>4. q \in EnrollRequest /\ Passed(p, q, "introspect") /\ q.ever = L /\ q.always = L
    BY <2>3 DEF EnrollRequest, Steps, Passed
  <2>5. req' = [req EXCEPT ![r] = q]
    BY <1>2, <2>1, <2>2, <2>3
  <2> QED
    BY <1>0, <2>1, <2>2, <2>4, <2>5 DEF Moves
<1> QED
  BY <1>1, <1>2 DEF EnrollListIdps

\* The claims arrive; what is remembered of the rules stays.
LEMMA IntrospectEffect ==
    ASSUME TInv, NEW r \in Requests, EnrollIntrospect(r)
    PROVE  /\ req[r].pc = "introspect" /\ UNCHANGED audit
           /\ \E q : /\ Moves(r, q)
                    /\ \/ Ended(q)
                       \/ /\ Passed(req[r], q, "list_policy_rules")
                          /\ q.ever = req[r].ever /\ q.always = req[r].always
<1>0. /\ UNCHANGED <<backend, orgLive, formation, genesis, rules, idp, admin, now, audit>>
      /\ req[r].pc = "introspect"
  BY DEF EnrollIntrospect, tables
<1>1. CASE Refuse(r)
  BY <1>0, <1>1, RefuseEffect DEF Moves
<1>2. ASSUME NEW c \in SUBSET Claims,
             req' = [req EXCEPT ![r] = [@ EXCEPT !.pc = "list_policy_rules", !.claims = c]]
      PROVE  \E q : /\ Moves(r, q) /\ Passed(req[r], q, "list_policy_rules")
                    /\ q.ever = req[r].ever /\ q.always = req[r].always
  <2>1. PICK p \in EnrollRequest : p = req[r]
    BY DEF TInv, TypeOK
  <2>2. PICK q : q = [p EXCEPT !.pc = "list_policy_rules", !.claims = c]
    OBVIOUS
  <2>3. /\ q \in EnrollRequest /\ Passed(p, q, "list_policy_rules")
        /\ q.ever = p.ever /\ q.always = p.always
    BY <2>2 DEF EnrollRequest, Steps, Passed
  <2>4. req' = [req EXCEPT ![r] = q]
    BY <1>2, <2>1, <2>2
  <2> QED
    BY <1>0, <2>1, <2>3, <2>4 DEF Moves
<1> QED
  BY <1>0, <1>1, <1>2 DEF EnrollIntrospect

\* The rules as they are now decide.
LEMMA ListPolicyRulesEffect ==
    ASSUME TInv, NEW r \in Requests, EnrollListPolicyRules(r)
    PROVE  /\ req[r].pc = "list_policy_rules" /\ UNCHANGED audit
           /\ \E q : /\ Moves(r, q)
                    /\ Approved(req[r], q, EvaluatePolicy(Listed(rules), req[r].claims), FALSE)
<1>0. /\ UNCHANGED <<backend, orgLive, formation, genesis, rules, idp, admin, now, audit>>
      /\ req[r].pc = "list_policy_rules"
  BY DEF EnrollListPolicyRules, tables
<1>1. PICK t : t = EvaluatePolicy(Listed(rules), req[r].claims)
  OBVIOUS
<1>2. t \in MeshTier
  <2>1. Listed(rules) \in SUBSET PolicyRule
    BY ListedRules DEF TInv, TypeOK
  <2> QED
    BY <1>1, <2>1, Evaluated
<1>3. Approve(r, t, FALSE)
  BY <1>1 DEF EnrollListPolicyRules
<1> QED
  BY <1>0, <1>1, <1>2, <1>3, ApproveEffect DEF Moves

\* What is kept after the decision: the formation, the bearer and its token.
LEMMA EssentialsType ==
    ASSUME TInv, NEW r \in Requests, NEW step \in Steps
    PROVE  /\ Essentials(r, step) \in EnrollRequest /\ Essentials(r, step).pc = step
           /\ Essentials(r, step).cert = NoRow /\ Essentials(r, step).read = req[r].read
           /\ Essentials(r, step).bearer = req[r].bearer
           /\ Essentials(r, step).consumed = req[r].consumed
<1>1. PICK p \in EnrollRequest : p = req[r]
  BY DEF TInv, TypeOK
<1>2. PICK q : q = [Blank EXCEPT !.pc = step, !.read = p.read, !.bearer = p.bearer,
                                 !.consumed = p.consumed]
  OBVIOUS
<1>3. q \in EnrollRequest
  BY <1>2, BlankType DEF EnrollRequest
<1>4. /\ q.pc = step /\ q.cert = NoRow /\ q.read = p.read /\ q.bearer = p.bearer
      /\ q.consumed = p.consumed
  BY <1>2 DEF Blank
<1> QED
  BY <1>1, <1>2, <1>3, <1>4 DEF Essentials

\* The entry is stored or lost, and the request goes on.
LEMMA AppendAuditEffect ==
    ASSUME TInv, NEW r \in Requests, EnrollAppendAudit(r)
    PROVE  /\ req[r].pc = "append_audit" /\ Moves(r, Essentials(r, "issue"))
           /\ (audit' = audit \/ audit' = audit \cup {[req |-> r, time |-> req[r].stamp]})
<1>1. Essentials(r, "issue") \in EnrollRequest
  BY EssentialsType DEF Steps
<1> QED
  BY <1>1 DEF EnrollAppendAudit, Moves

\* A certificate is issued, or the request ends without one.
LEMMA IssueEffect ==
    ASSUME TInv, NEW r \in Requests, EnrollIssue(r)
    PROVE  /\ req[r].pc = "issue" /\ UNCHANGED audit
           /\ \E q : /\ Moves(r, q) /\ q.pc = "done"
                    /\ \/ Ended(q)
                       \/ /\ q.read = req[r].read /\ q.bearer = req[r].bearer
                          /\ q.consumed = req[r].consumed
<1>0. /\ UNCHANGED <<backend, orgLive, formation, genesis, rules, idp, admin, now, audit>>
      /\ req[r].pc = "issue"
  BY DEF EnrollIssue, tables
<1>1. CASE /\ GenesisLoads
           /\ req' = [req EXCEPT ![r] = [Essentials(r, "done") EXCEPT !.answer = "ok",
                                                                    !.cert = genesis]]
  <2>1. genesis \in Meshes \cup {NoRow}
    BY DEF TInv, TypeOK
  <2>2. PICK p \in EnrollRequest :
           /\ p = Essentials(r, "done") /\ p.pc = "done" /\ p.read = req[r].read
           /\ p.bearer = req[r].bearer /\ p.consumed = req[r].consumed
    BY EssentialsType DEF Steps
  <2>3. PICK q : q = [p EXCEPT !.answer = "ok", !.cert = genesis]
    OBVIOUS
  <2>4. /\ q \in EnrollRequest /\ q.pc = "done" /\ q.read = p.read /\ q.bearer = p.bearer
        /\ q.consumed = p.consumed
    BY <2>1, <2>2, <2>3 DEF EnrollRequest
  <2>5. req' = [req EXCEPT ![r] = q]
    BY <1>1, <2>2, <2>3
  <2> QED
    BY <1>0, <2>2, <2>4, <2>5 DEF Moves
<1>2. CASE req' = [req EXCEPT ![r] = [Blank EXCEPT !.pc = "done", !.answer = "ok"]]
  <2>1. PICK q : q = [Blank EXCEPT !.pc = "done", !.answer = "ok"]
    OBVIOUS
  <2>2. q \in EnrollRequest
    BY <2>1, BlankType DEF EnrollRequest, Steps
  <2>3. Ended(q)
    BY <2>1 DEF Ended, Blank
  <2> QED
    BY <1>0, <1>2, <2>1, <2>2, <2>3 DEF Moves, Ended
<1> QED
  BY <1>1, <1>2 DEF EnrollIssue

\* A dropped request has no certificate.
LEMMA DropEffect ==
    ASSUME TInv, NEW r \in Requests, Drop(r)
    PROVE  r \in InFlight /\ UNCHANGED audit /\ \E q : Moves(r, q) /\ Ended(q)
<1>0. /\ UNCHANGED <<backend, orgLive, formation, genesis, rules, idp, admin, now, audit>>
      /\ r \in InFlight
  BY DEF Drop, tables
<1>1. PICK q : q = [Blank EXCEPT !.pc = "done"]
  OBVIOUS
<1>2. q \in EnrollRequest
  BY <1>1, BlankType DEF EnrollRequest, Steps
<1>3. Ended(q)
  BY <1>1 DEF Ended, Blank
<1> QED
  BY <1>0, <1>1, <1>2, <1>3 DEF Moves, Drop

\* A change of the rules touches only what is remembered of them.
LEMMA NoteRulesEffect ==
    ASSUME TInv, NoteRules, rules' \in [RuleIds -> PolicyRule \cup {NoRow}]
    PROVE  /\ req' \in [Requests -> EnrollRequest]
           /\ \A r \in Requests :
                \/ req[r].pc \notin {"introspect", "list_policy_rules"} /\ req'[r] = req[r]
                \/ /\ req[r].pc \in {"introspect", "list_policy_rules"}
                   /\ Passed(req[r], req'[r], req[r].pc)
                   /\ req'[r].ever = req[r].ever \cup Listed(rules')
                   /\ req'[r].always = req[r].always \cap Listed(rules')
<1>1. PICK L \in SUBSET PolicyRule : L = Listed(rules')
  BY ListedRules
<1>2. req' = [r \in Requests |->
                IF r \in Deciding THEN [req[r] EXCEPT !.ever = @ \cup L, !.always = @ \cap L]
                                  ELSE req[r]]
  BY <1>1 DEF NoteRules
<1>3. ASSUME NEW r \in Requests
      PROVE  /\ req'[r] \in EnrollRequest
             /\ \/ req[r].pc \notin {"introspect", "list_policy_rules"} /\ req'[r] = req[r]
                \/ /\ req[r].pc \in {"introspect", "list_policy_rules"}
                   /\ Passed(req[r], req'[r], req[r].pc)
                   /\ req'[r].ever = req[r].ever \cup L
                   /\ req'[r].always = req[r].always \cap L
  <2>1. PICK p \in EnrollRequest : p = req[r]
    BY DEF TInv, TypeOK
  <2>2. CASE r \in Deciding
    <3>1. PICK q : q = [p EXCEPT !.ever = @ \cup L, !.always = @ \cap L]
      OBVIOUS
    <3>2. /\ q \in EnrollRequest /\ Passed(p, q, p.pc)
          /\ q.ever = p.ever \cup L /\ q.always = p.always \cap L
      BY <3>1 DEF EnrollRequest, Passed
    <3>3. req'[r] = q
      BY <1>2, <2>1, <2>2, <3>1
    <3> QED
      BY <2>1, <2>2, <3>2, <3>3 DEF Deciding
  <2>3. CASE r \notin Deciding
    BY <1>2, <2>1, <2>3 DEF Deciding
  <2> QED
    BY <2>2, <2>3
<1> QED
  BY <1>1, <1>2, <1>3

\* A step of the handler for request r.
RequestStep(r) ==
    \/ \E b \in {"none", "token", "oidc"} : EnrollGetFormation(r, b)
    \/ EnrollCountRecent(r) \/ EnrollConsumeToken(r) \/ EnrollListIdps(r)
    \/ EnrollIntrospect(r) \/ EnrollListPolicyRules(r)
    \/ EnrollAppendAudit(r) \/ EnrollIssue(r) \/ Drop(r)

\* Each of these steps moves its own request and no other.
LEMMA RequestMoves ==
    ASSUME TInv, NEW r \in Requests, RequestStep(r)
    PROVE  \E q : Moves(r, q)
<1>1. CASE EnrollCountRecent(r) \/ EnrollConsumeToken(r) \/ EnrollListIdps(r)
  BY <1>1, CountRecentEffect, ConsumeTokenEffect, ListIdpsEffect
<1>2. CASE EnrollIntrospect(r) \/ EnrollListPolicyRules(r) \/ EnrollAppendAudit(r)
  BY <1>2, IntrospectEffect, ListPolicyRulesEffect, AppendAuditEffect
<1>3. CASE EnrollIssue(r) \/ Drop(r)
  BY <1>3, IssueEffect, DropEffect
<1>4. CASE \E b \in {"none", "token", "oidc"} : EnrollGetFormation(r, b)
  BY <1>4, GetFormationEffect
<1> QED
  BY <1>1, <1>2, <1>3, <1>4 DEF RequestStep

\* What an administrator changes besides the policy rules concerns no request.
AdminStep ==
    \/ \E p \in Policies : CreateFormation(p)
    \/ StoreGenesis \/ DeleteFormation \/ DeleteGenesis
    \/ CreateIdp \/ ToggleIdp \/ DeleteIdp

RulesStep ==
    \/ \E i \in RuleIds : CreatePolicyRule(i) \/ DeletePolicyRule(i)
    \/ DeleteOrg

\* None of these calls touches rules, audit log, clock or requests.
LEMMA AdminLeaves ==
    ASSUME AdminStep
    PROVE  UNCHANGED <<backend, rules, audit, now, req>>
<1>1. CASE \E p \in Policies : CreateFormation(p)
  BY <1>1 DEF CreateFormation
<1>2. CASE StoreGenesis \/ DeleteFormation \/ DeleteGenesis
  BY <1>2 DEF StoreGenesis, DeleteFormation, DeleteGenesis
<1>3. CASE CreateIdp \/ ToggleIdp \/ DeleteIdp
  BY <1>3 DEF CreateIdp, ToggleIdp, DeleteIdp, SetIdp
<1> QED
  BY <1>1, <1>2, <1>3 DEF AdminStep

\* A call that changes the rules keeps the table well formed, and the audit log
\* unless the organization goes with it.
LEMMA RulesEffect ==
    ASSUME TInv, RulesStep
    PROVE  /\ rules' \in [RuleIds -> PolicyRule \cup {NoRow}] /\ NoteRules
           /\ (audit' = audit \/ audit' = {}) /\ UNCHANGED now
<1>0. rules \in [RuleIds -> PolicyRule \cup {NoRow}]
  BY DEF TInv, TypeOK
<1>1. ASSUME NEW i \in RuleIds, CreatePolicyRule(i)
      PROVE  /\ rules' \in [RuleIds -> PolicyRule \cup {NoRow}] /\ NoteRules
             /\ UNCHANGED <<audit, now>>
  <2>1. PICK c \in Claims, t \in MeshTier, p \in Priorities :
           rules' = Put(rules, i, [id |-> i, claim |-> c, tier |-> t, priority |-> p])
    BY <1>1 DEF CreatePolicyRule
  <2>2. [id |-> i, claim |-> c, tier |-> t, priority |-> p] \in PolicyRule
    BY DEF PolicyRule
  <2> QED
    BY <1>0, <1>1, <2>1, <2>2 DEF Put, CreatePolicyRule
<1>2. ASSUME NEW i \in RuleIds, DeletePolicyRule(i)
      PROVE  /\ rules' \in [RuleIds -> PolicyRule \cup {NoRow}] /\ NoteRules
             /\ UNCHANGED <<audit, now>>
  BY <1>0, <1>2 DEF DeletePolicyRule, Remove, Put
<1>3. CASE DeleteOrg
  BY <1>3 DEF DeleteOrg, Empty
<1> QED
  BY <1>1, <1>2, <1>3 DEF RulesStep

\* There are no other steps.
LEMMA NextKinds ==
    ASSUME [Next]_vars
    PROVE  \/ \E r \in Requests : RequestStep(r)
           \/ AdminStep \/ RulesStep \/ Tick \/ UNCHANGED vars
<1>1. CASE \E r \in Requests :
             \/ \E b \in {"none", "token", "oidc"} : EnrollGetFormation(r, b)
             \/ EnrollCountRecent(r) \/ EnrollConsumeToken(r) \/ EnrollListIdps(r)
             \/ EnrollIntrospect(r) \/ EnrollListPolicyRules(r)
             \/ EnrollAppendAudit(r) \/ EnrollIssue(r) \/ Drop(r)
  BY <1>1 DEF RequestStep
<1> QED
  BY <1>1 DEF Next, AdminStep, RulesStep, AllServed
-----------------------------------------------------------------------------
(* Type correctness.                                                       *)

\* Types hold initially.
LEMMA TypeInit == Init => TInv
<1> SUFFICES ASSUME Init PROVE TInv
  OBVIOUS
<1>1. 0 \in Meshes /\ 0 \in Time
  BY DEF Meshes, Time
<1>2. PICK p \in Policies : formation = [mesh |-> 0, policy |-> p]
  BY DEF Init
<1>3. formation \in FormationConfig
  BY <1>1, <1>2 DEF FormationConfig
<1>4. rules \in [RuleIds -> PolicyRule \cup {NoRow}]
  BY DEF Init, Empty
<1>5. req \in [Requests -> EnrollRequest]
  BY BlankType DEF Init
<1> QED
  BY <1>1, <1>3, <1>4, <1>5 DEF Init, TInv, TypeOK

\* Every step keeps the types.
LEMMA TypeStep == TInv /\ [Next]_vars => TInv'
<1> SUFFICES ASSUME TInv, [Next]_vars PROVE TInv'
  OBVIOUS
<1>1. CASE UNCHANGED vars
  BY <1>1 DEF vars, tables, admin, TInv, TypeOK
<1>2. CASE Tick
  <2>1. now' \in Time
    BY <1>2 DEF Tick, TInv, TypeOK, Time
  <2> QED
    BY <1>2, <2>1 DEF Tick, tables, admin, TInv, TypeOK
<1>3. ASSUME NEW r \in Requests, RequestStep(r) PROVE TInv'
  <2>1. PICK q : Moves(r, q)
    BY <1>3, RequestMoves
  <2>2. req' \in [Requests -> EnrollRequest]
    BY <2>1 DEF Moves, TInv, TypeOK
  <2>3. audit' \subseteq AuditEntry
    <3>1. req[r].stamp \in Time
      BY DEF TInv, TypeOK, EnrollRequest
    <3>2. [req |-> r, time |-> req[r].stamp] \in AuditEntry
      BY <3>1 DEF AuditEntry
    <3>3. CASE EnrollAppendAudit(r)
      BY <3>2, <3>3, AppendAuditEffect DEF TInv, TypeOK
    <3>4. CASE ~EnrollAppendAudit(r)
      <4>1. CASE \E b \in {"none", "token", "oidc"} : EnrollGetFormation(r, b)
        BY <4>1, GetFormationEffect DEF TInv, TypeOK
      <4>2. CASE EnrollCountRecent(r) \/ EnrollConsumeToken(r) \/ EnrollListIdps(r)
        BY <4>2, CountRecentEffect, ConsumeTokenEffect, ListIdpsEffect DEF TInv, TypeOK
      <4>3. CASE EnrollIntrospect(r) \/ EnrollListPolicyRules(r) \/ EnrollIssue(r) \/ Drop(r)
        BY <4>3, IntrospectEffect, ListPolicyRulesEffect, IssueEffect, DropEffect
           DEF TInv, TypeOK
      <4> QED
        BY <1>3, <3>4, <4>1, <4>2, <4>3 DEF RequestStep
    <3> QED
      BY <3>3, <3>4
  <2> QED
    BY <2>1, <2>2, <2>3 DEF Moves, admin, TInv, TypeOK
<1>4. CASE AdminStep
  <2>0. UNCHANGED <<backend, rules, audit, now, req>>
    BY <1>4, AdminLeaves
  <2>1. ASSUME AdminCall PROVE changes' \in 0..MaxChanges /\ changes + 1 \in Meshes
    BY <2>1 DEF AdminCall, TInv, TypeOK, Meshes
  <2>2. ASSUME NEW p \in Policies, CreateFormation(p) PROVE TInv'
    <3>1. formation' \in FormationConfig
      BY <2>1, <2>2 DEF CreateFormation, FormationConfig
    <3> QED
      BY <2>0, <2>1, <2>2, <3>1 DEF CreateFormation, TInv, TypeOK
  <2>3. CASE StoreGenesis
    <3>1. formation \in FormationConfig
      BY <2>3 DEF StoreGenesis, TInv, TypeOK
    <3>2. genesis' \in Meshes
      BY <2>3, <3>1 DEF StoreGenesis, FormationConfig
    <3> QED
      BY <2>0, <2>3, <3>2 DEF StoreGenesis, TInv, TypeOK
  <2>4. CASE DeleteFormation
    BY <2>0, <2>1, <2>4 DEF DeleteFormation, TInv, TypeOK
  <2>5. CASE DeleteGenesis
    BY <2>0, <2>5 DEF DeleteGenesis, TInv, TypeOK
  <2>6. ASSUME NEW row \in {"none", "enabled", "disabled"}, SetIdp(row) PROVE TInv'
    BY <2>0, <2>1, <2>6 DEF SetIdp, TInv, TypeOK
  <2> QED
    BY <1>4, <2>2, <2>3, <2>4, <2>5, <2>6 DEF AdminStep, CreateIdp, ToggleIdp, DeleteIdp
<1>5. CASE RulesStep
  <2>1. /\ rules' \in [RuleIds -> PolicyRule \cup {NoRow}] /\ UNCHANGED now
        /\ req' \in [Requests -> EnrollRequest] /\ (audit' = audit \/ audit' = {})
    BY <1>5, RulesEffect, NoteRulesEffect
  <2>2. changes' \in 0..MaxChanges /\ UNCHANGED <<backend, adminStep>> /\ adminStep = "idle"
    BY <1>5 DEF RulesStep, CreatePolicyRule, DeletePolicyRule, DeleteOrg, AdminCall, TInv, TypeOK
  <2>3. CASE UNCHANGED <<orgLive, formation, genesis, idp>>
    BY <2>1, <2>2, <2>3 DEF TInv, TypeOK
  <2>4. CASE DeleteOrg
    BY <2>1, <2>2, <2>4 DEF DeleteOrg, TInv, TypeOK
  <2> QED
    BY <1>5, <2>3, <2>4 DEF RulesStep, CreatePolicyRule, DeletePolicyRule
<1> QED
  BY <1>1, <1>2, <1>3, <1>4, <1>5, NextKinds

\* Every variable keeps its type; in particular the decision of the policy rules
\* is always a tier, because among the rules that match there is a first one.
THEOREM TypeCorrect == Spec => []TypeOK
<1>1. TInv => TypeOK
  BY DEF TInv
<1> QED
  BY <1>1, TypeInit, TypeStep, PTL DEF Spec
-----------------------------------------------------------------------------
(* The policy that was read is the policy that is applied.                 *)

\* What must be true of a request before a certificate for the formation it read.
Granted(q) ==
    /\ q.read.policy # "Strict"
    /\ q.read.policy = "Controlled" =>
          q.bearer # "none" /\ (q.bearer = "token" => q.consumed)

Follows(q) ==
    /\ q.cert # NoRow => q.pc = "done" /\ Granted(q)
    /\ q.pc = "consume_token" => q.read.policy # "Strict" /\ q.bearer = "token"
    /\ q.pc \in {"list_idps", "introspect", "list_policy_rules"} =>
          q.read.policy # "Strict" /\ q.bearer = "oidc"
    /\ q.pc \in {"append_audit", "issue"} => Granted(q)

PolicyInv == \A r \in Requests : Follows(req[r])

\* No step of a request or of the administrator breaks the policy that was read.
LEMMA PolicyStep == TInv /\ PolicyInv /\ [Next]_vars => PolicyInv'
<1> SUFFICES ASSUME TInv, PolicyInv, [Next]_vars PROVE PolicyInv'
  OBVIOUS
<1>0. \A q : Ended(q) => Follows(q)
  BY DEF Ended, Follows
<1>1. ASSUME UNCHANGED req PROVE PolicyInv'
  BY <1>1 DEF PolicyInv
<1>2. CASE RulesStep
  <2> SUFFICES ASSUME NEW r \in Requests PROVE Follows(req'[r])
    BY DEF PolicyInv
  <2>1. req'[r] = req[r] \/ (Passed(req[r], req'[r], req[r].pc) /\ req[r].pc \in
                               {"introspect", "list_policy_rules"})
    BY <1>2, RulesEffect, NoteRulesEffect
  <2>2. Follows(req[r])
    BY DEF PolicyInv
  <2> QED
    BY <2>1, <2>2 DEF Passed, Follows
<1>3. ASSUME NEW r \in Requests, NEW q, Moves(r, q), Follows(q) PROVE PolicyInv'
  BY <1>3 DEF Moves, PolicyInv, TInv, TypeOK
<1>4. ASSUME NEW r \in Requests, RequestStep(r) PROVE PolicyInv'
  <2>0. Follows(req[r])
    BY DEF PolicyInv
  <2>1. ASSUME NEW b \in {"none", "token", "oidc"}, EnrollGetFormation(r, b) PROVE PolicyInv'
    <3>1. PICK q : /\ Moves(r, q) /\ req[r].pc = "idle"
                   /\ (Ended(q) \/ (q.pc = "count_recent" /\ q.cert = req[r].cert))
      BY <2>1, GetFormationEffect
    <3>2. Follows(q)
      BY <1>0, <2>0, <3>1 DEF Follows
    <3> QED
      BY <1>3, <3>1, <3>2
  <2>2. CASE EnrollCountRecent(r)
    <3>1. PICK q :
            /\ Moves(r, q) /\ req[r].pc = "count_recent"
            /\ \/ Ended(q) \/ (q.pc = "done" /\ q.cert = req[r].cert)
               \/ Approved(req[r], q, "Endpoint", FALSE) /\ req[r].read.policy = "Open"
               \/ /\ Passed(req[r], q, "consume_token")
                  /\ req[r].bearer = "token" /\ req[r].read.policy # "Strict"
               \/ /\ Passed(req[r], q, "list_idps")
                  /\ req[r].bearer = "oidc" /\ req[r].read.policy # "Strict"
      BY <2>2, CountRecentEffect
    <3>2. Follows(q)
      BY <1>0, <2>0, <3>1 DEF Follows, Approved, Passed, Granted
    <3> QED
      BY <1>3, <3>1, <3>2
  <2>3. CASE EnrollConsumeToken(r)
    <3>1. PICK q : /\ Moves(r, q) /\ req[r].pc = "consume_token"
                   /\ (Ended(q) \/ Approved(req[r], q, "Endpoint", TRUE))
      BY <2>3, ConsumeTokenEffect
    <3>2. Follows(q)
      BY <1>0, <2>0, <3>1 DEF Follows, Approved, Granted
    <3> QED
      BY <1>3, <3>1, <3>2
  <2>4. CASE EnrollListIdps(r)
    <3>1. PICK q : /\ Moves(r, q) /\ req[r].pc = "list_idps"
                   /\ (Ended(q) \/ Passed(req[r], q, "introspect"))
      BY <2>4, ListIdpsEffect
    <3>2. Follows(q)
      BY <1>0, <2>0, <3>1 DEF Follows, Passed
    <3> QED
      BY <1>3, <3>1, <3>2
  <2>5. CASE EnrollIntrospect(r)
    <3>1. PICK q : /\ Moves(r, q) /\ req[r].pc = "introspect"
                   /\ (Ended(q) \/ Passed(req[r], q, "list_policy_rules"))
      BY <2>5, IntrospectEffect
    <3>2. Follows(q)
      BY <1>0, <2>0, <3>1 DEF Follows, Passed
    <3> QED
      BY <1>3, <3>1, <3>2
  <2>6. CASE EnrollListPolicyRules(r)
    <3>1. PICK q, t : /\ Moves(r, q) /\ req[r].pc = "list_policy_rules"
                      /\ Approved(req[r], q, t, FALSE)
      BY <2>6, ListPolicyRulesEffect
    <3>2. Follows(q)
      BY <2>0, <3>1 DEF Follows, Approved, Granted
    <3> QED
      BY <1>3, <3>1, <3>2
  <2>7. CASE EnrollAppendAudit(r)
    <3>1. PICK q : q = Essentials(r, "issue")
      OBVIOUS
    <3>2. Moves(r, q) /\ req[r].pc = "append_audit"
      BY <2>7, <3>1, AppendAuditEffect
    <3>3. /\ q.pc = "issue" /\ q.cert = NoRow /\ q.read = req[r].read
          /\ q.bearer = req[r].bearer /\ q.consumed = req[r].consumed
      BY <3>1, EssentialsType DEF Steps
    <3>4. Follows(q)
      BY <2>0, <3>2, <3>3 DEF Follows, Granted
    <3> QED
      BY <1>3, <3>2, <3>4
  <2>8. CASE EnrollIssue(r)
    <3>1. PICK q : /\ Moves(r, q) /\ req[r].pc = "issue" /\ q.pc = "done"
                   /\ \/ Ended(q)
                      \/ /\ q.read = req[r].read /\ q.bearer = req[r].bearer
                         /\ q.consumed = req[r].consumed
      BY <2>8, IssueEffect
    <3>2. Follows(q)
      BY <1>0, <2>0, <3>1 DEF Follows, Granted
    <3> QED
      BY <1>3, <3>1, <3>2
  <2>9. CASE Drop(r)
    BY <1>0, <1>3, <2>9, DropEffect
  <2> QED
    BY <1>4, <2>1, <2>2, <2>3, <2>4, <2>5, <2>6, <2>7, <2>8, <2>9 DEF RequestStep
<1> QED
  BY <1>1, <1>2, <1>4, NextKinds, AdminLeaves DEF Tick, vars

\* Whatever the administrator does between the handler's awaits, a certificate for
\* the formation that was read is issued only under the policy that was read.
THEOREM PolicyHolds == Spec => []PolicyEnforced
<1>1. Init => PolicyInv
  <2>1. Follows(Blank)
    BY DEF Follows, Blank
  <2> QED
    BY <2>1 DEF Init, PolicyInv
<1>2. PolicyInv => PolicyEnforced
  BY DEF PolicyInv, PolicyEnforced, Follows, Granted
<1> QED
  BY <1>1, <1>2, TypeInit, TypeStep, PolicyStep, PTL DEF Spec
-----------------------------------------------------------------------------
(* The tier is one that a rule grants.                                     *)

\* While a request asks its identity provider it remembers rules that are in the
\* table now; a request that has not asked remembers none.
Justified(q, listed) ==
    /\ q.pc \in {"idle", "count_recent", "consume_token", "list_idps"} => q.always = {}
    /\ q.pc \in {"introspect", "list_policy_rules"} =>
          q.always \subseteq listed /\ listed \subseteq q.ever
    /\ q.pc = "append_audit" =>
          \/ \E x \in Matching(q.ever, q.claims) :
                x.tier = q.tier /\ \A y \in Matching(q.always, q.claims) : Before(x, y)
          \/ q.tier = "Endpoint" /\ Matching(q.always, q.claims) = {}

TierInv == \A r \in Requests : Justified(req[r], Listed(rules))

\* No change of the rules breaks what is remembered of them.
LEMMA TierStep == TInv /\ TierInv /\ [Next]_vars => TierInv'
<1> SUFFICES ASSUME TInv, TierInv, [Next]_vars PROVE TierInv'
  OBVIOUS
<1>0. \A q, L : q.pc \in {"done", "issue"} => Justified(q, L)
  BY DEF Justified
<1>1. ASSUME UNCHANGED <<req, rules>> PROVE TierInv'
  BY <1>1 DEF TierInv, Listed
<1>2. CASE RulesStep
  <2> SUFFICES ASSUME NEW r \in Requests PROVE Justified(req'[r], Listed(rules'))
    BY DEF TierInv, Listed
  <2>1. \/ req[r].pc \notin {"introspect", "list_policy_rules"} /\ req'[r] = req[r]
        \/ /\ req[r].pc \in {"introspect", "list_policy_rules"}
           /\ Passed(req[r], req'[r], req[r].pc)
           /\ req'[r].ever = req[r].ever \cup Listed(rules')
           /\ req'[r].always = req[r].always \cap Listed(rules')
    BY <1>2, RulesEffect, NoteRulesEffect
  <2>2. Justified(req[r], Listed(rules))
    BY DEF TierInv
  <2> QED
    BY <2>1, <2>2 DEF Passed, Justified
<1>3. ASSUME NEW r \in Requests, NEW q, Moves(r, q), Justified(q, Listed(rules)) PROVE TierInv'
  BY <1>3 DEF Moves, TierInv, TInv, TypeOK, Listed
<1>4. ASSUME NEW r \in Requests, RequestStep(r) PROVE TierInv'
  <2>0. Justified(req[r], Listed(rules))
    BY DEF TierInv
  <2>1. ASSUME NEW b \in {"none", "token", "oidc"}, EnrollGetFormation(r, b) PROVE TierInv'
    <3>1. PICK q : /\ Moves(r, q) /\ req[r].pc = "idle"
                   /\ (Ended(q) \/ (q.pc = "count_recent" /\ q.always = req[r].always))
      BY <2>1, GetFormationEffect
    <3>2. Justified(q, Listed(rules))
      BY <2>0, <3>1 DEF Justified, Ended
    <3> QED
      BY <1>3, <3>1, <3>2
  <2>2. CASE EnrollCountRecent(r)
    <3>1. PICK q :
            /\ Moves(r, q) /\ req[r].pc = "count_recent"
            /\ \/ Ended(q) \/ q.pc = "done"
               \/ Approved(req[r], q, "Endpoint", FALSE)
               \/ Passed(req[r], q, "consume_token") /\ q.always = req[r].always
               \/ Passed(req[r], q, "list_idps") /\ q.always = req[r].always
      BY <2>2, CountRecentEffect
    <3>2. Justified(q, Listed(rules))
      BY <2>0, <3>1 DEF Justified, Ended, Approved, Passed, Matching
    <3> QED
      BY <1>3, <3>1, <3>2
  <2>3. CASE EnrollConsumeToken(r)
    <3>1. PICK q : /\ Moves(r, q) /\ req[r].pc = "consume_token"
                   /\ (Ended(q) \/ Approved(req[r], q, "Endpoint", TRUE))
      BY <2>3, ConsumeTokenEffect
    <3>2. Justified(q, Listed(rules))
      BY <2>0, <3>1 DEF Justified, Ended, Approved, Matching
    <3> QED
      BY <1>3, <3>1, <3>2
  <2>4. CASE EnrollListIdps(r)
    <3>1. PICK q : /\ Moves(r, q)
                   /\ \/ Ended(q)
                      \/ /\ Passed(req[r], q, "introspect")
                         /\ q.ever = Listed(rules) /\ q.always = Listed(rules)
      BY <2>4, ListIdpsEffect
    <3>2. Justified(q, Listed(rules))
      BY <3>1 DEF Justified, Ended, Passed
    <3> QED
      BY <1>3, <3>1, <3>2
  <2>5. CASE EnrollIntrospect(r)
    <3>1. PICK q : /\ Moves(r, q) /\ req[r].pc = "introspect"
                   /\ \/ Ended(q)
                      \/ /\ Passed(req[r], q, "list_policy_rules")
                         /\ q.ever = req[r].ever /\ q.always = req[r].always
      BY <2>5, IntrospectEffect
    <3>2. Justified(q, Listed(rules))
      BY <2>0, <3>1 DEF Justified, Ended, Passed
    <3> QED
      BY <1>3, <3>1, <3>2
  <2>6. CASE EnrollListPolicyRules(r)
    <3>1. PICK L \in SUBSET PolicyRule : L = Listed(rules)
      BY ListedRules DEF TInv, TypeOK
    <3>2. PICK c : c = req[r].claims
      OBVIOUS
    <3>3. PICK q : /\ Moves(r, q) /\ req[r].pc = "list_policy_rules"
                   /\ Approved(req[r], q, EvaluatePolicy(L, c), FALSE)
      BY <2>6, <3>1, <3>2, ListPolicyRulesEffect
    <3>4. q.always \subseteq L /\ L \subseteq q.ever /\ q.claims = c
      BY <2>0, <3>1, <3>2, <3>3 DEF Justified, Approved
    <3>5. /\ Matching(q.always, q.claims) \subseteq Matching(L, c)
          /\ Matching(L, c) \subseteq Matching(q.ever, q.claims)
      BY <3>4 DEF Matching
    <3>6. q.tier = EvaluatePolicy(L, c) /\ q.pc = "append_audit"
      BY <3>3 DEF Approved
    <3>7. \/ Matching(L, c) = {} /\ q.tier = "Endpoint"
          \/ \E x \in Matching(L, c) : x.tier = q.tier /\ \A y \in Matching(L, c) : Before(x, y)
      BY <3>6, Evaluated
    <3>8. Justified(q, Listed(rules))
      BY <3>5, <3>6, <3>7 DEF Justified
    <3> QED
      BY <1>3, <3>3, <3>8
  <2>7. CASE EnrollAppendAudit(r)
    <3>1. /\ Moves(r, Essentials(r, "issue")) /\ Essentials(r, "issue").pc = "issue"
      BY <2>7, AppendAuditEffect, EssentialsType DEF Steps
    <3> QED
      BY <1>0, <1>3, <3>1
  <2>8. CASE EnrollIssue(r) \/ Drop(r)
    <3>1. PICK q : Moves(r, q) /\ q.pc = "done"
      BY <2>8, IssueEffect, DropEffect DEF Ended
    <3> QED
      BY <1>0, <1>3, <3>1
  <2> QED
    BY <1>4, <2>1, <2>2, <2>3, <2>4, <2>5, <2>6, <2>7, <2>8 DEF RequestStep
<1> QED
  BY <1>1, <1>2, <1>4, NextKinds, AdminLeaves DEF Tick, tables, vars

\* However the policy rules change while the identity provider is asked, the tier
\* of an approved request is that of a rule stored at some time in between, ahead
\* of every matching rule that was there throughout, or Endpoint without one.
THEOREM TierHolds == Spec => []TierJustified
<1>1. Init => TierInv
  <2>1. \A L : Justified(Blank, L)
    BY DEF Justified, Blank
  <2> QED
    BY <2>1 DEF Init, TierInv
<1>2. TierInv => TierJustified
  BY DEF TierInv, TierJustified, Justified
<1> QED
  BY <1>1, <1>2, TypeInit, TypeStep, TierStep, PTL DEF Spec
-----------------------------------------------------------------------------
(* The rate limit.                                                         *)

\* The entries of the window that starts at s.
Hour(s) == {e \in audit : e.time \in s..(s + Window)}

\* A request that has passed the limit and may still add an entry to that window.
Owes(q, s) ==
    \/ /\ q.pc \in {"consume_token", "list_idps", "introspect", "list_policy_rules"}
       /\ now <= s + Window
    \/ q.pc = "append_audit" /\ q.stamp \in s..(s + Window)

Owing(s) == {r \in Requests : Owes(req[r], s)}

\* The time a request counts from is at least an hour ago, and stays so.
AnHourAgo(q) == q.pc = "count_recent" => q.since = 0 \/ q.since + Window <= now

RateInv ==
    /\ IsFiniteSet(audit)
    /\ Cardinality(InFlight) <= MaxInFlight
    /\ \A r \in Requests : AnHourAgo(req[r])
    /\ \A s \in Time : Cardinality(Hour(s)) + Cardinality(Owing(s)) <= Limit + (MaxInFlight - 1)

\* All that is counted here is finite.
LEMMA RateSets ==
    ASSUME RateInv, NEW s
    PROVE  /\ IsFiniteSet(Hour(s)) /\ IsFiniteSet(Owing(s)) /\ IsFiniteSet(InFlight)
           /\ Limit + (MaxInFlight - 1) \in Nat
<1>1. IsFiniteSet(Hour(s))
  <2>1. Hour(s) \subseteq audit /\ IsFiniteSet(audit)
    BY DEF Hour, RateInv
  <2> QED
    BY <2>1, FS_Subset
<1>2. IsFiniteSet(Owing(s)) /\ IsFiniteSet(InFlight)
  <2>1. Owing(s) \subseteq Requests /\ InFlight \subseteq Requests
    BY DEF Owing, InFlight
  <2> QED
    BY <2>1, FS_Subset
<1> QED
  BY <1>1, <1>2

\* A step that adds no request in progress, no entry and nothing owed.
LEMMA RateKept ==
    ASSUME RateInv, audit' \subseteq audit, InFlight' \subseteq InFlight,
           \A r \in Requests : AnHourAgo(req[r])', \A s \in Time : Owing(s)' \subseteq Owing(s)
    PROVE  RateInv'
<1>1. IsFiniteSet(audit')
  BY FS_Subset DEF RateInv
<1>2. Cardinality(InFlight') <= MaxInFlight
  <2>1. /\ Cardinality(InFlight') \in Nat /\ Cardinality(InFlight) \in Nat
        /\ Cardinality(InFlight') <= Cardinality(InFlight)
    BY RateSets, FS_Subset, FS_CardinalityType
  <2> QED
    BY <2>1 DEF RateInv
<1>3. ASSUME NEW s \in Time
      PROVE  Cardinality(Hour(s)') + Cardinality(Owing(s)') <= Limit + (MaxInFlight - 1)
  <2>1. Hour(s)' \subseteq Hour(s) /\ Owing(s)' \subseteq Owing(s)
    BY DEF Hour
  <2>2. /\ IsFiniteSet(Hour(s)) /\ IsFiniteSet(Owing(s)) /\ Limit + (MaxInFlight - 1) \in Nat
        /\ Cardinality(Hour(s)) + Cardinality(Owing(s)) <= Limit + (MaxInFlight - 1)
    BY RateSets DEF RateInv
  <2> QED
    BY <2>1, <2>2, Trade
<1> QED
  BY <1>1, <1>2, <1>3 DEF RateInv

\* A step of a request in progress that adds no entry and nothing owed.
LEMMA RateMove ==
    ASSUME TInv, RateInv, NEW r \in InFlight, NEW q, Moves(r, q), UNCHANGED audit,
           q.pc # "count_recent", \A s \in Time : Owes(q, s) => Owes(req[r], s)
    PROVE  RateInv'
<1>0. /\ req'[r] = q /\ \A x \in Requests \ {r} : req'[x] = req[x]
      /\ UNCHANGED now /\ r \in Requests
  BY DEF Moves, TInv, TypeOK
<1>1. InFlight' \subseteq InFlight
  BY <1>0 DEF InFlight
<1>2. ASSUME NEW x \in Requests PROVE AnHourAgo(req[x])'
  BY <1>0 DEF RateInv, AnHourAgo
<1>3. ASSUME NEW s \in Time PROVE Owing(s)' \subseteq Owing(s)
  BY <1>0 DEF Owing, Owes
<1> QED
  BY <1>1, <1>2, <1>3, RateKept

\* The entries of a window that is still open are all counted.
LEMMA HourCounted ==
    ASSUME TInv, RateInv, NEW r \in Requests, req[r].pc = "count_recent", ~RateLimited(r),
           NEW s \in Time, now <= s + Window
    PROVE  Cardinality(Hour(s)) <= Limit - 1 /\ Cardinality(Hour(s)) \in Nat
<1>1. Hour(s) \subseteq Recent(r)
  <2> SUFFICES ASSUME NEW e \in audit, e.time \in s..(s + Window) PROVE e.time >= req[r].since
    BY DEF Hour, Recent
  <2>1. e.time \in Nat /\ e.time >= s /\ s \in Nat /\ now \in Nat /\ req[r].since \in Nat
    BY DEF TInv, TypeOK, AuditEntry, Time, EnrollRequest
  <2>2. req[r].since = 0 \/ req[r].since + Window <= now
    BY DEF RateInv, AnHourAgo
  <2> QED
    BY <2>1, <2>2
<1>2. IsFiniteSet(Recent(r))
  <2>1. Recent(r) \subseteq audit
    BY DEF Recent
  <2> QED
    BY <2>1, FS_Subset DEF RateInv
<1>3. /\ Cardinality(Recent(r)) \in Nat /\ Cardinality(Hour(s)) \in Nat
      /\ Cardinality(Hour(s)) <= Cardinality(Recent(r))
  BY <1>1, <1>2, FS_Subset, FS_CardinalityType
<1>4. Cardinality(Recent(r)) < Limit
  BY <1>3 DEF RateLimited
<1> QED
  BY <1>3, <1>4

\* A request that passes the limit: the window it may add to is below the limit,
\* and all that is owed to it is owed by requests in progress.
LEMMA RateCounted ==
    ASSUME TInv, RateInv, NEW r \in Requests, EnrollCountRecent(r)
    PROVE  RateInv'
<1>1. PICK q : /\ Moves(r, q) /\ req[r].pc = "count_recent" /\ UNCHANGED audit
               /\ q.pc # "count_recent"
               /\ \/ q.pc = "done"
                  \/ /\ ~RateLimited(r) /\ q.pc \in {"append_audit", "consume_token", "list_idps"}
                     /\ q.pc = "append_audit" => q.stamp = now
  BY CountRecentEffect, ZenonT(40) DEF Ended, Approved, Passed
<1>2. r \in InFlight
  BY <1>1 DEF InFlight
<1>3. CASE q.pc = "done"
  <2>1. \A s \in Time : ~Owes(q, s)
    BY <1>3 DEF Owes
  <2> QED
    BY <1>1, <1>2, <2>1, RateMove
<1>4. CASE ~RateLimited(r) /\ q.pc # "done"
  <2>0. /\ req'[r] = q /\ \A x \in Requests \ {r} : req'[x] = req[x]
        /\ UNCHANGED now
    BY <1>1 DEF Moves, TInv, TypeOK
  <2>1. InFlight' \subseteq InFlight
    BY <1>1, <1>2, <2>0 DEF InFlight
  <2>2. \A x \in Requests : AnHourAgo(req[x])'
    BY <1>1, <2>0 DEF RateInv, AnHourAgo
  <2>3. /\ Cardinality(InFlight') \in Nat /\ IsFiniteSet(InFlight')
        /\ Cardinality(InFlight') <= MaxInFlight
    <3>1. /\ Cardinality(InFlight') \in Nat /\ Cardinality(InFlight) \in Nat
          /\ Cardinality(InFlight') <= Cardinality(InFlight) /\ IsFiniteSet(InFlight')
      BY <2>1, RateSets, FS_Subset, FS_CardinalityType
    <3> QED
      BY <3>1 DEF RateInv
  <2>4. ASSUME NEW s \in Time
        PROVE  Cardinality(Hour(s)') + Cardinality(Owing(s)') <= Limit + (MaxInFlight - 1)
    <3>0. Hour(s)' = Hour(s)
      BY <1>1 DEF Hour
    <3>1. CASE now <= s + Window
      <4>1. Cardinality(Hour(s)) <= Limit - 1 /\ Cardinality(Hour(s)) \in Nat
        BY <1>1, <1>4, <3>1, HourCounted
      <4>2. Owing(s)' \subseteq InFlight'
        BY DEF Owing, Owes, InFlight
      <4>3. /\ Cardinality(Owing(s)') \in Nat
            /\ Cardinality(Owing(s)') <= Cardinality(InFlight')
        BY <2>3, <4>2, FS_Subset, FS_CardinalityType
      <4> QED
        BY <2>3, <3>0, <4>1, <4>3
    <3>2. CASE ~(now <= s + Window)
      <4>1. ~Owes(q, s)
        <5>1. now \in Nat /\ s \in Nat
          BY DEF TInv, TypeOK, Time
        <5> QED
          BY <1>1, <1>4, <3>2, <5>1 DEF Owes
      <4>2. Owing(s)' \subseteq Owing(s)
        BY <2>0, <4>1 DEF Owing, Owes
      <4>3. /\ IsFiniteSet(Hour(s)) /\ IsFiniteSet(Owing(s)) /\ Limit + (MaxInFlight - 1) \in Nat
            /\ Cardinality(Hour(s)) + Cardinality(Owing(s)) <= Limit + (MaxInFlight - 1)
        BY RateSets DEF RateInv
      <4> QED
        BY <3>0, <4>2, <4>3, Trade
    <3> QED
      BY <3>1, <3>2
  <2> QED
    BY <1>1, <2>2, <2>3, <2>4 DEF RateInv
<1> QED
  BY <1>1, <1>3, <1>4

\* An entry is added for one that was owed.
LEMMA RateAppended ==
    ASSUME TInv, RateInv, NEW r \in Requests, EnrollAppendAudit(r)
    PROVE  RateInv'
<1>1. PICK q : /\ Moves(r, q) /\ req[r].pc = "append_audit" /\ q.pc = "issue"
               /\ (audit' = audit \/ audit' = audit \cup {[req |-> r, time |-> req[r].stamp]})
  BY AppendAuditEffect, EssentialsType DEF Steps
<1>2. r \in InFlight
  BY <1>1 DEF InFlight
<1>3. CASE audit' = audit
  <2>1. \A s \in Time : ~Owes(q, s)
    BY <1>1 DEF Owes
  <2> QED
    BY <1>1, <1>2, <1>3, <2>1, RateMove
<1>4. CASE audit' = audit \cup {[req |-> r, time |-> req[r].stamp]}
  <2>0. /\ req'[r] = q /\ \A x \in Requests \ {r} : req'[x] = req[x]
        /\ UNCHANGED now
    BY <1>1 DEF Moves, TInv, TypeOK
  <2>1. IsFiniteSet(audit')
    BY <1>4, FS_AddElement DEF RateInv
  <2>2. InFlight' \subseteq InFlight
    BY <1>2, <2>0 DEF InFlight
  <2>3. Cardinality(InFlight') <= MaxInFlight
    <3>1. /\ Cardinality(InFlight') \in Nat /\ Cardinality(InFlight) \in Nat
          /\ Cardinality(InFlight') <= Cardinality(InFlight)
      BY <2>2, RateSets, FS_Subset, FS_CardinalityType
    <3> QED
      BY <3>1 DEF RateInv
  <2>4. \A x \in Requests : AnHourAgo(req[x])'
    BY <1>1, <2>0 DEF RateInv, AnHourAgo
  <2>5. ASSUME NEW s \in Time
        PROVE  Cardinality(Hour(s)') + Cardinality(Owing(s)') <= Limit + (MaxInFlight - 1)
    <3>0. Owing(s)' \subseteq Owing(s) \ {r}
      BY <1>1, <2>0 DEF Owing, Owes
    <3>1. \/ Hour(s)' \subseteq Hour(s)
          \/ /\ r \in Owing(s)
             /\ Hour(s)' \subseteq Hour(s) \cup {[req |-> r, time |-> req[r].stamp]}
      <4>1. PICK e : e = [req |-> r, time |-> req[r].stamp]
        OBVIOUS
      <4>2. e.time = req[r].stamp /\ audit' = audit \cup {e}
        BY <1>4, <4>1
      <4>3. CASE req[r].stamp \in s..(s + Window)
        BY <1>1, <4>1, <4>2, <4>3 DEF Hour, Owing, Owes
      <4>4. CASE req[r].stamp \notin s..(s + Window)
        BY <4>2, <4>4 DEF Hour
      <4> QED
        BY <4>3, <4>4
    <3>2. /\ IsFiniteSet(Hour(s)) /\ IsFiniteSet(Owing(s)) /\ Limit + (MaxInFlight - 1) \in Nat
          /\ Cardinality(Hour(s)) + Cardinality(Owing(s)) <= Limit + (MaxInFlight - 1)
      BY RateSets DEF RateInv
    <3>3. CASE Hour(s)' \subseteq Hour(s)
      BY <3>0, <3>2, <3>3, Trade
    <3>4. CASE \E a : r \in Owing(s) /\ Hour(s)' \subseteq Hour(s) \cup {a}
      <4>1. \E a, x : /\ x \in Owing(s) /\ Hour(s)' \subseteq Hour(s) \cup {a}
                      /\ Owing(s)' \subseteq Owing(s) \ {x}
        BY <3>0, <3>4
      <4>2. PICK F, W, G, V, n :
               /\ F = Hour(s) /\ W = Owing(s) /\ G = Hour(s)' /\ V = Owing(s)'
               /\ n = Limit + (MaxInFlight - 1)
        OBVIOUS
      <4>3. /\ IsFiniteSet(F) /\ IsFiniteSet(W) /\ n \in Nat
            /\ Cardinality(F) + Cardinality(W) <= n
            /\ \E a, x : x \in W /\ G \subseteq F \cup {a} /\ V \subseteq W \ {x}
        BY <3>2, <4>1, <4>2
      <4>4. Cardinality(G) + Cardinality(V) <= n
        BY <4>3, Trade
      <4> QED
        BY <4>2, <4>4
    <3> QED
      BY <3>1, <3>3, <3>4
  <2> QED
    BY <2>1, <2>3, <2>4, <2>5 DEF RateInv
<1> QED
  BY <1>1, <1>3, <1>4

\* A request is admitted while there is room, and owes nothing yet.
LEMMA RateAdmitted ==
    ASSUME TInv, RateInv, NEW r \in Requests, NEW b \in {"none", "token", "oidc"},
           EnrollGetFormation(r, b)
    PROVE  RateInv'
<1>1. PICK q : /\ Moves(r, q) /\ req[r].pc = "idle" /\ UNCHANGED audit
               /\ Cardinality(InFlight) < MaxInFlight
               /\ \/ q.pc = "done"
                  \/ q.pc = "count_recent" /\ q.since = AnHourBefore(now)
  BY GetFormationEffect DEF Ended
<1>2. /\ req'[r] = q /\ \A x \in Requests \ {r} : req'[x] = req[x]
      /\ UNCHANGED now /\ now \in Nat
  BY <1>1 DEF Moves, TInv, TypeOK, Time
<1>3. Cardinality(InFlight') <= MaxInFlight
  <2>1. InFlight' \subseteq InFlight \cup {r}
    BY <1>2 DEF InFlight
  <2>2. /\ Cardinality(InFlight) \in Nat /\ IsFiniteSet(InFlight \cup {r})
        /\ Cardinality(InFlight \cup {r}) \in Nat
        /\ Cardinality(InFlight \cup {r}) <= Cardinality(InFlight) + 1
    <3>1. /\ IsFiniteSet(InFlight \cup {r})
          /\ Cardinality(InFlight \cup {r}) =
                 IF r \in InFlight THEN Cardinality(InFlight) ELSE Cardinality(InFlight) + 1
      BY RateSets, FS_AddElement
    <3> QED
      BY <3>1, RateSets, FS_CardinalityType
  <2>3. Cardinality(InFlight') \in Nat /\ Cardinality(InFlight') <= Cardinality(InFlight \cup {r})
    BY <2>1, <2>2, FS_Subset, FS_CardinalityType
  <2> QED
    BY <1>1, <2>2, <2>3
<1>4. \A x \in Requests : AnHourAgo(req[x])'
  <2>1. AnHourBefore(now) = 0 \/ AnHourBefore(now) + Window <= now
    BY <1>2 DEF AnHourBefore
  <2> QED
    BY <1>1, <1>2, <2>1 DEF RateInv, AnHourAgo
<1>5. ASSUME NEW s \in Time
      PROVE  Cardinality(Hour(s)') + Cardinality(Owing(s)') <= Limit + (MaxInFlight - 1)
  <2>1. Hour(s)' \subseteq Hour(s) /\ Owing(s)' \subseteq Owing(s)
    BY <1>1, <1>2 DEF Hour, Owing, Owes
  <2>2. /\ IsFiniteSet(Hour(s)) /\ IsFiniteSet(Owing(s)) /\ Limit + (MaxInFlight - 1) \in Nat
        /\ Cardinality(Hour(s)) + Cardinality(Owing(s)) <= Limit + (MaxInFlight - 1)
    BY RateSets DEF RateInv
  <2> QED
    BY <2>1, <2>2, Trade
<1> QED
  BY <1>1, <1>3, <1>4, <1>5 DEF RateInv

\* Every step keeps the windows within the limit and the requests in progress.
LEMMA RateStep == TInv /\ RateInv /\ [Next]_vars => RateInv'
<1> SUFFICES ASSUME TInv, RateInv, [Next]_vars PROVE RateInv'
  OBVIOUS
<1>1. ASSUME UNCHANGED <<req, audit>>, now' >= now, now' \in Nat PROVE RateInv'
  <2>0. now \in Nat /\ \A r \in Requests : req[r].since \in Nat
    BY DEF TInv, TypeOK, Time, EnrollRequest
  <2>1. InFlight' \subseteq InFlight
    BY <1>1 DEF InFlight
  <2>2. ASSUME NEW r \in Requests PROVE AnHourAgo(req[r])'
    BY <1>1, <2>0 DEF RateInv, AnHourAgo
  <2>3. ASSUME NEW s \in Time PROVE Owing(s)' \subseteq Owing(s)
    BY <1>1, <2>0 DEF Owing, Owes, Time
  <2> QED
    BY <1>1, <2>1, <2>2, <2>3, RateKept
<1>2. now \in Nat
  BY DEF TInv, TypeOK, Time
<1>3. CASE AdminStep \/ UNCHANGED vars
  BY <1>1, <1>2, <1>3, AdminLeaves DEF vars, tables
<1>4. CASE Tick
  BY <1>1, <1>2, <1>4 DEF Tick, tables
<1>5. CASE RulesStep
  <2>1. (audit' = audit \/ audit' = {}) /\ UNCHANGED now
    BY <1>5, RulesEffect
  <2>2. \A r \in Requests : \/ req'[r] = req[r]
                           \/ /\ req[r].pc \in {"introspect", "list_policy_rules"}
                              /\ req'[r].pc = req[r].pc
    BY <1>5, RulesEffect, NoteRulesEffect DEF Passed
  <2>3. InFlight' \subseteq InFlight
    BY <2>2 DEF InFlight
  <2>4. \A r \in Requests : AnHourAgo(req[r])'
    BY <2>1, <2>2 DEF RateInv, AnHourAgo
  <2>5. \A s \in Time : Owing(s)' \subseteq Owing(s)
    BY <2>1, <2>2 DEF Owing, Owes
  <2>6. audit' \subseteq audit
    BY <2>1
  <2> QED
    BY <2>3, <2>4, <2>5, <2>6, RateKept
<1>6. ASSUME NEW r \in Requests, RequestStep(r) PROVE RateInv'
  <2>1. CASE EnrollConsumeToken(r) \/ EnrollListIdps(r)
    <3>1. PICK q : /\ Moves(r, q) /\ UNCHANGED audit
                   /\ req[r].pc \in {"consume_token", "list_idps"}
                   /\ \/ q.pc \in {"done", "introspect"}
                      \/ q.pc = "append_audit" /\ q.stamp = now
      BY <2>1, ConsumeTokenEffect, ListIdpsEffect DEF Ended, Approved, Passed
    <3>2. r \in InFlight
      BY <3>1 DEF InFlight
    <3>3. \A s \in Time : Owes(q, s) => Owes(req[r], s)
      BY <1>2, <3>1 DEF Owes, Time
    <3>4. q.pc # "count_recent"
      BY <3>1
    <3> QED
      BY <3>1, <3>2, <3>3, <3>4, RateMove
  <2>2. CASE EnrollIntrospect(r) \/ EnrollListPolicyRules(r)
    <3>1. PICK q : /\ Moves(r, q) /\ UNCHANGED audit
                   /\ req[r].pc \in {"introspect", "list_policy_rules"}
                   /\ \/ q.pc \in {"done", "list_policy_rules"}
                      \/ q.pc = "append_audit" /\ q.stamp = now
      <4>1. CASE EnrollIntrospect(r)
        BY <4>1, IntrospectEffect DEF Ended, Passed
      <4>2. CASE EnrollListPolicyRules(r)
        <5>1. PICK q, t : /\ Moves(r, q) /\ Approved(req[r], q, t, FALSE) /\ UNCHANGED audit
                          /\ req[r].pc = "list_policy_rules"
          BY <4>2, ListPolicyRulesEffect
        <5>2. q.pc = "append_audit" /\ q.stamp = now
          BY <5>1 DEF Approved
        <5> QED
          BY <5>1, <5>2
      <4> QED
        BY <2>2, <4>1, <4>2
    <3>2. r \in InFlight
      BY <3>1 DEF InFlight
    <3>3. \A s \in Time : Owes(q, s) => Owes(req[r], s)
      BY <1>2, <3>1 DEF Owes, Time
    <3>4. q.pc # "count_recent"
      BY <3>1
    <3> QED
      BY <3>1, <3>2, <3>3, <3>4, RateMove
  <2>3. CASE EnrollIssue(r) \/ Drop(r)
    <3>1. PICK q : Moves(r, q) /\ UNCHANGED audit /\ q.pc = "done" /\ r \in InFlight
      BY <2>3, IssueEffect, DropEffect DEF Ended, InFlight
    <3>2. \A s \in Time : ~Owes(q, s)
      BY <3>1 DEF Owes
    <3> QED
      BY <3>1, <3>2, RateMove
  <2> QED
    BY <1>6, <2>1, <2>2, <2>3, RateCounted, RateAppended, RateAdmitted DEF RequestStep
<1> QED
  BY <1>3, <1>4, <1>5, <1>6, NextKinds

\* Requests that overlap may pass the limit together, but no window of the audit
\* log ever holds more entries than the limit and the other requests in progress.
THEOREM RateHolds == Spec => []RateOvershootBounded
<1>1. Init => RateInv
  <2> SUFFICES ASSUME Init PROVE RateInv
    OBVIOUS
  <2>1. audit = {} /\ \A r \in Requests : req[r].pc = "idle"
    BY DEF Init, Blank
  <2>2. InFlight = {} /\ \A s \in Time : Hour(s) = {} /\ Owing(s) = {}
    BY <2>1 DEF InFlight, Hour, Owing, Owes
  <2>3. IsFiniteSet({}) /\ Cardinality({}) = 0
    BY FS_EmptySet
  <2>4. \A r \in Requests : AnHourAgo(req[r])
    BY <2>1 DEF AnHourAgo
  <2>5. 0 <= MaxInFlight /\ 0 + 0 <= Limit + (MaxInFlight - 1)
    OBVIOUS
  <2>6. \A s \in Time : Cardinality(Hour(s)) = 0 /\ Cardinality(Owing(s)) = 0
    BY <2>2, <2>3
  <2>7. Cardinality(InFlight) = 0 /\ IsFiniteSet(audit)
    BY <2>1, <2>2, <2>3
  <2> QED
    BY <2>4, <2>5, <2>6, <2>7 DEF RateInv
<1>2. RateInv => RateOvershootBounded
  <2> SUFFICES ASSUME RateInv, NEW s \in Time
               PROVE  Cardinality(Hour(s)) <= Limit + (MaxInFlight - 1)
    BY DEF RateOvershootBounded, Hour
  <2>1. Cardinality(Hour(s)) \in Nat /\ Cardinality(Owing(s)) \in Nat
    BY RateSets, FS_CardinalityType
  <2>2. Cardinality(Hour(s)) + Cardinality(Owing(s)) <= Limit + (MaxInFlight - 1)
    BY DEF RateInv
  <2> QED
    BY <2>1, <2>2
<1> QED
  BY <1>1, <1>2, TypeInit, TypeStep, RateStep, PTL DEF Spec

=============================================================================
