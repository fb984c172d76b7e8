---------------------------- MODULE TokensProofs ----------------------------
(***************************************************************************)
(* Theorems about Tokens, for every set of tokens, formations and requests *)
(* and either backend.                                                     *)
(***************************************************************************)
EXTENDS Tokens, FiniteSetTheorems, TLAPS

USE OptionAssumption, BackendAssumption

Rows == EnrollmentToken \cup {NoRow}

\* An update touches one row, if any, and keeps the type of the table.
LEMMA UpdateType ==
    ASSUME tokens \in [TokenIds -> Rows], NEW k \in TokenIds, NEW row \in Rows
    PROVE  /\ UpdateToken(k, row) \in [TokenIds -> Rows]
           /\ \A x \in TokenIds : \/ UpdateToken(k, row)[x] = tokens[x]
                                  \/ x = k /\ UpdateToken(k, row)[x] = row
BY DEF UpdateToken, Update, RedbUpdate, PgUpdate, Put, Present

\* So does an insert.
LEMMA InsertType ==
    ASSUME tokens \in [TokenIds -> Rows], NEW k \in TokenIds, NEW row \in Rows
    PROVE  /\ Insert(tokens, k, row, orgLive) \in [TokenIds -> Rows]
           /\ \A x \in TokenIds : \/ Insert(tokens, k, row, orgLive)[x] = tokens[x]
                                  \/ x = k /\ Insert(tokens, k, row, orgLive)[x] = row
BY DEF Insert, Put

\* A new token is a well-formed row.
LEMMA NewTokenType ==
    ASSUME NEW a \in Apps, NEW m \in MaxUsesArgs, NEW e \in ExpiryArgs
    PROVE  /\ NewToken(a, m, e) \in EnrollmentToken
           /\ NewToken(a, m, e).uses = 0
           /\ NewToken(a, m, e).max_uses = m
           /\ NewToken(a, m, e).revoked = FALSE
BY DEF NewToken, EnrollmentToken

\* The parts of the inductive invariant that link a request's position to what
\* it has read.
Located ==
    \A r \in Requests :
        /\ pc[r] \in {"create_get_formation", "create_insert"} => app[r] \in Apps
        /\ pc[r] \in {"consume_check", "consume_write", "consume_return", "revoke_write"}
              => tok[r] \in TokenIds /\ copy[r] \in EnrollmentToken

\* A token within its limit.
Within(token) == token.max_uses # None => token.uses <= token.max_uses

\* Stale copies are within the limit too, and have a use left once checked.
CopiesWithin ==
    \A r \in Requests :
        /\ pc[r] \in {"consume_check", "revoke_write"} => Within(copy[r])
        /\ pc[r] = "consume_write" => ~Exhausted(copy[r])

TInv == TypeOK /\ Located

\* Types hold initially.
LEMMA TypeInit == Init => TInv
<1> SUFFICES ASSUME Init PROVE TInv
  OBVIOUS
<1>1. ASSUME NEW x \in NewTokens PROVE x \in EnrollmentToken
  <2>1. x = [app_id |-> x.app_id, max_uses |-> x.max_uses, uses |-> x.uses,
             expires_at |-> x.expires_at, revoked |-> x.revoked]
    BY DEF NewTokens
  <2>2. /\ x.app_id \in Apps /\ x.uses = 0
        /\ x.max_uses \in MaxUsesArgs /\ x.expires_at \in ExpiryArgs
    BY DEF NewTokens
  <2>3. x.revoked \in {FALSE}
    BY DEF NewTokens
  <2>4. x.revoked \in BOOLEAN
    BY <2>3, Zenon
  <2> QED
    BY <2>1, <2>2, <2>4 DEF EnrollmentToken
<1>2. tokens \in [TokenIds -> EnrollmentToken \cup {NoRow}]
  BY <1>1 DEF Init
<1> QED
  BY <1>2 DEF Init, TInv, TypeOK, Located, Steps

\* Every step keeps the types of the tables and of the requests' copies.
LEMMA TypeStep == TInv /\ [Next]_vars => TInv'
<1> SUFFICES ASSUME TInv, [Next]_vars PROVE TInv'
  OBVIOUS
<1> USE DEF TInv, TypeOK, Located, Steps, store, local, history, Goto, Arrive
<1>1. ASSUME NEW r \in Requests, NEW a \in Apps, CreateTokenGetOrg(r, a)
      PROVE  TInv'
  BY <1>1 DEF CreateTokenGetOrg
<1>2. ASSUME NEW r \in Requests, NEW a \in Apps, CreateFormation(r, a)
      PROVE  TInv'
  BY <1>2 DEF CreateFormation
<1>3. ASSUME NEW r \in Requests, NEW a \in Apps, DeleteFormation(r, a)
      PROVE  TInv'
  BY <1>3 DEF DeleteFormation
<1>4. ASSUME NEW r \in Requests, CreateTokenGetFormation(r)
      PROVE  TInv'
  BY <1>4 DEF CreateTokenGetFormation
<1>5. ASSUME NEW r \in Requests, CreateTokenInsert(r)
      PROVE  TInv'
  <2>1. app[r] \in Apps
    BY <1>5 DEF CreateTokenInsert
  <2>2. PICK t \in FreshIds, m \in MaxUsesArgs, e \in ExpiryArgs :
            /\ tokens' = Insert(tokens, t, NewToken(app[r], m, e), orgLive)
            /\ issued' = IF InsertOk(tokens, t, orgLive) THEN issued \cup {t} ELSE issued
    BY <1>5 DEF CreateTokenInsert
  <2>3. t \in TokenIds
    BY <2>2 DEF FreshIds
  <2>4. NewToken(app[r], m, e) \in EnrollmentToken
    BY <2>1, NewTokenType
  <2>5. tokens' \in [TokenIds -> EnrollmentToken \cup {NoRow}]
    BY <2>2, <2>3, <2>4, InsertType DEF Rows
  <2> QED
    BY <1>5, <2>2, <2>3, <2>5 DEF CreateTokenInsert
<1>6. ASSUME NEW r \in Requests, NEW t \in TokenIds, NEW a \in Apps, ConsumeGet(r, t, a)
      PROVE  TInv'
  BY <1>6 DEF ConsumeGet, Present
<1>7. ASSUME NEW r \in Requests, NEW t \in TokenIds, RevokeGet(r, t)
      PROVE  TInv'
  BY <1>7 DEF RevokeGet, Present, Revocable
<1>8. ASSUME NEW r \in Requests, NEW t \in TokenIds, DeleteToken(r, t)
      PROVE  TInv'
  BY <1>8 DEF DeleteToken, Remove, Put
<1>9. ASSUME NEW r \in Requests, ConsumeCheck(r)
      PROVE  TInv'
  BY <1>9 DEF ConsumeCheck
<1>10. ASSUME NEW r \in Requests, ConsumeWrite(r)
      PROVE  TInv'
  <2>1. tok[r] \in TokenIds /\ copy[r] \in EnrollmentToken
    BY <1>10 DEF ConsumeWrite
  <2>2. Consume(copy[r]) \in EnrollmentToken
    BY <2>1 DEF EnrollmentToken, Consume
  <2>3. tokens' \in [TokenIds -> EnrollmentToken \cup {NoRow}]
    BY <1>10, <2>1, <2>2, UpdateType DEF ConsumeWrite, Rows
  <2> QED
    BY <1>10, <2>1, <2>3 DEF ConsumeWrite
<1>11. ASSUME NEW r \in Requests, ConsumeReturn(r)
      PROVE  TInv'
  BY <1>11 DEF ConsumeReturn
<1>12. ASSUME NEW r \in Requests, RevokeWrite(r)
      PROVE  TInv'
  <2>1. tok[r] \in TokenIds /\ copy[r] \in EnrollmentToken
    BY <1>12 DEF RevokeWrite
  <2>2. [copy[r] EXCEPT !.revoked = TRUE] \in EnrollmentToken
    BY <2>1 DEF EnrollmentToken, Consume
  <2>3. tokens' \in [TokenIds -> EnrollmentToken \cup {NoRow}]
    BY <1>12, <2>1, <2>2, UpdateType DEF RevokeWrite, Rows
  <2> QED
    BY <1>12, <2>1, <2>3 DEF RevokeWrite
<1>13. ASSUME NEW r \in Requests, DeleteOrg(r)
      PROVE  TInv'
  BY <1>13 DEF DeleteOrg, CascadeDelete, Empty
<1>14. ASSUME NEW r \in Requests, CreateOrg(r)
      PROVE  TInv'
  BY <1>14 DEF CreateOrg
<1>15. ASSUME NEW r \in Requests, Drop(r)
      PROVE  TInv'
  BY <1>15 DEF Drop, InFlight
<1>16. CASE Tick
  BY <1>16 DEF Tick
<1>17. CASE UNCHANGED vars
  BY <1>17 DEF vars
<1> QED
  BY <1>1, <1>2, <1>3, <1>4, <1>5, <1>6, <1>7, <1>8, <1>9, <1>10,
     <1>11, <1>12, <1>13, <1>14, <1>15, <1>16, <1>17 DEF Next, AllServed

\* Every variable keeps its type in every behaviour of the token calls, and a
\* request that will write a token back holds a well-formed copy of one.
THEOREM TypeCorrect == Spec => []TypeOK
<1>1. TInv => TypeOK
  BY DEF TInv
<1> QED
  BY <1>1, TypeInit, TypeStep, PTL DEF Spec

-----------------------------------------------------------------------------
(* The counter never passes the limit.  UsesWithinMax alone is not          *)
(* inductive: a step may write any copy a request has read, so the copies   *)
(* of requests under way must be within the limit as well.                  *)

IInv == TInv /\ UsesWithinMax /\ CopiesWithin

\* One more use of a token that is not exhausted stays within the limit.
LEMMA ConsumeWithin ==
    ASSUME NEW c \in EnrollmentToken, ~Exhausted(c)
    PROVE  Within(Consume(c))
BY DEF EnrollmentToken, Exhausted, Within, Consume

\* A new token is within its limit, even one that allows no use.
LEMMA NewTokenWithin ==
    ASSUME NEW a \in Apps, NEW m \in MaxUsesArgs, NEW e \in ExpiryArgs
    PROVE  Within(NewToken(a, m, e))
<1>1. m # None => m \in Nat
  OBVIOUS
<1>2. m # None => 0 <= m
  BY <1>1
<1>3. NewToken(a, m, e).uses = 0 /\ NewToken(a, m, e).max_uses = m
  BY DEF NewToken
<1> QED
  BY <1>2, <1>3 DEF Within

\* The limit holds initially: stored tokens have no use yet.
LEMMA WithinInit == Init => UsesWithinMax /\ CopiesWithin
<1> SUFFICES ASSUME Init PROVE UsesWithinMax /\ CopiesWithin
  OBVIOUS
<1>1. ASSUME NEW t \in TokenIds, Present(tokens, t), tokens[t].max_uses # None
      PROVE  tokens[t].uses <= tokens[t].max_uses
  <2>1. tokens[t] \in NewTokens
    BY <1>1 DEF Init, Present
  <2>2. tokens[t].uses = 0 /\ tokens[t].max_uses \in MaxUsesArgs
    BY <2>1 DEF NewTokens
  <2>3. tokens[t].max_uses \in Nat
    BY <1>1, <2>2
  <2> QED
    BY <2>2, <2>3
<1> QED
  BY <1>1 DEF Init, UsesWithinMax, CopiesWithin

\* No step takes a stored token, or a copy that may be stored, over its limit.
LEMMA WithinStep == IInv /\ [Next]_vars => UsesWithinMax' /\ CopiesWithin'
<1> SUFFICES ASSUME IInv, [Next]_vars PROVE UsesWithinMax' /\ CopiesWithin'
  OBVIOUS
<1> USE DEF IInv, TInv, TypeOK, Located, UsesWithinMax, CopiesWithin, Within,
            Present, store, local, history, Goto, Arrive
<1>1. ASSUME NEW r \in Requests, NEW a \in Apps, CreateTokenGetOrg(r, a)
      PROVE  UsesWithinMax' /\ CopiesWithin'
  BY <1>1 DEF CreateTokenGetOrg
<1>2. ASSUME NEW r \in Requests, NEW a \in Apps, CreateFormation(r, a)
      PROVE  UsesWithinMax' /\ CopiesWithin'
  BY <1>2 DEF CreateFormation
<1>3. ASSUME NEW r \in Requests, NEW a \in Apps, DeleteFormation(r, a)
      PROVE  UsesWithinMax' /\ CopiesWithin'
  BY <1>3 DEF DeleteFormation
<1>4. ASSUME NEW r \in Requests, CreateTokenGetFormation(r)
      PROVE  UsesWithinMax' /\ CopiesWithin'
  BY <1>4 DEF CreateTokenGetFormation
<1>5. ASSUME NEW r \in Requests, CreateTokenInsert(r)
      PROVE  UsesWithinMax' /\ CopiesWithin'
  <2>1. app[r] \in Apps
    BY <1>5 DEF CreateTokenInsert
  <2>2. PICK t \in FreshIds, m \in MaxUsesArgs, e \in ExpiryArgs :
            tokens' = Insert(tokens, t, NewToken(app[r], m, e), orgLive)
    BY <1>5 DEF CreateTokenInsert
  <2>3. /\ NewToken(app[r], m, e) \in EnrollmentToken
        /\ Within(NewToken(app[r], m, e))
    BY <2>1, NewTokenType, NewTokenWithin
  <2>4. \A x \in TokenIds : \/ tokens'[x] = tokens[x]
                            \/ tokens'[x] = NewToken(app[r], m, e)
    BY <2>2, <2>3, InsertType DEF Rows, FreshIds
  <2>5. UsesWithinMax'
    BY <2>3, <2>4
  <2> QED
    BY <1>5, <2>5 DEF CreateTokenInsert
<1>6. ASSUME NEW r \in Requests, NEW t \in TokenIds, NEW a \in Apps, ConsumeGet(r, t, a)
      PROVE  UsesWithinMax' /\ CopiesWithin'
  BY <1>6 DEF ConsumeGet
<1>7. ASSUME NEW r \in Requests, NEW t \in TokenIds, RevokeGet(r, t)
      PROVE  UsesWithinMax' /\ CopiesWithin'
  BY <1>7 DEF RevokeGet, Revocable
<1>8. ASSUME NEW r \in Requests, NEW t \in TokenIds, DeleteToken(r, t)
      PROVE  UsesWithinMax' /\ CopiesWithin'
  BY <1>8 DEF DeleteToken, Remove, Put
<1>9. ASSUME NEW r \in Requests, ConsumeCheck(r)
      PROVE  UsesWithinMax' /\ CopiesWithin'
  BY <1>9 DEF ConsumeCheck, Valid
<1>10. ASSUME NEW r \in Requests, ConsumeWrite(r)
      PROVE  UsesWithinMax' /\ CopiesWithin'
  <2>1. tok[r] \in TokenIds /\ copy[r] \in EnrollmentToken
    BY <1>10 DEF ConsumeWrite
  <2>2. Consume(copy[r]) \in EnrollmentToken
    BY <2>1 DEF EnrollmentToken, Consume
  <2>3. Within(Consume(copy[r]))
    BY <1>10, <2>1, ConsumeWithin DEF ConsumeWrite
  <2>4. \A x \in TokenIds : tokens'[x] = tokens[x] \/ tokens'[x] = Consume(copy[r])
    BY <1>10, <2>1, <2>2, UpdateType DEF ConsumeWrite, Rows
  <2>5. UsesWithinMax'
    BY <2>3, <2>4
  <2> QED
    BY <1>10, <2>5 DEF ConsumeWrite
<1>11. ASSUME NEW r \in Requests, ConsumeReturn(r)
      PROVE  UsesWithinMax' /\ CopiesWithin'
  BY <1>11 DEF ConsumeReturn
<1>12. ASSUME NEW r \in Requests, RevokeWrite(r)
      PROVE  UsesWithinMax' /\ CopiesWithin'
  <2>1. tok[r] \in TokenIds /\ copy[r] \in EnrollmentToken
    BY <1>12 DEF RevokeWrite
  <2>2. [copy[r] EXCEPT !.revoked = TRUE] \in EnrollmentToken
    BY <2>1 DEF EnrollmentToken, Consume
  <2>3. Within([copy[r] EXCEPT !.revoked = TRUE])
    BY <1>12, <2>1 DEF RevokeWrite, EnrollmentToken
  <2>4. \A x \in TokenIds : tokens'[x] = tokens[x] \/ tokens'[x] = [copy[r] EXCEPT !.revoked = TRUE]
    BY <1>12, <2>1, <2>2, UpdateType DEF RevokeWrite, Rows
  <2>5. UsesWithinMax'
    BY <2>3, <2>4
  <2> QED
    BY <1>12, <2>5 DEF RevokeWrite
<1>13. ASSUME NEW r \in Requests, DeleteOrg(r)
      PROVE  UsesWithinMax' /\ CopiesWithin'
  BY <1>13 DEF DeleteOrg, CascadeDelete, Empty
<1>14. ASSUME NEW r \in Requests, CreateOrg(r)
      PROVE  UsesWithinMax' /\ CopiesWithin'
  BY <1>14 DEF CreateOrg
<1>15. ASSUME NEW r \in Requests, Drop(r)
      PROVE  UsesWithinMax' /\ CopiesWithin'
  BY <1>15 DEF Drop, InFlight
<1>16. CASE Tick
  BY <1>16 DEF Tick
<1>17. CASE UNCHANGED vars
  BY <1>17 DEF vars
<1> QED
  BY <1>1, <1>2, <1>3, <1>4, <1>5, <1>6, <1>7, <1>8, <1>9, <1>10,
     <1>11, <1>12, <1>13, <1>14, <1>15, <1>16, <1>17 DEF Next, AllServed

\* A persisted token never records more uses than max_uses allows, for any
\* number of overlapping requests, over either backend.
THEOREM UsesNeverPassMax == Spec => []UsesWithinMax
<1>1. Init => IInv
  BY TypeInit, WithinInit DEF IInv
<1>2. IInv /\ [Next]_vars => IInv'
  BY TypeStep, WithinStep DEF IInv
<1>3. IInv => UsesWithinMax
  BY DEF IInv
<1> QED
  BY <1>1, <1>2, <1>3, PTL DEF Spec

-----------------------------------------------------------------------------
(* Over Postgres no token outlives its organization.                        *)

\* The foreign key keeps an insert out of a deleted organization, an UPDATE of
\* a cascaded row changes nothing.
LEMMA OrphanStep == TInv /\ NoOrphanTokens /\ [Next]_vars => NoOrphanTokens'
<1> SUFFICES ASSUME TInv, NoOrphanTokens, [Next]_vars PROVE NoOrphanTokens'
  OBVIOUS
<1> USE DEF TInv, TypeOK, Located, NoOrphanTokens, Present, store, local, history, Goto, Arrive
<1>1. ASSUME NEW r \in Requests, NEW a \in Apps,
             CreateTokenGetOrg(r, a) \/ CreateFormation(r, a) \/ DeleteFormation(r, a)
      PROVE  NoOrphanTokens'
  BY <1>1 DEF CreateTokenGetOrg, CreateFormation, DeleteFormation
<1>2. ASSUME NEW r \in Requests,
             \/ CreateTokenGetFormation(r) \/ ConsumeCheck(r) \/ ConsumeReturn(r)
             \/ CreateOrg(r) \/ Drop(r)
      PROVE  NoOrphanTokens'
  BY <1>2 DEF CreateTokenGetFormation, ConsumeCheck, ConsumeReturn, CreateOrg, Drop
<1>3. ASSUME NEW r \in Requests, CreateTokenInsert(r)
      PROVE  NoOrphanTokens'
  BY <1>3 DEF CreateTokenInsert, Insert, InsertOk, PgInsertOk
<1>4. ASSUME NEW r \in Requests, NEW t \in TokenIds,
             RevokeGet(r, t) \/ \E a \in Apps : ConsumeGet(r, t, a)
      PROVE  NoOrphanTokens'
  BY <1>4 DEF RevokeGet, ConsumeGet
<1>5. ASSUME NEW r \in Requests, NEW t \in TokenIds, DeleteToken(r, t)
      PROVE  NoOrphanTokens'
  BY <1>5 DEF DeleteToken, Remove, Put
<1>6. ASSUME NEW r \in Requests, ConsumeWrite(r)
      PROVE  NoOrphanTokens'
  BY <1>6 DEF ConsumeWrite, UpdateToken, Update, PgUpdate
<1>7. ASSUME NEW r \in Requests, RevokeWrite(r)
      PROVE  NoOrphanTokens'
  BY <1>7 DEF RevokeWrite, UpdateToken, Update, PgUpdate
<1>8. ASSUME NEW r \in Requests, DeleteOrg(r)
      PROVE  NoOrphanTokens'
  BY <1>8 DEF DeleteOrg, CascadeDelete, Empty
<1>9. CASE Tick
  BY <1>9 DEF Tick
<1>10. CASE UNCHANGED vars
  BY <1>10 DEF vars
<1> QED
  BY <1>1, <1>2, <1>3, <1>4, <1>5, <1>6, <1>7, <1>8, <1>9, <1>10 DEF Next, AllServed

\* Whatever create_token, delete_org and the writes of stale copies do in any
\* order, Postgres stores no token of an organization that is gone.
THEOREM NoTokenOutlivesOrg == Spec => []NoOrphanTokens
<1>1. Init => TInv /\ NoOrphanTokens
  BY TypeInit DEF Init, NoOrphanTokens
<1>2. TInv /\ NoOrphanTokens /\ [Next]_vars => (TInv /\ NoOrphanTokens)'
  BY TypeStep, OrphanStep
<1> QED
  BY <1>1, <1>2, PTL DEF Spec

-----------------------------------------------------------------------------
(* Revocations and deletions.  A row or a copy that may be written is of an *)
(* id that has been handed out, so that a new token never lands on it.      *)

Accounted ==
    /\ \A t \in TokenIds : Present(tokens, t) => t \in issued
    /\ \A r \in Requests :
          pc[r] \in {"consume_check", "consume_write", "revoke_write"} => tok[r] \in issued

AInv == TInv /\ Accounted

\* Every id in use has been handed out.
LEMMA AccountedStep == AInv /\ [Next]_vars => Accounted'
<1> SUFFICES ASSUME AInv, [Next]_vars PROVE Accounted'
  OBVIOUS
<1> USE DEF AInv, TInv, TypeOK, Located, Accounted, Present, store, local, history, Goto, Arrive
<1>1. ASSUME NEW r \in Requests, NEW a \in Apps,
             CreateTokenGetOrg(r, a) \/ CreateFormation(r, a) \/ DeleteFormation(r, a)
      PROVE  Accounted'
  BY <1>1 DEF CreateTokenGetOrg, CreateFormation, DeleteFormation
<1>2. ASSUME NEW r \in Requests,
             \/ CreateTokenGetFormation(r) \/ ConsumeCheck(r) \/ ConsumeReturn(r)
             \/ CreateOrg(r) \/ Drop(r)
      PROVE  Accounted'
  BY <1>2 DEF CreateTokenGetFormation, ConsumeCheck, ConsumeReturn, CreateOrg, Drop
<1>3. ASSUME NEW r \in Requests, CreateTokenInsert(r)
      PROVE  Accounted'
  BY <1>3 DEF CreateTokenInsert, Insert, Put, FreshIds
<1>4. ASSUME NEW r \in Requests, NEW t \in TokenIds,
             RevokeGet(r, t) \/ \E a \in Apps : ConsumeGet(r, t, a)
      PROVE  Accounted'
  BY <1>4 DEF RevokeGet, ConsumeGet, Revocable
<1>5. ASSUME NEW r \in Requests, NEW t \in TokenIds, DeleteToken(r, t)
      PROVE  Accounted'
  BY <1>5 DEF DeleteToken, Remove, Put
<1>6. ASSUME NEW r \in Requests, ConsumeWrite(r)
      PROVE  Accounted'
  <2>1. \A x \in TokenIds : x = tok[r] \/ tokens'[x] = tokens[x]
    BY <1>6 DEF ConsumeWrite, UpdateToken, Update, RedbUpdate, PgUpdate, Put
  <2> QED
    BY <1>6, <2>1 DEF ConsumeWrite
<1>7. ASSUME NEW r \in Requests, RevokeWrite(r)
      PROVE  Accounted'
  <2>1. \A x \in TokenIds : x = tok[r] \/ tokens'[x] = tokens[x]
    BY <1>7 DEF RevokeWrite, UpdateToken, Update, RedbUpdate, PgUpdate, Put
  <2> QED
    BY <1>7, <2>1 DEF RevokeWrite
<1>8. ASSUME NEW r \in Requests, DeleteOrg(r)
      PROVE  Accounted'
  BY <1>8 DEF DeleteOrg, CascadeDelete, Empty
<1>9. CASE Tick
  BY <1>9 DEF Tick
<1>10. CASE UNCHANGED vars
  BY <1>10 DEF vars
<1> QED
  BY <1>1, <1>2, <1>3, <1>4, <1>5, <1>6, <1>7, <1>8, <1>9, <1>10 DEF Next, AllServed

\* The ids in use are accounted for in every reachable state.
LEMMA AccountedAlways == Spec => []AInv
<1>1. Init => AInv
  BY TypeInit DEF AInv, Init, Accounted
<1>2. AInv /\ [Next]_vars => AInv'
  BY TypeStep, AccountedStep DEF AInv
<1> QED
  BY <1>1, <1>2, PTL DEF Spec

\* What one step may do to the row of a token: nothing, remove it, insert a
\* new token under a fresh id, or write back the copy of a request.
LEMMA RowStep ==
    ASSUME AInv, Next, NEW t \in TokenIds
    PROVE  \/ tokens'[t] = tokens[t]
           \/ tokens'[t] = NoRow
           \/ t \notin issued
           \/ \E r \in Writers(t) :
                 /\ tokens'[t] = Consume(copy[r]) \/ tokens'[t] = [copy[r] EXCEPT !.revoked = TRUE]
                 /\ copy[r] \in EnrollmentToken
                 /\ backend = "redb" \/ Present(tokens, t)
<1> USE DEF AInv, TInv, TypeOK, Located, Present, store, local, history, Goto, Arrive
<1>1. ASSUME NEW r \in Requests, NEW a \in Apps,
             CreateTokenGetOrg(r, a) \/ CreateFormation(r, a) \/ DeleteFormation(r, a)
      PROVE  tokens'[t] = tokens[t]
  BY <1>1 DEF CreateTokenGetOrg, CreateFormation, DeleteFormation
<1>2. ASSUME NEW r \in Requests,
             \/ CreateTokenGetFormation(r) \/ ConsumeCheck(r) \/ ConsumeReturn(r)
             \/ CreateOrg(r) \/ Drop(r)
      PROVE  tokens'[t] = tokens[t]
  BY <1>2 DEF CreateTokenGetFormation, ConsumeCheck, ConsumeReturn, CreateOrg, Drop
<1>3. ASSUME NEW r \in Requests, CreateTokenInsert(r)
      PROVE  tokens'[t] = tokens[t] \/ t \notin issued
  BY <1>3 DEF CreateTokenInsert, Insert, Put, FreshIds
<1>4. ASSUME NEW r \in Requests, NEW u \in TokenIds,
             RevokeGet(r, u) \/ \E a \in Apps : ConsumeGet(r, u, a)
      PROVE  tokens'[t] = tokens[t]
  BY <1>4 DEF RevokeGet, ConsumeGet
<1>5. ASSUME NEW r \in Requests, NEW u \in TokenIds, DeleteToken(r, u)
      PROVE  tokens'[t] = tokens[t] \/ tokens'[t] = NoRow
  BY <1>5 DEF DeleteToken, Remove, Put
<1>6. ASSUME NEW r \in Requests, ConsumeWrite(r), tokens'[t] # tokens[t]
      PROVE  /\ r \in Writers(t) /\ copy[r] \in EnrollmentToken
             /\ tokens'[t] = Consume(copy[r])
             /\ backend = "redb" \/ Present(tokens, t)
  BY <1>6 DEF ConsumeWrite, UpdateToken, Update, RedbUpdate, PgUpdate, Put, Writers
<1>7. ASSUME NEW r \in Requests, RevokeWrite(r), tokens'[t] # tokens[t]
      PROVE  /\ r \in Writers(t) /\ copy[r] \in EnrollmentToken
             /\ tokens'[t] = [copy[r] EXCEPT !.revoked = TRUE]
             /\ backend = "redb" \/ Present(tokens, t)
  BY <1>7 DEF RevokeWrite, UpdateToken, Update, RedbUpdate, PgUpdate, Put, Writers
<1>8. ASSUME NEW r \in Requests, DeleteOrg(r)
      PROVE  tokens'[t] = tokens[t] \/ tokens'[t] = NoRow
  BY <1>8 DEF DeleteOrg, CascadeDelete, Empty
<1>9. CASE Tick
  BY <1>9 DEF Tick
<1>10. CASE AllServed
  BY <1>10 DEF AllServed, vars
<1> QED
  BY <1>1, <1>2, <1>3, <1>4, <1>5, <1>6, <1>7, <1>8, <1>9, <1>10 DEF Next

\* A revocation is lost only to a request that had read the token before it:
\* otherwise no step of any call un-revokes a token.
THEOREM RevocationIsKept == Spec => RevocationHolds
<1>1. ASSUME AInv, Next, NEW t \in TokenIds, Present(tokens, t), tokens[t].revoked,
             \A r \in Writers(t) : copy[r].revoked
      PROVE  ~Present(tokens', t) \/ tokens'[t].revoked
  <2>1. t \in issued
    BY <1>1 DEF AInv, Accounted
  <2>2. ASSUME NEW c \in EnrollmentToken, c.revoked
        PROVE  Consume(c).revoked
    BY <2>2 DEF Consume, EnrollmentToken
  <2>3. ASSUME NEW c \in EnrollmentToken
        PROVE  [c EXCEPT !.revoked = TRUE].revoked
    BY DEF EnrollmentToken
  <2> QED
    BY <1>1, <2>1, <2>2, <2>3, RowStep DEF Present
<1>2. AInv /\ [Next]_vars =>
        [\A t \in TokenIds :
            /\ Present(tokens, t) /\ tokens[t].revoked
            /\ \A r \in Writers(t) : copy[r].revoked
            => ~Present(tokens', t) \/ tokens'[t].revoked]_vars
  BY <1>1
<1> QED
  BY <1>2, AccountedAlways, PTL DEF Spec, RevocationHolds

\* A deleted token comes back only over redb, by a request that had read it.
THEOREM DeletionIsKept == Spec => DeletionHolds
<1>1. ASSUME AInv, Next, NEW t \in issued,
             ~Present(tokens, t), backend = "postgres" \/ Writers(t) = {}
      PROVE  ~Present(tokens', t)
  <2>1. t \in TokenIds
    BY <1>1 DEF AInv, TInv, TypeOK
  <2>2. backend # "redb" \/ Writers(t) = {}
    BY <1>1
  <2> QED
    BY <1>1, <2>1, <2>2, RowStep DEF Present
<1>2. AInv /\ [Next]_vars =>
        [\A t \in issued :
            ~Present(tokens, t) /\ (backend = "postgres" \/ Writers(t) = {})
                => ~Present(tokens', t)]_vars
  BY <1>1
<1> QED
  BY <1>2, AccountedAlways, PTL DEF Spec, DeletionHolds
-----------------------------------------------------------------------------
(* Approvals.  What justifies one must hold from the check to the answer:   *)
(* nothing touches the copy, the formation or the arrival of a request in   *)
(* between, nor once it has been answered.                                  *)

\* The copy of request r was good for the formation it names when r arrived.
Sound(r) ==
    /\ copy[r].app_id = app[r]
    /\ ~copy[r].revoked
    /\ copy[r].expires_at # None => start[r] <= copy[r].expires_at
    /\ copy[r].max_uses # None => copy[r].uses < copy[r].max_uses

GrantInv ==
    /\ \A r \in Requests : start[r] <= now
    /\ \A r \in Requests : pc[r] \in {"consume_write", "consume_return"} => Sound(r)
    /\ \A t \in TokenIds : \A r \in granted[t] : pc[r] = "done" /\ Sound(r)

\* A request that is under way goes on with what it holds.
LEMMA GrantKept ==
    ASSUME TInv, GrantInv, NEW r \in Requests, NEW step \in Steps, Goto(r, step), pc[r] # "done",
           step \in {"consume_write", "consume_return"} => Sound(r),
           UNCHANGED <<now, tok, app, copy, start, granted>>
    PROVE  GrantInv'
<1>1. pc'[r] = step /\ \A x \in Requests \ {r} : pc'[x] = pc[x]
  BY DEF Goto, TInv, TypeOK
<1>2. \A x \in Requests : Sound(x)' = Sound(x)
  BY DEF Sound
<1>3. \A t \in TokenIds : granted[t] \subseteq Requests
  BY DEF TInv, TypeOK
<1> QED
  BY <1>1, <1>2, <1>3 DEF GrantInv

\* A request that arrives has not been answered yet.
LEMMA GrantArrive ==
    ASSUME TInv, GrantInv, NEW r \in Requests, NEW step \in Steps, Arrive(r), Goto(r, step),
           step \notin {"consume_write", "consume_return"},
           \A x \in Requests \ {r} : copy'[x] = copy[x] /\ app'[x] = app[x],
           UNCHANGED <<now, granted>>
    PROVE  GrantInv'
<1>1. /\ pc[r] = "idle" /\ pc'[r] = step /\ start'[r] = now /\ now \in Nat
      /\ \A x \in Requests \ {r} : pc'[x] = pc[x] /\ start'[x] = start[x]
  BY DEF Arrive, Goto, TInv, TypeOK
<1>2. \A x \in Requests \ {r} : Sound(x)' = Sound(x)
  BY <1>1 DEF Sound
<1>3. ASSUME NEW t \in TokenIds, NEW x \in granted'[t] PROVE x \in Requests \ {r} /\ x \in granted[t]
  BY <1>1 DEF GrantInv, TInv, TypeOK
<1>4. \A x \in Requests : start'[x] <= now'
  BY <1>1 DEF GrantInv
<1> QED
  BY <1>1, <1>2, <1>3, <1>4 DEF GrantInv

\* Every step keeps approvals, and requests on their way to one, justified.
LEMMA GrantStep == TInv /\ GrantInv /\ [Next]_vars => GrantInv'
<1> SUFFICES ASSUME TInv, GrantInv, [Next]_vars PROVE GrantInv'
  OBVIOUS
<1> USE DEF store, local, history
<1>1. ASSUME NEW r \in Requests, NEW a \in Apps,
             CreateTokenGetOrg(r, a) \/ CreateFormation(r, a) \/ DeleteFormation(r, a)
      PROVE  GrantInv'
  <2>1. PICK step \in {"create_get_formation", "done"} : Goto(r, step)
    BY <1>1 DEF CreateTokenGetOrg, CreateFormation, DeleteFormation
  <2>2. Arrive(r) /\ UNCHANGED <<now, copy, granted>>
    BY <1>1 DEF CreateTokenGetOrg, CreateFormation, DeleteFormation
  <2>3. \A x \in Requests \ {r} : app'[x] = app[x]
    BY <1>1 DEF CreateTokenGetOrg, CreateFormation, DeleteFormation, TInv, TypeOK
  <2> QED
    BY <2>1, <2>2, <2>3, GrantArrive DEF Steps
<1>2. ASSUME NEW r \in Requests, NEW t \in TokenIds,
             RevokeGet(r, t) \/ DeleteToken(r, t) \/ \E a \in Apps : ConsumeGet(r, t, a)
      PROVE  GrantInv'
  <2>1. PICK step \in {"consume_check", "revoke_write", "done"} : Goto(r, step)
    BY <1>2 DEF RevokeGet, DeleteToken, ConsumeGet
  <2>2. Arrive(r) /\ UNCHANGED <<now, granted>>
    BY <1>2 DEF RevokeGet, DeleteToken, ConsumeGet
  <2>3. \A x \in Requests \ {r} : app'[x] = app[x] /\ copy'[x] = copy[x]
    BY <1>2 DEF RevokeGet, DeleteToken, ConsumeGet, TInv, TypeOK
  <2> QED
    BY <2>1, <2>2, <2>3, GrantArrive DEF Steps
<1>3. ASSUME NEW r \in Requests, DeleteOrg(r) \/ CreateOrg(r) PROVE GrantInv'
  <2>1. Goto(r, "done") /\ Arrive(r) /\ UNCHANGED <<now, app, copy, granted>>
    BY <1>3 DEF DeleteOrg, CreateOrg
  <2> QED
    BY <2>1, GrantArrive DEF Steps
<1>4. ASSUME NEW r \in Requests, CreateTokenGetFormation(r) \/ CreateTokenInsert(r) \/ RevokeWrite(r)
      PROVE  GrantInv'
  <2>1. PICK step \in {"create_insert", "done"} : Goto(r, step)
    BY <1>4 DEF CreateTokenGetFormation, CreateTokenInsert, RevokeWrite
  <2>2. pc[r] # "done" /\ UNCHANGED <<now, tok, app, copy, start, granted>>
    BY <1>4 DEF CreateTokenGetFormation, CreateTokenInsert, RevokeWrite
  <2> QED
    BY <2>1, <2>2, GrantKept DEF Steps
<1>5. ASSUME NEW r \in Requests, ConsumeCheck(r) PROVE GrantInv'
  <2>1. /\ pc[r] = "consume_check" /\ UNCHANGED <<now, tok, app, copy, start, granted>>
        /\ Goto(r, IF Valid(copy[r], app[r], now) THEN "consume_write" ELSE "done")
    BY <1>5 DEF ConsumeCheck
  <2>2. copy[r] \in EnrollmentToken /\ start[r] \in Nat /\ now \in Nat /\ start[r] <= now
    BY <2>1 DEF TInv, TypeOK, Located, GrantInv
  <2>3. CASE Valid(copy[r], app[r], now)
    <3>1. copy[r].expires_at # None => copy[r].expires_at \in Nat
      BY <2>2 DEF EnrollmentToken
    <3>2. copy[r].max_uses # None => copy[r].max_uses \in Nat /\ copy[r].uses \in Nat
      BY <2>2 DEF EnrollmentToken
    <3>3. Sound(r)
      BY <2>2, <2>3, <3>1, <3>2 DEF Valid, Expired, Exhausted, Sound
    <3>4. Goto(r, "consume_write")
      BY <2>1, <2>3
    <3> QED
      BY <2>1, <3>3, <3>4, GrantKept DEF Steps
  <2>4. CASE ~Valid(copy[r], app[r], now)
    <3>1. Goto(r, "done")
      BY <2>1, <2>4
    <3> QED
      BY <2>1, <3>1, GrantKept DEF Steps
  <2> QED
    BY <2>3, <2>4
<1>6. ASSUME NEW r \in Requests, ConsumeWrite(r) PROVE GrantInv'
  <2>1. /\ pc[r] = "consume_write" /\ UNCHANGED <<now, tok, app, copy, start, granted>>
        /\ Goto(r, "consume_return")
    BY <1>6 DEF ConsumeWrite
  <2>2. Sound(r)
    BY <2>1 DEF GrantInv
  <2> QED
    BY <2>1, <2>2, GrantKept DEF Steps
<1>7. ASSUME NEW r \in Requests, ConsumeReturn(r) PROVE GrantInv'
  <2>1. /\ pc[r] = "consume_return" /\ UNCHANGED <<now, app, copy, start>>
        /\ pc'[r] = "done" /\ \A x \in Requests \ {r} : pc'[x] = pc[x]
        /\ \A t \in TokenIds : granted'[t] \subseteq granted[t] \cup {r}
    BY <1>7 DEF ConsumeReturn, Goto, TInv, TypeOK
  <2>2. \A x \in Requests : Sound(x)' = Sound(x)
    BY <2>1 DEF Sound
  <2>3. Sound(r)
    BY <2>1 DEF GrantInv
  <2>4. \A t \in TokenIds : granted[t] \subseteq Requests
    BY DEF TInv, TypeOK
  <2> QED
    BY <2>1, <2>2, <2>3, <2>4 DEF GrantInv
<1>8. ASSUME NEW r \in Requests, Drop(r) PROVE GrantInv'
  <2>1. Goto(r, "done") /\ pc[r] # "done" /\ UNCHANGED <<now, tok, app, copy, start, granted>>
    BY <1>8 DEF Drop, InFlight
  <2> QED
    BY <2>1, GrantKept DEF Steps
<1>9. CASE Tick
  <2>1. UNCHANGED <<pc, app, copy, start, granted>> /\ now' = now + 1
    BY <1>9 DEF Tick
  <2>2. \A x \in Requests : (Sound(x)' = Sound(x)) /\ start[x] \in Nat /\ now \in Nat
    BY <2>1 DEF Sound, TInv, TypeOK
  <2>3. \A t \in TokenIds : granted[t] \subseteq Requests
    BY DEF TInv, TypeOK
  <2>4. \A x \in Requests : start'[x] <= now'
    BY <2>1, <2>2 DEF GrantInv
  <2> QED
    BY <2>1, <2>2, <2>3, <2>4 DEF GrantInv
<1>10. CASE UNCHANGED vars
  BY <1>10 DEF vars, GrantInv, Sound
<1> QED
  BY <1>1, <1>2, <1>3, <1>4, <1>5, <1>6, <1>7, <1>8, <1>9, <1>10 DEF Next, AllServed

\* Whatever happens to the token while the request is under way, an approval was
\* given on a copy that was good for it when it arrived.
THEOREM GrantsAreJustified == Spec => []GrantsJustified
<1>1. Init => GrantInv
  BY DEF Init, GrantInv
<1>2. GrantInv => GrantsJustified
  BY DEF GrantInv, GrantsJustified, Sound
<1> QED
  BY <1>1, <1>2, TypeInit, TypeStep, GrantStep, PTL DEF Spec
-----------------------------------------------------------------------------
(* The count of uses.  A copy that is written back was right when it was    *)
(* read, and the consumes that reached the store only become more.          *)

\* A token that records no more uses than there were consumes of t.
Backed(token, t) == token.uses <= Cardinality(consumed[t])

UsesInv ==
    /\ \A t \in TokenIds : IsFiniteSet(consumed[t])
    /\ \A t \in TokenIds : Present(tokens, t) => Backed(tokens[t], t)
    /\ \A r \in Requests :
          pc[r] \in {"consume_check", "consume_write", "revoke_write"} => Backed(copy[r], tok[r])
    /\ \A r \in Requests : pc[r] \notin {"consume_return", "done"} =>
                              \A t \in TokenIds : r \notin consumed[t]

\* No row appears or changes, and no request takes up a copy.
LEMMA UsesKept ==
    ASSUME TInv, UsesInv, NEW r \in Requests, NEW step \in Steps, Goto(r, step),
           \/ step \notin {"consume_check", "consume_write", "revoke_write"}
           \/ pc[r] = "consume_check" /\ UNCHANGED copy /\ UNCHANGED tok,
           step \notin {"consume_return", "done"} => pc[r] \notin {"consume_return", "done"},
           \A x \in Requests \ {r} : copy'[x] = copy[x] /\ tok'[x] = tok[x],
           \A t \in TokenIds : Present(tokens', t) =>
                  tokens'[t] = tokens[t] \/ (tokens'[t] \in EnrollmentToken /\ Backed(tokens'[t], t)),
           UNCHANGED consumed
    PROVE  UsesInv'
<1>1. pc'[r] = step /\ \A x \in Requests \ {r} : pc'[x] = pc[x]
  BY DEF Goto, TInv, TypeOK
<1>2. \A t \in TokenIds : Present(tokens', t) => Backed(tokens'[t], t)
  BY DEF UsesInv, Present
<1>3. \A x \in Requests :
         pc'[x] \in {"consume_check", "consume_write", "revoke_write"} => Backed(copy'[x], tok'[x])
  BY <1>1 DEF UsesInv
<1>4. \A token, t : Backed(token, t) => token.uses <= Cardinality(consumed'[t])
  BY DEF Backed
<1>5. \A x \in Requests : pc'[x] \notin {"consume_return", "done"} =>
                              \A t \in TokenIds : x \notin consumed'[t]
  BY <1>1 DEF UsesInv
<1> QED
  BY <1>2, <1>3, <1>4, <1>5 DEF UsesInv, Backed

\* A request reads a token: its copy is as good as the row.
LEMMA UsesRead ==
    ASSUME TInv, UsesInv, NEW r \in Requests, NEW t \in TokenIds, NEW step \in Steps,
           pc[r] = "idle", Goto(r, step), step \notin {"consume_return"},
           step # "done" => Present(tokens, t),
           tok' = [tok EXCEPT ![r] = t], copy' = [copy EXCEPT ![r] = tokens[t]],
           UNCHANGED <<tokens, consumed>>
    PROVE  UsesInv'
<1>1. /\ pc'[r] = step /\ tok'[r] = t /\ copy'[r] = tokens[t]
      /\ \A x \in Requests \ {r} : pc'[x] = pc[x] /\ tok'[x] = tok[x] /\ copy'[x] = copy[x]
  BY DEF Goto, TInv, TypeOK
<1>2. \A x \in Requests :
         pc'[x] \in {"consume_check", "consume_write", "revoke_write"} => Backed(copy'[x], tok'[x])
  BY <1>1 DEF UsesInv
<1>3. \A x \in Requests : pc'[x] \notin {"consume_return", "done"} =>
                              \A u \in TokenIds : x \notin consumed'[u]
  BY <1>1 DEF UsesInv
<1> QED
  BY <1>2, <1>3 DEF UsesInv, Backed, Present

\* A consume that reaches the store is counted once more there, and once in the row.
LEMMA UsesConsumed ==
    ASSUME TInv, UsesInv, NEW r \in Requests, ConsumeWrite(r)
    PROVE  UsesInv'
<1>1. PICK t \in TokenIds, c \in EnrollmentToken : t = tok[r] /\ c = copy[r]
  BY DEF TInv, Located, ConsumeWrite
<1>2. /\ pc[r] = "consume_write" /\ pc'[r] = "consume_return" /\ UNCHANGED <<tok, copy>>
      /\ \A x \in Requests \ {r} : pc'[x] = pc[x]
  BY DEF ConsumeWrite, Goto, TInv, TypeOK, local
<1>3. /\ consumed'[t] = consumed[t] \cup {r}
      /\ \A u \in TokenIds \ {t} : consumed'[u] = consumed[u]
  BY <1>1 DEF ConsumeWrite, TInv, TypeOK
<1>4. r \notin consumed[t] /\ IsFiniteSet(consumed[t]) /\ Backed(c, t)
  BY <1>1, <1>2 DEF UsesInv
<1>5. /\ IsFiniteSet(consumed'[t]) /\ Cardinality(consumed'[t]) = Cardinality(consumed[t]) + 1
      /\ Cardinality(consumed[t]) \in Nat
  BY <1>3, <1>4, FS_AddElement, FS_CardinalityType
<1>6. Consume(c) \in EnrollmentToken /\ Consume(c).uses <= Cardinality(consumed'[t])
  BY <1>4, <1>5 DEF Consume, EnrollmentToken, Backed
<1>7. ASSUME NEW u \in TokenIds, NEW token \in EnrollmentToken, Backed(token, u)
      PROVE  token.uses <= Cardinality(consumed'[u])
  <2>1. token.uses \in Nat /\ token.uses <= Cardinality(consumed[u])
    BY <1>7 DEF EnrollmentToken, Backed
  <2>2. CASE u = t
    <3>1. Cardinality(consumed'[u]) = Cardinality(consumed[u]) + 1 /\ Cardinality(consumed[u]) \in Nat
      BY <1>5, <2>2
    <3> QED
      BY <2>1, <3>1
  <2>3. CASE u # t
    BY <1>3, <2>1, <2>3
  <2> QED
    BY <2>2, <2>3
<1>8. \A x \in TokenIds : \/ tokens'[x] = tokens[x]
                          \/ x = t /\ tokens'[x] = Consume(c)
  BY <1>1, <1>6, UpdateType DEF ConsumeWrite, TInv, TypeOK, Rows
<1>9. ASSUME NEW x \in TokenIds, Present(tokens', x)
      PROVE  tokens'[x].uses <= Cardinality(consumed'[x])
  <2>1. CASE tokens'[x] = tokens[x]
    <3>1. tokens[x] \in EnrollmentToken /\ Backed(tokens[x], x)
      BY <1>9, <2>1 DEF TInv, TypeOK, Present, UsesInv
    <3> QED
      BY <1>7, <2>1, <3>1
  <2> QED
    BY <1>6, <1>8, <2>1
<1>10. ASSUME NEW x \in Requests, pc'[x] \in {"consume_check", "consume_write", "revoke_write"}
       PROVE  copy'[x].uses <= Cardinality(consumed'[tok'[x]])
  <2>1. x # r
    BY <1>2, <1>10
  <2>2. pc[x] \in {"consume_check", "consume_write", "revoke_write"}
    BY <1>2, <1>10, <2>1
  <2>3. copy[x] \in EnrollmentToken /\ tok[x] \in TokenIds /\ Backed(copy[x], tok[x])
    BY <2>2 DEF TInv, Located, UsesInv
  <2> QED
    BY <1>2, <1>7, <2>3
<1>11. \A u \in TokenIds : IsFiniteSet(consumed'[u])
  BY <1>3, <1>5 DEF UsesInv
<1>12. \A x \in Requests : pc'[x] \notin {"consume_return", "done"} =>
                              \A u \in TokenIds : x \notin consumed'[u]
  BY <1>2, <1>3 DEF UsesInv
<1> QED
  BY <1>9, <1>10, <1>11, <1>12 DEF UsesInv, Backed

\* Every step keeps rows and copies within the consumes that reached the store.
LEMMA UsesStep == TInv /\ UsesInv /\ [Next]_vars => UsesInv'
<1> SUFFICES ASSUME TInv, UsesInv, [Next]_vars PROVE UsesInv'
  OBVIOUS
<1> USE DEF store, local, history
<1>0. tokens \in [TokenIds -> EnrollmentToken \cup {NoRow}]
  BY DEF TInv, TypeOK
<1>1. ASSUME NEW r \in Requests, NEW a \in Apps,
             CreateTokenGetOrg(r, a) \/ CreateFormation(r, a) \/ DeleteFormation(r, a)
      PROVE  UsesInv'
  <2>1. PICK step \in {"create_get_formation", "done"} : Goto(r, step)
    BY <1>1 DEF CreateTokenGetOrg, CreateFormation, DeleteFormation
  <2>2. pc[r] = "idle" /\ UNCHANGED <<tokens, tok, copy, consumed>>
    BY <1>1 DEF CreateTokenGetOrg, CreateFormation, DeleteFormation, Arrive
  <2> QED
    BY <2>1, <2>2, UsesKept DEF Steps
<1>2. ASSUME NEW r \in Requests, NEW t \in TokenIds,
             RevokeGet(r, t) \/ \E a \in Apps : ConsumeGet(r, t, a)
      PROVE  UsesInv'
  <2>1. PICK step \in {"consume_check", "revoke_write", "done"} :
           Goto(r, step) /\ (step # "done" => Present(tokens, t))
    BY <1>2 DEF RevokeGet, ConsumeGet, Revocable
  <2>2. /\ pc[r] = "idle" /\ UNCHANGED <<tokens, consumed>>
        /\ tok' = [tok EXCEPT ![r] = t] /\ copy' = [copy EXCEPT ![r] = tokens[t]]
    BY <1>2 DEF RevokeGet, ConsumeGet, Arrive
  <2> QED
    BY <2>1, <2>2, UsesRead DEF Steps
<1>3. ASSUME NEW r \in Requests,
             DeleteOrg(r) \/ CreateOrg(r) \/ \E t \in TokenIds : DeleteToken(r, t)
      PROVE  UsesInv'
  <2>1. Goto(r, "done") /\ UNCHANGED <<tok, copy, consumed>>
    BY <1>3 DEF DeleteOrg, CreateOrg, DeleteToken
  <2>2. \A x \in TokenIds : Present(tokens', x) => tokens'[x] = tokens[x]
    BY <1>0, <1>3 DEF DeleteOrg, CreateOrg, DeleteToken, CascadeDelete, Empty, Remove, Put, Present
  <2> QED
    BY <2>1, <2>2, UsesKept DEF Steps
<1>4. ASSUME NEW r \in Requests, CreateTokenGetFormation(r) PROVE UsesInv'
  <2>1. PICK step \in {"create_insert", "done"} : Goto(r, step)
    BY <1>4 DEF CreateTokenGetFormation
  <2>2. pc[r] = "create_get_formation" /\ UNCHANGED <<tokens, tok, copy, consumed>>
    BY <1>4 DEF CreateTokenGetFormation
  <2> QED
    BY <2>1, <2>2, UsesKept DEF Steps
<1>5. ASSUME NEW r \in Requests, CreateTokenInsert(r) PROVE UsesInv'
  <2>1. app[r] \in Apps
    BY <1>5 DEF CreateTokenInsert, TInv, Located
  <2>2. PICK t \in FreshIds, m \in MaxUsesArgs, e \in ExpiryArgs :
            tokens' = Insert(tokens, t, NewToken(app[r], m, e), orgLive)
    BY <1>5 DEF CreateTokenInsert
  <2>3. PICK row \in EnrollmentToken : row = NewToken(app[r], m, e) /\ row.uses = 0
    BY <2>1, NewTokenType
  <2>4. \A x \in TokenIds : tokens'[x] = tokens[x] \/ tokens'[x] = row
    BY <1>0, <2>2, <2>3, InsertType DEF Rows, FreshIds
  <2>5. \A x \in TokenIds : Backed(row, x)
    <3>1. \A x \in TokenIds : Cardinality(consumed[x]) \in Nat
      BY FS_CardinalityType DEF UsesInv
    <3> QED
      BY <2>3, <3>1 DEF Backed
  <2>6. Goto(r, "done") /\ UNCHANGED <<tok, copy, consumed>>
    BY <1>5 DEF CreateTokenInsert
  <2> QED
    BY <2>3, <2>4, <2>5, <2>6, UsesKept DEF Steps
<1>6. ASSUME NEW r \in Requests, ConsumeCheck(r) PROVE UsesInv'
  <2>1. PICK step \in {"consume_write", "done"} : Goto(r, step)
    BY <1>6 DEF ConsumeCheck
  <2>2. pc[r] = "consume_check" /\ UNCHANGED <<tokens, tok, copy, consumed>>
    BY <1>6 DEF ConsumeCheck
  <2> QED
    BY <2>1, <2>2, UsesKept DEF Steps
<1>7. ASSUME NEW r \in Requests, ConsumeReturn(r) \/ Drop(r) PROVE UsesInv'
  <2>1. Goto(r, "done") /\ UNCHANGED <<tokens, tok, copy, consumed>>
    BY <1>7 DEF ConsumeReturn, Drop
  <2> QED
    BY <2>1, UsesKept DEF Steps
<1>8. ASSUME NEW r \in Requests, RevokeWrite(r) PROVE UsesInv'
  <2>1. PICK t \in TokenIds, c \in EnrollmentToken : t = tok[r] /\ c = copy[r]
    BY <1>8 DEF TInv, Located, RevokeWrite
  <2>2. PICK row : row = [c EXCEPT !.revoked = TRUE]
    OBVIOUS
  <2>3. row \in EnrollmentToken /\ row.uses = c.uses
    BY <2>2 DEF EnrollmentToken
  <2>4. Backed(c, t)
    BY <1>8, <2>1 DEF RevokeWrite, UsesInv
  <2>5. Backed(row, t)
    BY <2>3, <2>4 DEF Backed
  <2>6. \A x \in TokenIds : tokens'[x] = tokens[x] \/ (x = t /\ tokens'[x] = row)
    BY <1>0, <1>8, <2>1, <2>2, <2>3, UpdateType DEF RevokeWrite, Rows
  <2>7. Goto(r, "done") /\ UNCHANGED <<tok, copy, consumed>>
    BY <1>8 DEF RevokeWrite
  <2> QED
    BY <2>3, <2>5, <2>6, <2>7, UsesKept DEF Steps
<1>9. CASE Tick \/ UNCHANGED vars
  BY <1>9 DEF Tick, vars, UsesInv, Backed, Present
<1> QED
  BY <1>1, <1>2, <1>3, <1>4, <1>5, <1>6, <1>7, <1>8, <1>9, UsesConsumed DEF Next, AllServed

\* Stored tokens have no use at first.
LEMMA UsesInit == Init => UsesInv
<1> SUFFICES ASSUME Init PROVE UsesInv
  OBVIOUS
<1>1. IsFiniteSet({}) /\ Cardinality({}) = 0
  BY FS_EmptySet
<1>2. ASSUME NEW t \in TokenIds, Present(tokens, t) PROVE tokens[t].uses = 0
  <2>1. tokens[t] \in NewTokens
    BY <1>2 DEF Init, Present
  <2> QED
    BY <2>1 DEF NewTokens
<1>3. \A t \in TokenIds : consumed[t] = {}
  BY DEF Init
<1> QED
  BY <1>1, <1>2, <1>3 DEF Init, UsesInv, Backed

\* Lost updates make the stored count lag, never run ahead of the consumes.
THEOREM UsesAreAccountedFor == Spec => []UsesAccountedFor
<1>1. UsesInv => UsesAccountedFor
  BY DEF UsesInv, UsesAccountedFor, Backed
<1> QED
  BY <1>1, UsesInit, TypeInit, TypeStep, UsesStep, PTL DEF Spec
-----------------------------------------------------------------------------
(* Refinement.  As long as no request has arrived during another, what a    *)
(* request has read is what is stored, so its write is the ledger's step.   *)

CalmInv ==
    /\ \A r \in Requests : pc[r] = "revoke_write" => ~copy[r].revoked
    /\ calm =>
          /\ \A r, x \in InFlight : r = x
          /\ \A r \in Requests :
                pc[r] \in {"consume_check", "consume_write", "revoke_write"} =>
                   copy[r] = tokens[tok[r]]

\* A request arrives; if it goes on, it holds what is stored.
LEMMA CalmArrive ==
    ASSUME TInv, CalmInv, NEW r \in Requests, NEW step \in Steps, Arrive(r), Goto(r, step),
           \A x \in Requests \ {r} : copy'[x] = copy[x] /\ tok'[x] = tok[x],
           step = "revoke_write" => ~copy'[r].revoked,
           step \in {"consume_check", "consume_write", "revoke_write"} =>
              copy'[r] = tokens'[tok'[r]]
    PROVE  CalmInv'
<1>1. /\ pc'[r] = step /\ \A x \in Requests \ {r} : pc'[x] = pc[x]
      /\ calm' => InFlight = {}
  BY DEF Arrive, Goto, TInv, TypeOK
<1>2. ASSUME NEW x \in Requests, pc'[x] = "revoke_write" PROVE ~copy'[x].revoked
  BY <1>1, <1>2 DEF CalmInv
<1>3. ASSUME calm', NEW x \in InFlight', NEW y \in InFlight' PROVE x = y
  BY <1>1, <1>3 DEF InFlight
<1>4. ASSUME calm', NEW x \in Requests,
             pc'[x] \in {"consume_check", "consume_write", "revoke_write"}
      PROVE  copy'[x] = tokens'[tok'[x]]
  <2>1. x = r
    BY <1>1, <1>4 DEF InFlight
  <2> QED
    BY <1>1, <1>4, <2>1
<1> QED
  BY <1>2, <1>3, <1>4 DEF CalmInv

\* A request goes on, with the table as it was unless it writes nothing more.
LEMMA CalmOn ==
    ASSUME TInv, CalmInv, NEW r \in InFlight, NEW step \in Steps, Goto(r, step),
           step # "revoke_write", UNCHANGED <<calm, copy, tok>>,
           step \in {"consume_check", "consume_write"} =>
              pc[r] = "consume_check" /\ UNCHANGED tokens
    PROVE  CalmInv'
<1>1. pc'[r] = step /\ r \in Requests /\ \A x \in Requests \ {r} : pc'[x] = pc[x]
  BY DEF Goto, TInv, TypeOK, InFlight
<1>2. ASSUME NEW x \in Requests, pc'[x] = "revoke_write" PROVE ~copy'[x].revoked
  BY <1>1, <1>2 DEF CalmInv
<1>3. ASSUME calm', NEW x \in InFlight', NEW y \in InFlight' PROVE x = y
  BY <1>1, <1>3 DEF InFlight, CalmInv
<1>4. ASSUME calm', NEW x \in Requests,
             pc'[x] \in {"consume_check", "consume_write", "revoke_write"}
      PROVE  copy'[x] = tokens'[tok'[x]]
  <2>1. x = r
    BY <1>1, <1>4 DEF InFlight, CalmInv
  <2> QED
    BY <1>1, <1>4, <2>1 DEF CalmInv
<1> QED
  BY <1>2, <1>3, <1>4 DEF CalmInv

\* Until two requests overlap, no step comes between a read and its write.
LEMMA CalmStep == TInv /\ CalmInv /\ [Next]_vars => CalmInv'
<1> SUFFICES ASSUME TInv, CalmInv, [Next]_vars PROVE CalmInv'
  OBVIOUS
<1> USE DEF store, local, history
<1>1. ASSUME NEW r \in Requests, NEW a \in Apps,
             CreateTokenGetOrg(r, a) \/ CreateFormation(r, a) \/ DeleteFormation(r, a)
      PROVE  CalmInv'
  <2>1. PICK step \in {"create_get_formation", "done"} : Goto(r, step)
    BY <1>1 DEF CreateTokenGetOrg, CreateFormation, DeleteFormation
  <2>2. Arrive(r) /\ UNCHANGED <<tok, copy>>
    BY <1>1 DEF CreateTokenGetOrg, CreateFormation, DeleteFormation
  <2> QED
    BY <2>1, <2>2, CalmArrive DEF Steps
<1>2. ASSUME NEW r \in Requests, NEW t \in TokenIds,
             RevokeGet(r, t) \/ \E a \in Apps : ConsumeGet(r, t, a)
      PROVE  CalmInv'
  <2>1. PICK step \in {"consume_check", "revoke_write", "done"} :
           Goto(r, step) /\ (step = "revoke_write" => ~tokens[t].revoked)
    BY <1>2 DEF RevokeGet, ConsumeGet, Revocable
  <2>2. /\ Arrive(r) /\ UNCHANGED tokens
        /\ tok'[r] = t /\ copy'[r] = tokens[t]
        /\ \A x \in Requests \ {r} : copy'[x] = copy[x] /\ tok'[x] = tok[x]
    BY <1>2 DEF RevokeGet, ConsumeGet, TInv, TypeOK
  <2> QED
    BY <2>1, <2>2, CalmArrive DEF Steps
<1>3. ASSUME NEW r \in Requests,
             DeleteOrg(r) \/ CreateOrg(r) \/ \E t \in TokenIds : DeleteToken(r, t)
      PROVE  CalmInv'
  <2>1. Arrive(r) /\ Goto(r, "done") /\ UNCHANGED <<tok, copy>>
    BY <1>3 DEF DeleteOrg, CreateOrg, DeleteToken
  <2> QED
    BY <2>1, CalmArrive DEF Steps
<1>4. ASSUME NEW r \in Requests, CreateTokenGetFormation(r) \/ CreateTokenInsert(r) PROVE CalmInv'
  <2>1. PICK step \in {"create_insert", "done"} : Goto(r, step)
    BY <1>4 DEF CreateTokenGetFormation, CreateTokenInsert
  <2>2. r \in InFlight /\ UNCHANGED <<calm, tok, copy>>
    BY <1>4 DEF CreateTokenGetFormation, CreateTokenInsert, InFlight
  <2> QED
    BY <2>1, <2>2, CalmOn DEF Steps
<1>5. ASSUME NEW r \in Requests, ConsumeCheck(r) PROVE CalmInv'
  <2>1. PICK step \in {"consume_write", "done"} : Goto(r, step)
    BY <1>5 DEF ConsumeCheck
  <2>2. r \in InFlight /\ pc[r] = "consume_check" /\ UNCHANGED <<calm, tok, copy, tokens>>
    BY <1>5 DEF ConsumeCheck, InFlight
  <2> QED
    BY <2>1, <2>2, CalmOn DEF Steps
<1>6. ASSUME NEW r \in Requests, ConsumeWrite(r) \/ ConsumeReturn(r) \/ RevokeWrite(r) \/ Drop(r)
      PROVE  CalmInv'
  <2>1. PICK step \in {"consume_return", "done"} : Goto(r, step)
    BY <1>6 DEF ConsumeWrite, ConsumeReturn, RevokeWrite, Drop
  <2>2. r \in InFlight /\ UNCHANGED <<calm, tok, copy>>
    BY <1>6 DEF ConsumeWrite, ConsumeReturn, RevokeWrite, Drop, InFlight
  <2> QED
    BY <2>1, <2>2, CalmOn DEF Steps
<1>7. CASE Tick \/ UNCHANGED vars
  BY <1>7 DEF Tick, vars, CalmInv, InFlight
<1> QED
  BY <1>1, <1>2, <1>3, <1>4, <1>5, <1>6, <1>7 DEF Next, AllServed

\* A token the ledger calls live.
Live(t) == Present(tokens, t) /\ ~tokens[t].revoked

\* Reads, refusals, revocations and deletions: whatever is live afterwards was
\* there before, unchanged.
LEMMA LedgerRetire ==
    ASSUME TInv, Accounted, UNCHANGED <<issued, consumed>>,
           \A t \in TokenIds : Live(t)' => tokens'[t] = tokens[t]
    PROVE  \E gone \in SUBSET TokenIds : Ledger!Retire(gone)
<1> DEFINE gone == {t \in issued : Live(t) /\ ~Live(t)'}
<1>0. issued \subseteq TokenIds /\ \A t \in TokenIds : Live(t) => t \in issued
  BY DEF TInv, TypeOK, Accounted, Live
<1>1. ASSUME NEW t \in TokenIds
      PROVE  /\ Status'[t] = IF t \in gone THEN "retired" ELSE Status[t]
             /\ Budget'[t] = IF t \in gone THEN 0 ELSE Budget[t]
             /\ t \in gone => Status[t] = "live"
  <2>1. CASE Live(t)'
    <3>1. Live(t)
      BY <2>1 DEF Live, Present
    <3> QED
      BY <2>1, <3>1 DEF Status, Budget, Live, Present
  <2>2. CASE ~Live(t)' /\ Live(t)
    BY <1>0, <2>2 DEF Status, Budget, Live
  <2>3. CASE ~Live(t)' /\ ~Live(t)
    BY <2>3 DEF Status, Budget, Live
  <2> QED
    BY <2>1, <2>2, <2>3
<1>2. Status' = [t \in TokenIds |-> IF t \in gone THEN "retired" ELSE Status[t]]
  BY <1>1 DEF Status
<1>3. Budget' = [t \in TokenIds |-> IF t \in gone THEN 0 ELSE Budget[t]]
  BY <1>1 DEF Budget
<1>4. gone \in SUBSET TokenIds
  BY <1>0
<1>5. \A t \in gone : Status[t] = "live"
  BY <1>1, <1>4
<1> HIDE DEF gone
<1>6. Ledger!Retire(gone)
  BY <1>2, <1>3, <1>5 DEF Ledger!Retire
<1> QED
  BY <1>4, <1>6

\* A token is inserted under a fresh id.
LEMMA LedgerIssue ==
    ASSUME TInv, Accounted, NEW r \in Requests, CreateTokenInsert(r)
    PROVE  \/ \E t \in TokenIds : Ledger!Issue(t)
           \/ \E gone \in SUBSET TokenIds : Ledger!Retire(gone)
<1>1. app[r] \in Apps /\ UNCHANGED consumed
  BY DEF CreateTokenInsert, TInv, Located
<1>2. PICK t \in FreshIds, m \in MaxUsesArgs, e \in ExpiryArgs :
         /\ tokens' = Insert(tokens, t, NewToken(app[r], m, e), orgLive)
         /\ issued' = IF InsertOk(tokens, t, orgLive) THEN issued \cup {t} ELSE issued
  BY DEF CreateTokenInsert
<1>3. t \in TokenIds /\ t \notin issued
  BY <1>2 DEF FreshIds
<1>4. CASE ~InsertOk(tokens, t, orgLive)
  <2>1. UNCHANGED <<tokens, issued>>
    BY <1>2, <1>4 DEF Insert
  <2> QED
    BY <1>1, <2>1, LedgerRetire
<1>5. CASE InsertOk(tokens, t, orgLive)
  <2>1. PICK row \in EnrollmentToken :
           /\ row = NewToken(app[r], m, e) /\ row.uses = 0 /\ row.max_uses = m /\ ~row.revoked
    BY <1>1, NewTokenType
  <2>2. /\ tokens'[t] = row /\ \A x \in TokenIds \ {t} : tokens'[x] = tokens[x]
        /\ issued' = issued \cup {t}
    BY <1>2, <1>3, <1>5, <2>1 DEF Insert, Put, TInv, TypeOK
  <2>3. /\ Status[t] = "fresh" /\ Status'[t] = "live"
    BY <1>3, <2>1, <2>2, NoRowAssumption DEF Status, Present
  <2>4. Budget'[t] = m
    <3>1. CASE m = None
      BY <1>3, <2>1, <2>2, <2>3, <3>1 DEF Budget
    <3>2. CASE m # None
      <4>1. m \in Nat /\ m - 0 = m
        BY <3>2
      <4> QED
        BY <1>3, <2>1, <2>2, <2>3, <3>2, <4>1 DEF Budget
    <3> QED
      BY <3>1, <3>2
  <2>5. \A x \in TokenIds \ {t} : Status'[x] = Status[x] /\ Budget'[x] = Budget[x]
    BY <2>2 DEF Status, Budget, Present
  <2>6. Status' = [Status EXCEPT ![t] = "live"]
    BY <2>3, <2>5 DEF Status
  <2>7. Budget' = [Budget EXCEPT ![t] = m]
    BY <2>4, <2>5, ZenonT(40) DEF Budget
  <2>8. Ledger!Issue(t)
    BY <1>1, <2>3, <2>6, <2>7 DEF Ledger!Issue
  <2> QED
    BY <1>3, <2>8
<1> QED
  BY <1>4, <1>5

\* A use is written back while nobody else has touched the token.
LEMMA LedgerRedeem ==
    ASSUME AInv, GrantInv, UsesInv, CalmInv, calm, NEW r \in Requests, ConsumeWrite(r)
    PROVE  \E t \in TokenIds : Ledger!Redeem(t, r)
<1>1. PICK t \in TokenIds, c \in EnrollmentToken : t = tok[r] /\ c = copy[r]
  BY DEF AInv, TInv, Located, ConsumeWrite
<1>2. /\ pc[r] = "consume_write" /\ tokens' = UpdateToken(t, Consume(c)) /\ UNCHANGED issued
      /\ consumed' = [consumed EXCEPT ![t] = @ \cup {r}]
  BY <1>1 DEF ConsumeWrite
<1>3. tokens[t] = c /\ t \in issued /\ r \notin consumed[t]
  BY <1>1, <1>2 DEF CalmInv, AInv, Accounted, UsesInv
<1>4. ~c.revoked /\ (c.max_uses # None => c.uses < c.max_uses)
  BY <1>1, <1>2 DEF GrantInv, Sound
<1>5. PICK d \in EnrollmentToken :
         /\ d = Consume(c) /\ d.uses = c.uses + 1 /\ d.max_uses = c.max_uses
         /\ d.revoked = c.revoked
  <2>1. Consume(c) \in EnrollmentToken
    BY DEF Consume, EnrollmentToken
  <2>2. /\ Consume(c).uses = c.uses + 1 /\ Consume(c).max_uses = c.max_uses
        /\ Consume(c).revoked = c.revoked
    BY DEF Consume, EnrollmentToken
  <2> QED
    BY <2>1, <2>2
<1>6. Present(tokens, t)
  BY <1>3, NoRowAssumption DEF Present
<1>7. tokens'[t] = d /\ \A x \in TokenIds \ {t} : tokens'[x] = tokens[x]
  BY <1>2, <1>5, <1>6 DEF UpdateToken, Update, RedbUpdate, PgUpdate, Put, AInv, TInv, TypeOK
<1>8. Status[t] = "live" /\ Status'[t] = "live"
  BY <1>2, <1>3, <1>4, <1>5, <1>6, <1>7, NoRowAssumption DEF Status, Present
<1>9. \A x \in TokenIds \ {t} : Status'[x] = Status[x] /\ Budget'[x] = Budget[x]
  BY <1>2, <1>7 DEF Status, Budget, Present
<1>10. Budget[t] # 0 /\ Budget'[t] = IF Budget[t] = None THEN None ELSE Budget[t] - 1
  <2>1. CASE c.max_uses = None
    <3>1. Budget[t] = None /\ Budget'[t] = None
      BY <1>3, <1>5, <1>7, <1>8, <2>1 DEF Budget
    <3> QED
      BY <3>1
  <2>2. CASE c.max_uses # None
    <3>1. Budget[t] = c.max_uses - c.uses /\ Budget'[t] = c.max_uses - (c.uses + 1)
      BY <1>3, <1>5, <1>7, <1>8, <2>2 DEF Budget
    <3>2. c.max_uses \in Nat /\ c.uses \in Nat /\ c.uses < c.max_uses
      BY <1>4, <2>2 DEF EnrollmentToken
    <3>3. /\ c.max_uses - c.uses \in Nat /\ c.max_uses - c.uses # 0
          /\ c.max_uses - (c.uses + 1) = (c.max_uses - c.uses) - 1
      BY <3>2
    <3>4. Budget[t] # None
      BY <3>1, <3>3
    <3> QED
      BY <3>1, <3>3, <3>4
  <2> QED
    BY <2>1, <2>2
<1>11. UNCHANGED Status
  BY <1>8, <1>9 DEF Status
<1>12. Budget' = [Budget EXCEPT ![t] = IF @ = None THEN None ELSE @ - 1]
  BY <1>9, <1>10, ZenonT(40) DEF Budget
<1>13. Ledger!Redeem(t, r)
  BY <1>2, <1>3, <1>8, <1>10, <1>11, <1>12 DEF Ledger!Redeem
<1> QED
  BY <1>13

\* Every step is one of the ledger, or withdraws its promise.
LEMMA LedgerStep ==
    ASSUME AInv, GrantInv, UsesInv, CalmInv, [Next]_vars
    PROVE  [Ledger!Next]_(Ledger!ledger)
<1> USE DEF store, local, history
<1>0. calm \in BOOLEAN /\ tokens \in [TokenIds -> EnrollmentToken \cup {NoRow}] /\ TInv /\ Accounted
  BY DEF AInv, TInv, TypeOK
<1>1. ASSUME ~calm' PROVE Ledger!Next
  BY <1>1 DEF Ledger!Next, Ledger!Withdrawn
<1>2. ASSUME UNCHANGED <<issued, consumed>>, calm' => UNCHANGED calm,
             \A t \in TokenIds : Live(t)' => tokens'[t] = tokens[t]
      PROVE  Ledger!Next
  <2>1. CASE calm'
    <3>1. \E gone \in SUBSET TokenIds : Ledger!Retire(gone)
      BY <1>0, <1>2, LedgerRetire
    <3> QED
      BY <1>2, <2>1, <3>1 DEF Ledger!Next
  <2> QED
    BY <1>1, <2>1
<1>3. ASSUME NEW r \in Requests, Arrive(r) PROVE calm' => UNCHANGED calm
  BY <1>0, <1>3 DEF Arrive
<1>4. ASSUME UNCHANGED <<tokens, issued, consumed>>, calm' => UNCHANGED calm PROVE Ledger!Next
  BY <1>2, <1>4
<1>5. ASSUME NEW r \in Requests, NEW a \in Apps,
             CreateTokenGetOrg(r, a) \/ CreateFormation(r, a) \/ DeleteFormation(r, a)
      PROVE  Ledger!Next
  BY <1>3, <1>4, <1>5 DEF CreateTokenGetOrg, CreateFormation, DeleteFormation
<1>6. ASSUME NEW r \in Requests, NEW t \in TokenIds,
             RevokeGet(r, t) \/ \E a \in Apps : ConsumeGet(r, t, a)
      PROVE  Ledger!Next
  BY <1>3, <1>4, <1>6 DEF RevokeGet, ConsumeGet
<1>7. ASSUME NEW r \in Requests,
             DeleteOrg(r) \/ CreateOrg(r) \/ \E t \in TokenIds : DeleteToken(r, t)
      PROVE  Ledger!Next
  <2>1. \A x \in TokenIds : Live(x)' => tokens'[x] = tokens[x]
    BY <1>0, <1>7 DEF DeleteOrg, CreateOrg, DeleteToken, CascadeDelete, Empty, Remove, Put,
                      Present, Live
  <2>2. Arrive(r) /\ UNCHANGED <<issued, consumed>>
    BY <1>7 DEF DeleteOrg, CreateOrg, DeleteToken
  <2> QED
    BY <1>2, <1>3, <2>1, <2>2
<1>8. ASSUME NEW r \in Requests,
             CreateTokenGetFormation(r) \/ ConsumeCheck(r) \/ ConsumeReturn(r) \/ Drop(r)
      PROVE  Ledger!Next
  BY <1>4, <1>8 DEF CreateTokenGetFormation, ConsumeCheck, ConsumeReturn, Drop
<1>9. ASSUME NEW r \in Requests, CreateTokenInsert(r) PROVE Ledger!Next
  <2>1. UNCHANGED calm
    BY <1>9 DEF CreateTokenInsert
  <2>2. CASE calm
    BY <1>0, <1>9, <2>1, <2>2, LedgerIssue DEF Ledger!Next
  <2> QED
    BY <1>1, <2>1, <2>2
<1>10. ASSUME NEW r \in Requests, ConsumeWrite(r) PROVE Ledger!Next
  <2>1. UNCHANGED calm
    BY <1>10 DEF ConsumeWrite
  <2>2. CASE calm
    BY <1>10, <2>1, <2>2, LedgerRedeem DEF Ledger!Next
  <2> QED
    BY <1>1, <2>1, <2>2
<1>11. ASSUME NEW r \in Requests, RevokeWrite(r) PROVE Ledger!Next
  <2>1. UNCHANGED <<calm, issued, consumed>>
    BY <1>11 DEF RevokeWrite
  <2>2. PICK t \in TokenIds, c \in EnrollmentToken : t = tok[r] /\ c = copy[r]
    BY <1>0, <1>11 DEF TInv, Located, RevokeWrite
  <2>3. PICK d \in EnrollmentToken : d = [c EXCEPT !.revoked = TRUE] /\ d.revoked
    <3>1. [c EXCEPT !.revoked = TRUE] \in EnrollmentToken
      BY DEF EnrollmentToken
    <3>2. [c EXCEPT !.revoked = TRUE].revoked
      BY DEF EnrollmentToken
    <3> QED
      BY <3>1, <3>2
  <2>4. \A x \in TokenIds : tokens'[x] = tokens[x] \/ (x = t /\ tokens'[x] = d)
    BY <1>0, <1>11, <2>2, <2>3, UpdateType DEF RevokeWrite, Rows
  <2>5. \A x \in TokenIds : Live(x)' => tokens'[x] = tokens[x]
    BY <2>3, <2>4 DEF Live
  <2> QED
    BY <1>2, <2>1, <2>5
<1>12. CASE Tick
  BY <1>4, <1>12 DEF Tick
<1>13. CASE UNCHANGED vars
  BY <1>4, <1>13 DEF vars
<1> QED
  BY <1>5, <1>6, <1>7, <1>8, <1>9, <1>10, <1>11, <1>12, <1>13 DEF Next, AllServed

\* The stored tokens are issued, and none has been used.
LEMMA LedgerInit == Init => Ledger!Init
<1> SUFFICES ASSUME Init PROVE Ledger!Init
  OBVIOUS
<1>1. ASSUME NEW t \in TokenIds
      PROVE  /\ Status[t] \in {"fresh", "live"} /\ Budget[t] \in MaxUsesArgs \cup {0}
             /\ Status[t] = "fresh" => Budget[t] = 0
  <2>1. t \in issued <=> Present(tokens, t)
    BY DEF Init
  <2>2. CASE ~Present(tokens, t)
    BY <2>1, <2>2 DEF Status, Budget
  <2>3. CASE Present(tokens, t)
    <3>1. PICK x \in NewTokens : x = tokens[t]
      BY <2>3 DEF Init, Present
    <3>2. x.uses = 0 /\ x.max_uses \in MaxUsesArgs
      BY DEF NewTokens
    <3>3. x.revoked \in {FALSE}
      BY DEF NewTokens
    <3>4. ~tokens[t].revoked
      BY <3>1, <3>3, Zenon
    <3>5. Status[t] = "live"
      BY <2>1, <2>3, <3>4 DEF Status
    <3>6. x.max_uses # None => x.max_uses - x.uses = x.max_uses
      <4>1. \A n \in Nat : n - 0 = n
        OBVIOUS
      <4>2. x.max_uses # None => x.max_uses \in Nat
        BY <3>2
      <4> QED
        BY <3>2, <4>1, <4>2
    <3>7. Budget[t] = x.max_uses
      BY <3>1, <3>5, <3>6 DEF Budget
    <3> QED
      BY <3>2, <3>5, <3>7
  <2> QED
    BY <2>2, <2>3
<1>2. Status \in [TokenIds -> {"fresh", "live"}]
  BY <1>1 DEF Status
<1>3. Budget \in [TokenIds -> MaxUsesArgs \cup {0}]
  BY <1>1 DEF Budget
<1>4. consumed = [t \in TokenIds |-> {}] /\ calm = TRUE
  BY DEF Init
<1> QED
  BY <1>1, <1>2, <1>3, <1>4 DEF Ledger!Init

\* Until two requests overlap, the token calls are the atomic ledger, over either
\* backend and through every failure: each of their steps is one of its steps.
THEOREM RefinesTokenLedger == Spec => RefinesLedger
<1>1. Init => AInv /\ GrantInv /\ CalmInv
  <2>1. Init => AInv
    BY TypeInit DEF AInv, Init, Accounted
  <2>2. Init => GrantInv /\ CalmInv
    BY DEF Init, GrantInv, CalmInv, InFlight
  <2> QED
    BY <2>1, <2>2
<1> QED
  BY <1>1, UsesInit, TypeStep, AccountedStep, GrantStep, UsesStep, CalmStep, LedgerInit, LedgerStep,
     PTL DEF Spec, AInv, RefinesLedger, Ledger!Spec
=============================================================================
