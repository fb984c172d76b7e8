---------------------------- MODULE TokenLedger ----------------------------
(***************************************************************************)
(* What an enrollment token promises: it is issued once with a budget of   *)
(* uses, every redemption takes one use while the token is live, and a     *)
(* token that was revoked or deleted is never live again.  Each operation  *)
(* is one indivisible step.  The promise is for clients that wait for one  *)
(* answer before the next request: it may be withdrawn once, for good.     *)
(***************************************************************************)
EXTENDS Naturals

CONSTANTS TokenIds, Requests, MaxUsesArgs, None

VARIABLES status,    \* "fresh", "live" or "retired"
          budget,    \* uses left; None is no limit
          redeemed,  \* who has redeemed the token
          kept       \* the promise has not been withdrawn

ledger == <<status, budget, redeemed, kept>>

Init ==
    /\ status \in [TokenIds -> {"fresh", "live"}]
    /\ budget \in [TokenIds -> MaxUsesArgs \cup {0}]
    /\ \A t \in TokenIds : status[t] = "fresh" => budget[t] = 0
    /\ redeemed = [t \in TokenIds |-> {}]
    /\ kept = TRUE

Issue(t) ==
    /\ status[t] = "fresh"
    /\ status' = [status EXCEPT ![t] = "live"]
    /\ \E m \in MaxUsesArgs : budget' = [budget EXCEPT ![t] = m]
    /\ UNCHANGED redeemed

Redeem(t, r) ==
    /\ status[t] = "live"
    /\ budget[t] # 0
    /\ r \notin redeemed[t]
    /\ budget' = [budget EXCEPT ![t] = IF @ = None THEN None ELSE @ - 1]
    /\ redeemed' = [redeemed EXCEPT ![t] = @ \cup {r}]
    /\ UNCHANGED status

Retire(gone) ==
    /\ \A t \in gone : status[t] = "live"
    /\ status' = [t \in TokenIds |-> IF t \in gone THEN "retired" ELSE status[t]]
    /\ budget' = [t \in TokenIds |-> IF t \in gone THEN 0 ELSE budget[t]]
    /\ UNCHANGED redeemed

Withdrawn == ~kept'

Next ==
    \/ /\ \/ \E t \in TokenIds : Issue(t) \/ \E r \in Requests : Redeem(t, r)
          \/ \E gone \in SUBSET TokenIds : Retire(gone)
       /\ kept /\ UNCHANGED kept
    \/ Withdrawn

Spec == Init /\ [][Next]_ledger
=============================================================================
