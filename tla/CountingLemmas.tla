--------------------------- MODULE CountingLemmas ---------------------------
(***************************************************************************)
(* Facts about finite sets and natural numbers that the proofs of several  *)
(* components need.                                                        *)
(***************************************************************************)
EXTENDS Integers, FiniteSetTheorems, WellFoundedInduction, TLAPS

\* A set of natural numbers has a least one.
LEMMA LeastNatural ==
    ASSUME NEW S \in SUBSET Nat, S # {}
    PROVE  \E n \in S : \A m \in S : n <= m
<1>1. PICK R : R = OpToRel(<, Nat)
  OBVIOUS
<1>2. IsWellFoundedOn(R, Nat)
  BY <1>1, NatLessThanWellFounded
<1>3. \A a, b \in Nat : a < b => <<a, b>> \in R
  BY <1>1 DEF OpToRel
<1>4. PICK x \in S : \A y \in S : ~(<<y, x>> \in R)
  BY <1>2, WFMin
<1>5. ASSUME NEW m \in S PROVE x <= m
  <2>1. ~(m < x) /\ m \in Nat /\ x \in Nat
    BY <1>3, <1>4
  <2> QED
    BY <2>1
<1> QED
  BY <1>5

\* What is in A or comes from S by way of f is no more than both together.
LEMMA Covered ==
    ASSUME NEW A, NEW S, NEW B, NEW f, IsFiniteSet(A), IsFiniteSet(S),
           \A b \in B : b \in A \/ \E x \in S : f[x] = b
    PROVE  IsFiniteSet(B) /\ Cardinality(B) <= Cardinality(A) + Cardinality(S)
<1> DEFINE T == {f[x] : x \in S}
           g == [x \in S |-> f[x]]
<1>1. g \in Surjection(S, T)
  BY DEF Surjection
<1>2. IsFiniteSet(T) /\ Cardinality(T) <= Cardinality(S)
  BY <1>1, FS_Surjection
<1>3. /\ Cardinality(A) \in Nat /\ Cardinality(S) \in Nat /\ Cardinality(T) \in Nat
      /\ Cardinality(A \cap T) \in Nat /\ IsFiniteSet(A \cup T)
      /\ Cardinality(A \cup T) = Cardinality(A) + Cardinality(T) - Cardinality(A \cap T)
  <2>1. IsFiniteSet(A \cap T)
    BY FS_Subset
  <2> QED
    BY <1>2, <2>1, FS_Union, FS_CardinalityType
<1>4. B \subseteq A \cup T
  OBVIOUS
<1>5. /\ IsFiniteSet(B) /\ Cardinality(B) \in Nat /\ Cardinality(B) <= Cardinality(A \cup T)
      /\ Cardinality(A \cup T) \in Nat
  BY <1>3, <1>4, FS_Subset, FS_CardinalityType
<1> QED
  BY <1>2, <1>3, <1>5

\* One more row for one admitted create less.
LEMMA Trade ==
    ASSUME NEW F, NEW W, NEW G, NEW V, IsFiniteSet(F), IsFiniteSet(W),
           NEW n \in Nat, Cardinality(F) + Cardinality(W) <= n,
           \/ G \subseteq F /\ V \subseteq W
           \/ \E a, r : r \in W /\ G \subseteq F \cup {a} /\ V \subseteq W \ {r}
    PROVE  Cardinality(G) + Cardinality(V) <= n
<1>0. Cardinality(F) \in Nat /\ Cardinality(W) \in Nat
  BY FS_CardinalityType
<1>1. CASE G \subseteq F /\ V \subseteq W
  <2>1. /\ Cardinality(G) \in Nat /\ Cardinality(G) <= Cardinality(F)
        /\ Cardinality(V) \in Nat /\ Cardinality(V) <= Cardinality(W)
    BY <1>1, FS_Subset, FS_CardinalityType
  <2> QED
    BY <1>0, <2>1
<1>2. CASE \E a, r : r \in W /\ G \subseteq F \cup {a} /\ V \subseteq W \ {r}
  <2>1. PICK a, r : r \in W /\ G \subseteq F \cup {a} /\ V \subseteq W \ {r}
    BY <1>2
  <2>2. /\ IsFiniteSet(F \cup {a}) /\ Cardinality(F \cup {a}) <= Cardinality(F) + 1
        /\ Cardinality(F \cup {a}) \in Nat
    <3>1. /\ IsFiniteSet(F \cup {a})
          /\ Cardinality(F \cup {a}) = IF a \in F THEN Cardinality(F) ELSE Cardinality(F) + 1
      BY FS_AddElement
    <3> QED
      BY <1>0, <3>1
  <2>3. /\ IsFiniteSet(W \ {r}) /\ Cardinality(W \ {r}) = Cardinality(W) - 1
        /\ Cardinality(W \ {r}) \in Nat
    BY <2>1, FS_RemoveElement, FS_CardinalityType
  <2>4. /\ Cardinality(G) \in Nat /\ Cardinality(G) <= Cardinality(F \cup {a})
        /\ Cardinality(V) \in Nat /\ Cardinality(V) <= Cardinality(W \ {r})
    BY <2>1, <2>2, <2>3, FS_Subset, FS_CardinalityType
  <2> QED
    BY <1>0, <2>2, <2>3, <2>4
<1> QED
  BY <1>1, <1>2

=============================================================================
