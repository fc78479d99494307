----------------------------- MODULE BagLemmas ------------------------------
(***************************************************************************)
(* Facts about bags and about counting that the proofs on security lists   *)
(* share: a list of rules becomes a bag by counting its places.            *)
(***************************************************************************)
EXTENDS Integers, Sequences, FiniteSets, Bags, FiniteSetTheorems, TLAPS

(* How often each value of a function occurs, and where one does. *)
Tally(f)    == [r \in {f[s] : s \in DOMAIN f} |-> Cardinality({s \in DOMAIN f : f[s] = r})]
Places(f, r) == {s \in DOMAIN f : f[s] = r}

Copies(r, B) == IF r \in DOMAIN B THEN B[r] ELSE 0

-----------------------------------------------------------------------------

(* Adding one bag to another yields a bag that contains both: the list.extend
   calls of add_security_list_rules never lose a rule. *)
LEMMA BagSum ==
  ASSUME NEW A, NEW B, IsABag(A), IsABag(B)
  PROVE  /\ IsABag(A (+) B)
         /\ BagToSet(A (+) B) = BagToSet(A) \cup BagToSet(B)
         /\ A \sqsubseteq A (+) B
         /\ B \sqsubseteq A (+) B
  BY DEF IsABag, BagToSet, \sqsubseteq, (+)

(* Copies add up. *)
LEMMA SumCopies ==
  ASSUME NEW A, NEW B, IsABag(A), IsABag(B), NEW r
  PROVE  Copies(r, A (+) B) = Copies(r, A) + Copies(r, B)
  BY DEF IsABag, (+), Copies

(* The copies of an element of a bag are counted by a natural number. *)
LEMMA CopiesType ==
  ASSUME NEW A, IsABag(A), NEW r
  PROVE  Copies(r, A) \in Nat
  BY DEF IsABag, Copies

(* Containment of bags composes. *)
LEMMA BagContainmentTransitive ==
  ASSUME NEW A, NEW B, NEW C, IsABag(A), IsABag(B), IsABag(C),
         A \sqsubseteq B, B \sqsubseteq C
  PROVE  A \sqsubseteq C
<1>1. DOMAIN A \subseteq DOMAIN C
  BY DEF \sqsubseteq
<1>2. ASSUME NEW e \in DOMAIN A PROVE A[e] <= C[e]
  <2>1. e \in DOMAIN B /\ A[e] <= B[e] /\ B[e] <= C[e]
    BY DEF \sqsubseteq
  <2>2. A[e] \in Nat /\ B[e] \in Nat /\ C[e] \in Nat
    BY <1>1, <2>1 DEF IsABag
  <2> QED BY <2>1, <2>2
<1> QED BY <1>1, <1>2 DEF \sqsubseteq

(* The empty bag is a bag without elements. *)
LEMMA EmptyBagIsBag == IsABag(EmptyBag) /\ BagToSet(EmptyBag) = {}
  BY DEF EmptyBag, SetToBag, IsABag, BagToSet

(* The nonempty part of a finite set that shares a value has positive size. *)
LEMMA PositiveCardinality ==
  ASSUME NEW S, IsFiniteSet(S), S # {}
  PROVE  Cardinality(S) \in {n \in Nat : n > 0}
  BY FS_EmptySet, FS_CardinalityType

(* Counting the places of finitely many values gives a bag of these values. *)
LEMMA TallyIsBag ==
  ASSUME NEW f, IsFiniteSet(DOMAIN f)
  PROVE  /\ IsABag(Tally(f))
         /\ BagToSet(Tally(f)) = {f[s] : s \in DOMAIN f}
         /\ \A r : Copies(r, Tally(f)) = Cardinality(Places(f, r))
<1> DEFINE D == {f[s] : s \in DOMAIN f}
<1>1. \A r : IsFiniteSet(Places(f, r))
  BY FS_Subset DEF Places
<1>2. \A r \in D : Places(f, r) # {}
  BY DEF Places
<1>3. \A r : r \notin D => Places(f, r) = {}
  BY DEF Places
<1>4. Tally(f) = [r \in D |-> Cardinality(Places(f, r))]
  BY DEF Tally, Places
<1> HIDE DEF D
<1>5. \A r \in D : Cardinality(Places(f, r)) \in {n \in Nat : n > 0}
  BY <1>1, <1>2, PositiveCardinality
<1>6. IsABag(Tally(f)) /\ BagToSet(Tally(f)) = D
  BY <1>4, <1>5 DEF IsABag, BagToSet
<1>7. \A r : Copies(r, Tally(f)) = Cardinality(Places(f, r))
  <2> TAKE r
  <2>1. CASE r \in D
    BY <1>4, <2>1 DEF Copies
  <2>2. CASE r \notin D
    <3>1. Cardinality(Places(f, r)) = 0
      BY <1>3, <2>2, FS_EmptySet
    <3> QED BY <1>4, <2>2, <3>1 DEF Copies
  <2> QED BY <2>1, <2>2
<1> QED BY <1>6, <1>7 DEF D

(* A list has finitely many places. *)
LEMMA ListPlaces ==
  ASSUME NEW S, NEW list \in Seq(S)
  PROVE  IsFiniteSet(DOMAIN list)
  BY FS_Interval

(* Finitely many indices with finitely many places each. *)
LEMMA PairsFinite ==
  ASSUME NEW I, IsFiniteSet(I), NEW J, \A i \in I : IsFiniteSet(J[i])
  PROVE  IsFiniteSet(UNION {{i} \X J[i] : i \in I})
<1> DEFINE Row(i) == {i} \X J[i]
           T == {Row(i) : i \in I}
           f == [i \in I |-> Row(i)]
<1>1. \A i \in I : IsFiniteSet(Row(i))
  BY FS_Singleton, FS_Product
<1> HIDE DEF Row
<1>2. f \in Surjection(I, T)
  BY DEF Surjection
<1>3. IsFiniteSet(T) /\ \A X \in T : IsFiniteSet(X)
  BY <1>1, <1>2, FS_Surjection
<1>4. IsFiniteSet(UNION T)
  BY <1>3, FS_UNION
<1> QED BY <1>4 DEF Row

(* Places under one index are as many as without it. *)
LEMMA IndexedPlaces ==
  ASSUME NEW x, NEW S, IsFiniteSet(S)
  PROVE  /\ IsFiniteSet({x} \X S)
         /\ Cardinality({x} \X S) = Cardinality(S)
<1>1. IsFiniteSet({x}) /\ Cardinality({x}) = 1
  BY FS_Singleton
<1>2. IsFiniteSet({x} \X S) /\ Cardinality({x} \X S) = 1 * Cardinality(S)
  BY <1>1, FS_Product
<1>3. Cardinality(S) \in Nat
  BY FS_CardinalityType
<1> QED BY <1>2, <1>3

(* Disjoint finite sets. *)
LEMMA DisjointSum ==
  ASSUME NEW S, NEW T, IsFiniteSet(S), IsFiniteSet(T), S \cap T = {}
  PROVE  /\ IsFiniteSet(S \cup T)
         /\ Cardinality(S \cup T) = Cardinality(S) + Cardinality(T)
<1>1. /\ IsFiniteSet(S \cup T)
      /\ Cardinality(S \cup T) = Cardinality(S) + Cardinality(T) - Cardinality(S \cap T)
  BY FS_Union
<1>2. Cardinality(S \cap T) = 0
  BY FS_EmptySet
<1>3. Cardinality(S) \in Nat /\ Cardinality(T) \in Nat
  BY FS_CardinalityType
<1> QED BY <1>1, <1>2, <1>3

(* Sets that a one-to-one function matches have the same size. *)
LEMMA SameSize ==
  ASSUME NEW S, IsFiniteSet(S), NEW T, NEW f \in [S -> T],
         \A x, y \in S : f[x] = f[y] => x = y,
         \A t \in T : \E x \in S : f[x] = t
  PROVE  IsFiniteSet(T) /\ Cardinality(T) = Cardinality(S)
<1>1. f \in Bijection(S, T)
  BY DEF Bijection, Injection, Surjection, IsInjective
<1> QED BY <1>1, FS_Bijection DEF ExistsBijection
=============================================================================
