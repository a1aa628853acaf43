----------------------------- MODULE PagingProofs -----------------------------
(***************************************************************************)
(* Proofs about the walks: for any rows, pages, filters and writes of      *)
(* others, the audit cursor gives every row that stays exactly once, and a *)
(* walk by offset misses no more rows than others removed.                 *)
(*                                                                         *)
(* A page is told by the ranks of its rows in the order of the scope.      *)
(* What a walk removes it had been given, so it lies before the offset and *)
(* shifts what follows by as much as the offset goes back; what others     *)
(* remove shifts at most as many unseen rows below the offset.             *)
(***************************************************************************)
EXTENDS Paging, StoreProofs, SequenceTheorems

-----------------------------------------------------------------------------
(* Places in an order.                                                     *)

(* A strict total order on the members of a set, as a set of pairs.        *)
StrictOrder(R, S) ==
  /\ \A i \in S : <<i, i>> \notin R
  /\ \A i, j, k \in S : <<i, j>> \in R /\ <<j, k>> \in R => <<i, k>> \in R
  /\ \A i, j \in S : i = j \/ <<i, j>> \in R \/ <<j, i>> \in R

(* Those before a member, and how many they are.                           *)
Sooner(S, R, i) == {j \in S : <<j, i>> \in R}

Rank(S, R, i) == Cardinality(Sooner(S, R, i))

(* The members in the first places. *)
First(S, R, k) == {i \in S : Rank(S, R, i) < k}

LEMMA SetMinusFinite ==
  ASSUME NEW S, IsFiniteSet(S), NEW D
  PROVE  IsFiniteSet(S \ D) /\ IsFiniteSet(S \cap D)
BY FS_Subset

(* A rank is a number, and grows along the order.                          *)
LEMMA RankGrows ==
  ASSUME NEW S, IsFiniteSet(S), NEW R, StrictOrder(R, S)
  PROVE  /\ \A i \in S : Rank(S, R, i) \in 0..(Cardinality(S) - 1)
         /\ \A i, j \in S : <<i, j>> \in R => Rank(S, R, i) < Rank(S, R, j)
<1>1. ASSUME NEW i \in S, NEW T \in SUBSET S, i \notin T
      PROVE  /\ IsFiniteSet(T) /\ Cardinality(T) \in Nat
             /\ Cardinality(T \cup {i}) = Cardinality(T) + 1
  <2>1. IsFiniteSet(T) /\ Cardinality(T) \in Nat
    BY FS_Subset, FS_CardinalityType
  <2> QED BY <1>1, <2>1, FS_AddElement
<1>2. ASSUME NEW i \in S PROVE Rank(S, R, i) \in 0..(Cardinality(S) - 1)
  <2>1. Sooner(S, R, i) \in SUBSET S /\ i \notin Sooner(S, R, i)
    BY DEF Sooner, StrictOrder
  <2>2. /\ Rank(S, R, i) \in Nat
        /\ Cardinality(Sooner(S, R, i) \cup {i}) = Rank(S, R, i) + 1
    BY <1>1, <2>1 DEF Rank
  <2>3. Sooner(S, R, i) \cup {i} \in SUBSET S BY <2>1
  <2>4. Cardinality(Sooner(S, R, i) \cup {i}) =< Cardinality(S) BY <2>3, FS_Subset
  <2>5. Cardinality(S) \in Nat BY FS_CardinalityType
  <2> QED BY <2>2, <2>4, <2>5
<1>3. ASSUME NEW i \in S, NEW j \in S, <<i, j>> \in R
      PROVE  Rank(S, R, i) < Rank(S, R, j)
  <2>1. Sooner(S, R, i) \cup {i} \in SUBSET Sooner(S, R, j)
    BY <1>3 DEF Sooner, StrictOrder
  <2>2. Sooner(S, R, i) \in SUBSET S /\ i \notin Sooner(S, R, i)
    BY DEF Sooner, StrictOrder
  <2>3. /\ Rank(S, R, i) \in Nat
        /\ Cardinality(Sooner(S, R, i) \cup {i}) = Rank(S, R, i) + 1
    BY <1>1, <2>2 DEF Rank
  <2>4. IsFiniteSet(Sooner(S, R, j)) BY FS_Subset DEF Sooner
  <2>5. Cardinality(Sooner(S, R, i) \cup {i}) =< Rank(S, R, j) /\ Rank(S, R, j) \in Nat
    BY <2>1, <2>4, FS_Subset, FS_CardinalityType DEF Rank
  <2> QED BY <2>3, <2>5
<1> QED BY <1>2, <1>3

(* Every place is taken, and by one.                                       *)
LEMMA RankIsExact ==
  ASSUME NEW S, IsFiniteSet(S), NEW R, StrictOrder(R, S)
  PROVE  /\ \A i, j \in S : Rank(S, R, i) = Rank(S, R, j) => i = j
         /\ \A n \in 0..(Cardinality(S) - 1) : \E i \in S : Rank(S, R, i) = n
<1> DEFINE N == Cardinality(S)
           T == 0..(N - 1)
           f == [i \in S |-> Rank(S, R, i)]
<1>1. \A i \in S : Rank(S, R, i) \in T BY RankGrows
<1>2. \A i, j \in S : Rank(S, R, i) = Rank(S, R, j) => i = j
  <2> SUFFICES ASSUME NEW i \in S, NEW j \in S, Rank(S, R, i) = Rank(S, R, j), i # j
               PROVE  FALSE
    OBVIOUS
  <2>1. Rank(S, R, i) < Rank(S, R, j) \/ Rank(S, R, j) < Rank(S, R, i)
    BY RankGrows DEF StrictOrder
  <2>2. Rank(S, R, i) \in Int /\ Rank(S, R, j) \in Int BY <1>1
  <2> QED BY <2>1, <2>2
<1>3. N \in Nat BY FS_CardinalityType
<1>4. IsFiniteSet(T) /\ Cardinality(T) = N
  <2>1. 0 \in Int /\ N - 1 \in Int BY <1>3
  <2>2. IsFiniteSet(T) /\ Cardinality(T) = IF 0 > N - 1 THEN 0 ELSE N - 1 - 0 + 1
    BY <2>1, FS_Interval
  <2> QED BY <2>2, <1>3
<1>5. f \in Injection(S, T) BY <1>1, <1>2 DEF Injection, IsInjective
<1>6. f \in Surjection(S, T) BY <1>4, <1>5, FS_Injection
<1>7. ASSUME NEW n \in T PROVE \E i \in S : Rank(S, R, i) = n
  BY <1>6 DEF Surjection
<1> QED BY <1>2, <1>7

(* As many are in the first places as there are places.                    *)
LEMMA FirstCount ==
  ASSUME NEW S, IsFiniteSet(S), NEW R, StrictOrder(R, S), NEW k \in Nat
  PROVE  /\ IsFiniteSet(First(S, R, k))
         /\ Cardinality(First(S, R, k)) =< k
         /\ k =< Cardinality(S) => Cardinality(First(S, R, k)) = k
         /\ Cardinality(S) =< k => First(S, R, k) = S
<1> DEFINE F == First(S, R, k)
           T == 0..(k - 1)
           f == [i \in F |-> Rank(S, R, i)]
<1>1. F \in SUBSET S /\ IsFiniteSet(F) BY FS_Subset DEF First
<1>2. \A i \in S : Rank(S, R, i) \in Nat /\ Rank(S, R, i) < Cardinality(S)
  <2>1. Cardinality(S) \in Nat BY FS_CardinalityType
  <2> QED BY <2>1, RankGrows
<1>3. \A i \in F : Rank(S, R, i) \in T BY <1>2 DEF First
<1>4. IsFiniteSet(T) /\ Cardinality(T) = k
  <2>1. 0 \in Int /\ k - 1 \in Int OBVIOUS
  <2>2. IsFiniteSet(T) /\ Cardinality(T) = IF 0 > k - 1 THEN 0 ELSE k - 1 - 0 + 1
    BY <2>1, FS_Interval
  <2> QED BY <2>2
<1>5. \A i, j \in F : Rank(S, R, i) = Rank(S, R, j) => i = j
  BY <1>1, RankIsExact
<1>6. f \in Injection(F, T) BY <1>3, <1>5 DEF Injection, IsInjective
<1>7. Cardinality(F) =< k BY <1>4, <1>6, FS_Injection
<1>8. ASSUME k =< Cardinality(S) PROVE Cardinality(F) = k
  <2>1. Cardinality(S) \in Nat BY FS_CardinalityType
  <2>2. ASSUME NEW n \in T PROVE \E i \in F : f[i] = n
    <3>1. n \in 0..(Cardinality(S) - 1) BY <2>1, <1>8
    <3>2. PICK i \in S : Rank(S, R, i) = n BY <3>1, RankIsExact
    <3>3. i \in F BY <3>2 DEF First
    <3> QED BY <3>2, <3>3
  <2>3. f \in Surjection(F, T) BY <1>3, <2>2 DEF Surjection
  <2> QED BY <1>4, <1>6, <2>3, FS_Injection
<1>9. ASSUME Cardinality(S) =< k PROVE F = S
  <2>1. Cardinality(S) \in Nat BY FS_CardinalityType
  <2> QED BY <1>2, <1>9, <2>1 DEF First
<1> QED BY <1>1, <1>7, <1>8, <1>9

(* A member is later in a larger set, by no more than what is there more.  *)
LEMMA RankWithin ==
  ASSUME NEW S, IsFiniteSet(S), NEW T \in SUBSET S, NEW R, NEW i
  PROVE  /\ Rank(T, R, i) \in Nat /\ Rank(S, R, i) \in Nat
         /\ Rank(T, R, i) =< Rank(S, R, i)
         /\ Rank(S, R, i) =< Rank(T, R, i) + Cardinality(S \ T)
<1> DEFINE A == Sooner(T, R, i)
           B == Sooner(S, R, i)
           C == S \ T
<1>1. A \in SUBSET B /\ B \in SUBSET S /\ B \in SUBSET (A \cup C) BY DEF Sooner
<1>2. IsFiniteSet(A) /\ IsFiniteSet(B) /\ IsFiniteSet(C) BY <1>1, FS_Subset
<1>3. Cardinality(A) \in Nat /\ Cardinality(B) \in Nat /\ Cardinality(C) \in Nat
  BY <1>2, FS_CardinalityType
<1>4. Cardinality(A) =< Cardinality(B) BY <1>1, <1>2, FS_Subset
<1>5. A \cap C = {} BY DEF Sooner
<1> HIDE DEF A, B, C
<1>6. Cardinality(A \cup C) = Cardinality(A) + Cardinality(C) BY <1>2, <1>5, DisjointUnion
<1>7. IsFiniteSet(A \cup C) BY <1>2, FS_Union
<1>8. Cardinality(B) =< Cardinality(A \cup C) BY <1>1, <1>7, FS_Subset
<1> QED BY <1>3, <1>4, <1>6, <1>8 DEF Rank, A, B, C

(* What is removed from the first places shifts the rest of them down.     *)
LEMMA RemovalShifts ==
  ASSUME NEW S, IsFiniteSet(S), NEW R, StrictOrder(R, S), NEW k \in Nat,
         NEW D \in SUBSET First(S, R, k), NEW i \in First(S, R, k) \ D
  PROVE  Rank(S \ D, R, i) + Cardinality(D) < k
<1> DEFINE F == First(S, R, k)
           A == Sooner(S \ D, R, i)
<1>1. IsFiniteSet(F) /\ Cardinality(F) =< k BY FirstCount
<1>2. F \in SUBSET S /\ i \in S BY DEF First
<1>3. ASSUME NEW j \in A PROVE j \in F
  <2>1. j \in S /\ <<j, i>> \in R BY DEF Sooner
  <2>2. Rank(S, R, j) < Rank(S, R, i) BY <1>2, <2>1, RankGrows
  <2>3. Rank(S, R, i) < k /\ Rank(S, R, i) \in Int /\ Rank(S, R, j) \in Int
    BY <1>2, <2>1, RankGrows DEF First
  <2> QED BY <2>1, <2>2, <2>3 DEF First
<1>4. i \notin A /\ A \cap D = {} BY <1>2 DEF Sooner, StrictOrder
<1>5. A \in SUBSET F /\ D \in SUBSET F BY <1>3
<1>6. IsFiniteSet(A) /\ IsFiniteSet(D) BY <1>1, <1>5, FS_Subset
<1>7. Cardinality(A) \in Nat /\ Cardinality(D) \in Nat BY <1>6, FS_CardinalityType
<1>8. Cardinality(A \cup D) = Cardinality(A) + Cardinality(D) BY <1>4, <1>6, DisjointUnion
<1>9. IsFiniteSet(A \cup D) BY <1>6, FS_Union
<1>10. i \notin A \cup D BY <1>4
<1>11. Cardinality((A \cup D) \cup {i}) = Cardinality(A \cup D) + 1 BY <1>9, <1>10, FS_AddElement
<1>12. (A \cup D) \cup {i} \in SUBSET F BY <1>5
<1>13. Cardinality((A \cup D) \cup {i}) =< Cardinality(F) BY <1>1, <1>12, FS_Subset
<1>14. Cardinality(F) \in Nat BY <1>1, FS_CardinalityType
<1>15. Rank(S \ D, R, i) = Cardinality(A) BY DEF Rank
<1> QED BY <1>1, <1>7, <1>8, <1>11, <1>13, <1>14, <1>15

(* Removing as many brings no more than them among the first, or away.     *)
LEMMA RemovalBrings ==
  ASSUME NEW S, IsFiniteSet(S), NEW R, StrictOrder(R, S), NEW k \in Nat,
         NEW D \in SUBSET S
  PROVE  /\ IsFiniteSet({i \in S \ First(S, R, k) : i \in D \/ i \in First(S \ D, R, k)})
         /\ Cardinality({i \in S \ First(S, R, k) : i \in D \/ i \in First(S \ D, R, k)})
              =< Cardinality(D)
<1> DEFINE F == First(S, R, k)
           G == First(S \ D, R, k)
           X == {i \in S \ F : i \in D \/ i \in G}
<1>1. X \in SUBSET S /\ IsFiniteSet(X) /\ IsFiniteSet(D) BY FS_Subset
<1>2. Cardinality(X) \in Nat /\ Cardinality(D) \in Nat /\ Cardinality(S) \in Nat
  BY <1>1, FS_CardinalityType
<1>3. CASE X = {}
  <2>1. Cardinality(X) = 0 BY <1>3, FS_EmptySet
  <2> QED BY <1>1, <1>2, <2>1
<1>4. CASE X # {}
  <2>1. F # S BY <1>4
  <2>2. k =< Cardinality(S) BY <1>2, <2>1, FirstCount
  <2>3. IsFiniteSet(F) /\ Cardinality(F) = k BY <2>2, FirstCount
  <2>4. IsFiniteSet(S \ D) /\ StrictOrder(R, S \ D) BY FS_Subset DEF StrictOrder
  <2>5. IsFiniteSet(G) /\ Cardinality(G) =< k BY <2>4, FirstCount
  <2>6. Cardinality(G) \in Nat BY <2>5, FS_CardinalityType
  <2>7. ASSUME NEW i \in F PROVE i \in G \cup D
    <3>1. i \in S /\ Rank(S, R, i) < k BY DEF First
    <3>2. CASE i \in S \ D
      <4>1. S \ D \in SUBSET S OBVIOUS
      <4>2. /\ Rank(S \ D, R, i) =< Rank(S, R, i)
            /\ Rank(S, R, i) \in Nat /\ Rank(S \ D, R, i) \in Nat
        BY <4>1, RankWithin
      <4> QED BY <3>1, <3>2, <4>2 DEF First
    <3> QED BY <3>1, <3>2
  <2>8. X \cap F = {} OBVIOUS
  <2>9. X \cup F \in SUBSET (G \cup D) BY <2>7
  <2>10. G \cap D = {} BY DEF First
  <2> HIDE DEF X, F, G
  <2>11. Cardinality(X \cup F) = Cardinality(X) + Cardinality(F)
    BY <1>1, <2>3, <2>8, DisjointUnion
  <2>12. Cardinality(G \cup D) = Cardinality(G) + Cardinality(D)
    BY <1>1, <2>5, <2>10, DisjointUnion
  <2>13. IsFiniteSet(G \cup D) BY <1>1, <2>5, FS_Union
  <2>14. Cardinality(X \cup F) =< Cardinality(G \cup D) BY <2>9, <2>13, FS_Subset
  <2>15. Cardinality(X) =< Cardinality(D)
    BY <1>2, <2>3, <2>5, <2>6, <2>11, <2>12, <2>14
  <2> QED BY <1>1, <2>15 DEF X, F, G
<1> QED BY <1>3, <1>4

(* Those of some that a reader at place k no longer meets.                 *)
Behind(W, S, R, k) == {i \in W : i \notin S \/ i \in First(S, R, k)}

(* Whatever else comes and goes, no more fall behind than were removed.    *)
LEMMA BehindByRemoval ==
  ASSUME NEW W, IsFiniteSet(W), NEW S, IsFiniteSet(S), NEW T, IsFiniteSet(T),
         NEW R, StrictOrder(R, S), NEW k \in Nat
  PROVE  /\ IsFiniteSet(Behind(W, S, R, k)) /\ IsFiniteSet(Behind(W, T, R, k))
         /\ Cardinality(Behind(W, T, R, k)) =<
              Cardinality(Behind(W, S, R, k)) + Cardinality(S \ T)
<1> DEFINE D == S \ T
           X == {i \in S \ First(S, R, k) : i \in D \/ i \in First(S \ D, R, k)}
           A == Behind(W, S, R, k)
           B == Behind(W, T, R, k)
<1>1. IsFiniteSet(A) /\ IsFiniteSet(B) BY FS_Subset DEF Behind
<1>2. D \in SUBSET S OBVIOUS
<1>3. IsFiniteSet(X) /\ Cardinality(X) =< Cardinality(D) BY <1>2, RemovalBrings
<1>4. IsFiniteSet(D) BY FS_Subset
<1>5. ASSUME NEW i \in B PROVE i \in A \cup X
  <2>1. i \in W BY DEF Behind
  <2>2. CASE i \notin S BY <2>1, <2>2 DEF Behind
  <2>3. CASE i \in S /\ i \in First(S, R, k) BY <2>1, <2>3 DEF Behind
  <2>4. CASE i \in S /\ i \notin First(S, R, k) /\ i \notin T BY <2>4
  <2>5. CASE i \in S /\ i \notin First(S, R, k) /\ i \in T
    <3>1. i \in First(T, R, k) BY <2>5 DEF Behind
    <3>2. S \ D \in SUBSET T OBVIOUS
    <3>3. /\ Rank(S \ D, R, i) =< Rank(T, R, i)
          /\ Rank(T, R, i) \in Nat /\ Rank(S \ D, R, i) \in Nat
      BY <3>2, RankWithin
    <3>4. i \in First(S \ D, R, k) BY <2>5, <3>1, <3>3 DEF First
    <3> QED BY <2>5, <3>4
  <2> QED BY <2>2, <2>3, <2>4, <2>5
<1>6. B \in SUBSET (A \cup X) BY <1>5
<1> HIDE DEF A, B, X, D
<1>7. IsFiniteSet(A \cup X) BY <1>1, <1>3, FS_Union
<1>8. Cardinality(B) =< Cardinality(A \cup X) BY <1>6, <1>7, FS_Subset
<1>9. Cardinality(A \cup X) = Cardinality(A) + Cardinality(X) - Cardinality(A \cap X)
  BY <1>1, <1>3, FS_Union
<1>10. IsFiniteSet(A \cap X) BY <1>1, FS_Subset
<1>11. /\ Cardinality(A) \in Nat /\ Cardinality(B) \in Nat /\ Cardinality(X) \in Nat
       /\ Cardinality(A \cap X) \in Nat /\ Cardinality(D) \in Nat
       /\ Cardinality(A \cup X) \in Nat
  BY <1>1, <1>3, <1>4, <1>7, <1>10, FS_CardinalityType
<1>12. Cardinality(B) =< Cardinality(A) + Cardinality(D) BY <1>3, <1>8, <1>9, <1>11
<1> QED BY <1>1, <1>12 DEF A, B, D

(* A reader who moves back by what it removes itself leaves none behind.   *)
LEMMA BehindStays ==
  ASSUME NEW W, NEW S, IsFiniteSet(S), NEW T, IsFiniteSet(T), NEW R,
         NEW k \in Nat, NEW l \in Nat,
         W \cap S \subseteq T, l + Cardinality(S \ T) =< k
  PROVE  Behind(W, T, R, l) \subseteq Behind(W, S, R, k)
<1> SUFFICES ASSUME NEW i \in Behind(W, T, R, l), i \in S
             PROVE  i \in Behind(W, S, R, k)
  BY DEF Behind
<1>1. i \in W /\ i \in T BY DEF Behind
<1>2. i \in First(T, R, l) BY <1>1 DEF Behind
<1> DEFINE C == S \cap T
<1>3. C \in SUBSET S /\ C \in SUBSET T /\ S \ C = S \ T OBVIOUS
<1> HIDE DEF C
<1>4. /\ Rank(C, R, i) =< Rank(T, R, i) /\ Rank(C, R, i) \in Nat /\ Rank(T, R, i) \in Nat
  BY <1>3, RankWithin
<1>5. /\ Rank(S, R, i) =< Rank(C, R, i) + Cardinality(S \ T) /\ Rank(S, R, i) \in Nat
  BY <1>3, RankWithin
<1>6. Cardinality(S \ T) \in Nat BY FS_Subset, FS_CardinalityType
<1>7. Rank(T, R, i) < l BY <1>2 DEF First
<1>8. Rank(S, R, i) < k BY <1>4, <1>5, <1>6, <1>7
<1> QED BY <1>1, <1>8 DEF Behind, First

-----------------------------------------------------------------------------
(* Rows in an order, and the pages of them.                                *)

Keyed(rows) == IsFiniteSet(rows) /\ \A q, r \in rows : q.id = r.id => q = r

(* The rows in the order of their ids. *)
Lists(seq, rows, R) ==
  /\ seq \in [1..Cardinality(rows) -> rows]
  /\ \A n \in 1..Cardinality(rows) : Rank(Ids(rows), R, seq[n].id) = n - 1

LEMMA KeyedIds ==
  ASSUME NEW rows, Keyed(rows)
  PROVE  IsFiniteSet(Ids(rows)) /\ Cardinality(Ids(rows)) = Cardinality(rows)
<1> DEFINE f == [r \in rows |-> r.id]
<1>1. f \in Bijection(rows, Ids(rows))
  BY DEF Keyed, Ids, Bijection, Injection, Surjection, IsInjective
<1>2. ExistsBijection(rows, Ids(rows)) BY <1>1 DEF ExistsBijection
<1> QED BY <1>2, FS_Bijection DEF Keyed

LEMMA RankOfRow ==
  ASSUME NEW rows, Keyed(rows), NEW R, NEW r \in rows
  PROVE  Cardinality({q \in rows : <<q.id, r.id>> \in R}) = Rank(Ids(rows), R, r.id)
<1> DEFINE Q == {q \in rows : <<q.id, r.id>> \in R}
<1>1. Q \in SUBSET rows OBVIOUS
<1>2. Keyed(Q) BY <1>1, FS_Subset DEF Keyed
<1>3. Ids(Q) = Sooner(Ids(rows), R, r.id) BY DEF Ids, Sooner
<1> HIDE DEF Q
<1>4. Cardinality(Ids(Q)) = Cardinality(Q) BY <1>2, KeyedIds
<1> QED BY <1>3, <1>4 DEF Rank, Q

(* A choice of the row in each place lists the rows.                       *)
LEMMA ChoiceLists ==
  ASSUME NEW rows, Keyed(rows), NEW R, StrictOrder(R, Ids(rows)), NEW seq,
         seq = [n \in 1..Cardinality(rows) |-> seq[n]],
         \A n \in 1..Cardinality(rows) :
           (\E r \in rows : Cardinality({q \in rows : <<q.id, r.id>> \in R}) = n - 1) =>
             /\ seq[n] \in rows
             /\ Cardinality({q \in rows : <<q.id, seq[n].id>> \in R}) = n - 1
  PROVE  Lists(seq, rows, R)
<1> DEFINE N == Cardinality(rows)
<1>1. N \in Nat BY FS_CardinalityType DEF Keyed
<1>2. ASSUME NEW n \in 1..N
      PROVE  seq[n] \in rows /\ Rank(Ids(rows), R, seq[n].id) = n - 1
  <2>1. n - 1 \in 0..(Cardinality(Ids(rows)) - 1) BY <1>1, KeyedIds
  <2>2. PICK i \in Ids(rows) : Rank(Ids(rows), R, i) = n - 1
    BY <2>1, KeyedIds, RankIsExact
  <2>3. PICK r \in rows : r.id = i BY DEF Ids
  <2>4. Cardinality({q \in rows : <<q.id, r.id>> \in R}) = n - 1
    BY <2>2, <2>3, RankOfRow
  <2>5. /\ seq[n] \in rows
        /\ Cardinality({q \in rows : <<q.id, seq[n].id>> \in R}) = n - 1
    BY <2>4
  <2> QED BY <2>5, RankOfRow
<1> HIDE DEF N
<1>3. seq \in [1..N -> rows] BY <1>2 DEF N
<1> QED BY <1>2, <1>3 DEF Lists, N

(* A slice of a sequence. *)
LEMMA SliceIs ==
  ASSUME NEW S, NEW R, NEW seq, Lists(seq, S, R), NEW N \in Nat, N = Cardinality(S),
         NEW o \in Nat, NEW l \in Nat, NEW page, page = Slice(seq, o, l)
  PROVE  /\ Len(page) = (IF o + l < N THEN l ELSE IF o < N THEN N - o ELSE 0)
         /\ DOMAIN page = 1..Len(page)
         /\ \A n \in 1..Len(page) : page[n] = seq[o + n]
         /\ page = <<>> <=> N =< o \/ l = 0
<1> DEFINE top == IF o + l < N THEN o + l ELSE N
<1>0. seq \in [1..N -> S] BY DEF Lists
<1>1. seq \in Seq(S) /\ Len(seq) = N
  <2>1. seq \in Seq(S) BY <1>0, SeqDef
  <2> QED BY <1>0, <2>1, LenProperties
<1>2. page = SubSeq(seq, o + 1, top) BY <1>1 DEF Slice
<1>3. \A n \in (o + 1)..top : seq[n] \in S
  <2>1. \A n \in (o + 1)..top : n \in 1..N OBVIOUS
  <2> QED BY <1>0, <2>1
<1>4. o + 1 \in Int /\ top \in Int OBVIOUS
<1> DEFINE m == o + 1
           t == top
<1> HIDE DEF m, t, top
<1>5. /\ SubSeq(seq, m, t) \in Seq(S)
      /\ Len(SubSeq(seq, m, t)) = (IF m <= t THEN t - m + 1 ELSE 0)
      /\ \A n \in 1..(t - m + 1) : SubSeq(seq, m, t)[n] = seq[m + n - 1]
  <2>1. m \in Int /\ t \in Int /\ \A n \in m..t : seq[n] \in S
    BY <1>3, <1>4 DEF m, t
  <2> QED BY <2>1, SubSeqProperties
<1>6. /\ page \in Seq(S)
      /\ Len(page) = (IF o < top THEN top - o ELSE 0)
      /\ \A n \in 1..(top - o) : page[n] = seq[o + n]
  <2>1. page = SubSeq(seq, m, t) BY <1>2 DEF m, t
  <2>2. Len(page) = (IF o < top THEN top - o ELSE 0) BY <1>4, <1>5, <2>1 DEF m, t
  <2>3. ASSUME NEW n \in 1..(top - o) PROVE page[n] = seq[o + n]
    <3>1. n \in 1..(t - m + 1) BY <1>4 DEF m, t
    <3>2. page[n] = seq[m + n - 1] BY <1>5, <2>1, <3>1
    <3>3. m + n - 1 = o + n BY DEF m
    <3> QED BY <3>2, <3>3
  <2> QED BY <1>5, <2>1, <2>2, <2>3
<1>7. DOMAIN page = 1..Len(page) BY <1>6, LenProperties
<1>8. page = <<>> <=> Len(page) = 0 BY <1>6, EmptySeq
<1>9. Len(page) = 0 <=> (N =< o \/ l = 0)
  BY <1>6, <1>4 DEF top
<1>10. \A n \in 1..Len(page) : page[n] = seq[o + n]
  <2>1. \A n \in 1..Len(page) : n \in 1..(top - o) BY <1>4, <1>6
  <2> QED BY <1>6, <2>1
<1>11. Len(page) = (IF o + l < N THEN l ELSE IF o < N THEN N - o ELSE 0)
  BY <1>6 DEF top
<1> QED BY <1>7, <1>8, <1>9, <1>10, <1>11

(* The members from one place up to another. *)
Placed(S, R, from, to) == {i \in S : from =< Rank(S, R, i) /\ Rank(S, R, i) < to}

(* A page holds the rows whose rank is from its offset up to its end.      *)
LEMMA PageOf ==
  ASSUME NEW rows, Keyed(rows), NEW R, StrictOrder(R, Ids(rows)),
         NEW seq, Lists(seq, rows, R), NEW o \in Nat, NEW l \in Nat,
         NEW page, page = Slice(seq, o, l),
         NEW given, given = Placed(Ids(rows), R, o, o + l)
  PROVE
         /\ RangeOf(IdsOf(page)) = given
         /\ RangeOf(page) = {r \in rows : r.id \in given}
         /\ Len(page) \in Nat /\ Len(page) =< l
         /\ Len(page) = Cardinality(given) /\ IsFiniteSet(given)
         /\ Len(page) < l => Cardinality(rows) =< o + Len(page)
         /\ page = <<>> => Cardinality(rows) =< o \/ l = 0
         /\ \A i \in given : Rank(Ids(rows), R, i) < o + Len(page)
<1> DEFINE N == Cardinality(rows)
           rk(i) == Rank(Ids(rows), R, i)
<1>1. N \in Nat /\ IsFiniteSet(Ids(rows)) /\ Cardinality(Ids(rows)) = N
  BY KeyedIds, FS_CardinalityType DEF Keyed
<1>2. seq \in [1..N -> rows] /\ \A n \in 1..N : rk(seq[n].id) = n - 1 BY DEF Lists
<1> HIDE DEF N
<1>3. /\ Len(page) = (IF o + l < N THEN l ELSE IF o < N THEN N - o ELSE 0)
      /\ DOMAIN page = 1..Len(page)
      /\ \A n \in 1..Len(page) : page[n] = seq[o + n]
      /\ page = <<>> <=> N =< o \/ l = 0
  <2>1. N \in Nat BY <1>1
  <2>2. N = Cardinality(rows) BY DEF N
  <2>3. page = Slice(seq, o, l) OBVIOUS
  <2> QED BY <2>1, <2>2, <2>3, SliceIs
<1>4. \A i \in Ids(rows) : rk(i) \in 0..(N - 1) BY <1>1, RankGrows
<1>0. given = {i \in Ids(rows) : o =< rk(i) /\ rk(i) < o + l} BY DEF Placed
<1> HIDE DEF rk, N
<1>5. ASSUME NEW n \in 1..Len(page)
      PROVE  o + n \in 1..N /\ page[n] \in rows /\ page[n].id \in given
  <2>1. o + n \in 1..N /\ n =< l BY <1>1, <1>3
  <2>2. page[n] = seq[o + n] /\ seq[o + n] \in rows /\ rk(seq[o + n].id) = (o + n) - 1
    BY <1>2, <1>3, <2>1
  <2>3. page[n].id \in Ids(rows) BY <2>2 DEF Ids
  <2> QED BY <1>0, <2>1, <2>2, <2>3
<1>6. ASSUME NEW r \in rows, r.id \in given
      PROVE  \E n \in 1..Len(page) : page[n] = r
  <2>1. rk(r.id) \in 0..(N - 1) /\ o =< rk(r.id) /\ rk(r.id) < o + l BY <1>0, <1>4, <1>6
  <2> DEFINE n == rk(r.id) - o + 1
  <2>2. n \in 1..Len(page) /\ o + n \in 1..N /\ o + n - 1 = rk(r.id)
    BY <1>1, <1>3, <2>1
  <2>3. rk(seq[o + n].id) = rk(r.id) /\ seq[o + n] \in rows BY <1>2, <2>2
  <2>4. r.id \in Ids(rows) /\ seq[o + n].id \in Ids(rows) BY <2>3 DEF Ids
  <2>5. seq[o + n].id = r.id BY <1>1, <2>3, <2>4, RankIsExact DEF rk
  <2>6. seq[o + n] = r BY <2>3, <2>5 DEF Keyed
  <2> QED BY <1>3, <2>2, <2>6
<1>7. RangeOf(page) = {r \in rows : r.id \in given}
  <2>1. RangeOf(page) = {page[n] : n \in 1..Len(page)} BY <1>3 DEF RangeOf
  <2> QED BY <1>5, <1>6, <2>1
<1>8. RangeOf(IdsOf(page)) = given
  <2>1. RangeOf(IdsOf(page)) = {page[n].id : n \in 1..Len(page)}
    BY <1>3 DEF RangeOf, IdsOf
  <2>2. \A i \in given : \E r \in rows : r.id = i BY <1>0 DEF Ids
  <2> QED BY <1>5, <1>6, <2>1, <2>2
<1>9. Len(page) \in Nat /\ Len(page) =< l /\ (Len(page) < l => N =< o + Len(page))
  BY <1>1, <1>3
<1>10. IsFiniteSet(given) /\ Len(page) = Cardinality(given)
  <2> DEFINE f == [n \in 1..Len(page) |-> page[n].id]
  <2>1. \A i \in given : \E n \in 1..Len(page) : f[n] = i
    <3>1. \A i \in given : \E r \in rows : r.id = i BY <1>0 DEF Ids
    <3> QED BY <1>6, <3>1
  <2>2. \A m, n \in 1..Len(page) : f[m] = f[n] => m = n
    <3>1. \A n \in 1..Len(page) : rk(f[n]) = o + n - 1 /\ n \in Int
      BY <1>2, <1>3, <1>5
    <3> QED BY <3>1
  <2>3. \A n \in 1..Len(page) : f[n] \in given BY <1>5
  <2>4. f \in Bijection(1..Len(page), given)
    BY <2>1, <2>2, <2>3, ZenonT(40) DEF Bijection, Injection, Surjection, IsInjective
  <2>5. IsFiniteSet(1..Len(page)) /\ Cardinality(1..Len(page)) = Len(page)
    <3>1. 1 \in Int /\ Len(page) \in Int BY <1>9
    <3>2. /\ IsFiniteSet(1..Len(page))
          /\ Cardinality(1..Len(page)) = IF 1 > Len(page) THEN 0 ELSE Len(page) - 1 + 1
      BY <3>1, FS_Interval
    <3> QED BY <3>2, <1>9
  <2>6. ExistsBijection(1..Len(page), given) BY <2>4 DEF ExistsBijection
  <2> HIDE DEF f
  <2> QED BY <2>5, <2>6, FS_Bijection
<1>11. ASSUME NEW i \in given PROVE rk(i) < o + Len(page)
  <2>1. PICK r \in rows : r.id = i BY <1>0 DEF Ids
  <2>2. PICK n \in 1..Len(page) : page[n] = r BY <1>6, <2>1
  <2>3. rk(i) = o + n - 1 BY <1>2, <1>3, <1>5, <2>1, <2>2
  <2> QED BY <1>9, <2>3
<1> QED BY <1>3, <1>7, <1>8, <1>9, <1>10, <1>11 DEF rk, N

(* When the memory of an id was created, which goes with the id.           *)
Created(i) ==
  IF i \in Ids(Brought) THEN (CHOOSE w \in Brought : w.id = i).meta.created ELSE 0

Dated(rows) == \A r \in rows : r.meta.created = Created(r.id)

LEMMA BroughtIsDated == Dated(Brought)
<1> SUFFICES ASSUME NEW r \in Brought PROVE r.meta.created = Created(r.id)
  BY DEF Dated
<1>1. r.id \in Ids(Brought) BY DEF Ids
<1>2. PICK w : w = CHOOSE x \in Brought : x.id = r.id OBVIOUS
<1>3. w \in Brought /\ w.id = r.id BY <1>2
<1>4. w.meta.created = r.meta.created BY <1>3, PagingAssumption
<1> QED BY <1>1, <1>2, <1>4 DEF Created

LEMMA CreatedIsNat == \A i : Created(i) \in Nat
<1> SUFFICES ASSUME NEW i, i \in Ids(Brought) PROVE Created(i) \in Nat
  BY DEF Created
<1>1. PICK r \in Brought : r.id = i BY DEF Ids
<1>2. r.meta \in Metas
  <2>1. r \in ItemRow \/ r \in ItemWrite \/ r \in ExportItem
    <3>1. ASSUME NEW t \in Transactions, r \in t.upsert PROVE r \in ItemWrite
      <4>1. t.upsert \in AtMostOne(ItemWrite) BY StoreAssumption DEF WriteTransaction
      <4> QED BY <3>1, <4>1 DEF AtMostOne
    <3>2. ASSUME NEW st \in Streams, r \in st.items PROVE r \in ExportItem
      <4>1. st.items \in SUBSET ExportItem BY StoreAssumption DEF ImportStream
      <4> QED BY <3>2, <4>1
    <3>3. r \in Stored \/ (\E t \in Transactions : r \in t.upsert)
            \/ (\E st \in Streams : r \in st.items)
      BY DEF Brought
    <3> QED BY <3>1, <3>2, <3>3, PagingAssumption
  <2> QED BY <2>1 DEF ItemRow, ItemWrite, ExportItem
<1>3. r.meta.created \in Nat BY <1>2, ReadsAssumption
<1> QED BY <1>1, <1>3, BroughtIsDated DEF Dated

(* ORDER BY created_at ASC, id ASC, as an order of ids.                    *)
ItemOrder ==
  {p \in ItemIds \X ItemIds :
     \/ Created(p[1]) < Created(p[2])
     \/ Created(p[1]) = Created(p[2]) /\ p[1] < p[2]}

LEMMA ItemOrderIsStrict ==
  ASSUME NEW S \in SUBSET ItemIds
  PROVE  StrictOrder(ItemOrder, S)
<1>1. \A i, j \in S : <<i, j>> \in ItemOrder <=>
                        \/ Created(i) < Created(j)
                        \/ Created(i) = Created(j) /\ i < j
  BY DEF ItemOrder
<1>2. \A i \in S : i \in Nat /\ Created(i) \in Nat
  BY CreatedIsNat, ReadsAssumption
<1> QED BY <1>1, <1>2 DEF StrictOrder

LEMMA OrderedItems ==
  ASSUME NEW rows \in SUBSET ItemRow, Keyed(rows), Dated(rows)
  PROVE  Lists(Ordered(rows, ListedBefore), rows, ItemOrder)
<1> DEFINE seq == Ordered(rows, ListedBefore)
           N == Cardinality(rows)
<1>1. seq = [n \in 1..N |->
               CHOOSE r \in rows : Cardinality({q \in rows : ListedBefore(q, r)}) = n - 1]
  BY DEF Ordered
<1>2. ASSUME NEW r \in rows
      PROVE  {q \in rows : ListedBefore(q, r)} = {q \in rows : <<q.id, r.id>> \in ItemOrder}
  <2>1. \A q \in rows : q.id \in ItemIds /\ q.meta.created = Created(q.id)
    BY DEF ItemRow, Dated
  <2> QED BY <2>1 DEF ListedBefore, ItemOrder
<1>3. ASSUME NEW n \in 1..N,
             \E r \in rows : Cardinality({q \in rows : <<q.id, r.id>> \in ItemOrder}) = n - 1
      PROVE  /\ seq[n] \in rows
             /\ Cardinality({q \in rows : <<q.id, seq[n].id>> \in ItemOrder}) = n - 1
  <2>1. \E r \in rows : Cardinality({q \in rows : ListedBefore(q, r)}) = n - 1
    BY <1>2, <1>3
  <2>2. seq[n] = CHOOSE r \in rows : Cardinality({q \in rows : ListedBefore(q, r)}) = n - 1
    BY <1>1
  <2>3. seq[n] \in rows /\ Cardinality({q \in rows : ListedBefore(q, seq[n])}) = n - 1
    BY <2>1, <2>2, Zenon
  <2> QED BY <1>2, <2>3
<1>4. seq = [n \in 1..N |-> seq[n]] BY <1>1
<1>5. Ids(rows) \in SUBSET ItemIds BY DEF Ids, ItemRow
<1>6. StrictOrder(ItemOrder, Ids(rows)) BY <1>5, ItemOrderIsStrict
<1> HIDE DEF seq
<1>7. Lists(seq, rows, ItemOrder) BY <1>3, <1>4, <1>6, ChoiceLists
<1> QED BY <1>7 DEF seq

(* ORDER BY id DESC *)
Newest == {p \in Int \X Int : p[1] > p[2]}

LEMMA NewestIsStrict ==
  ASSUME NEW S \in SUBSET Int
  PROVE  StrictOrder(Newest, S)
BY DEF StrictOrder, Newest

LEMMA OrderedAudit ==
  ASSUME NEW rows, Keyed(rows), Ids(rows) \in SUBSET Int,
         NEW seq,
         seq = [n \in 1..Cardinality(rows) |->
                  CHOOSE r \in rows : Cardinality({q \in rows : q.id > r.id}) = n - 1]
  PROVE  Lists(seq, rows, Newest)
<1> DEFINE N == Cardinality(rows)
<1>2. ASSUME NEW r \in rows
      PROVE  {q \in rows : q.id > r.id} = {q \in rows : <<q.id, r.id>> \in Newest}
  BY DEF Newest, Ids
<1>3. ASSUME NEW n \in 1..N,
             \E r \in rows : Cardinality({q \in rows : <<q.id, r.id>> \in Newest}) = n - 1
      PROVE  /\ seq[n] \in rows
             /\ Cardinality({q \in rows : <<q.id, seq[n].id>> \in Newest}) = n - 1
  <2>1. \E r \in rows : Cardinality({q \in rows : q.id > r.id}) = n - 1
    BY <1>2, <1>3
  <2>2. seq[n] = CHOOSE r \in rows : Cardinality({q \in rows : q.id > r.id}) = n - 1
    OBVIOUS
  <2>3. seq[n] \in rows /\ Cardinality({q \in rows : q.id > seq[n].id}) = n - 1
    BY <2>1, <2>2, Zenon
  <2> QED BY <1>2, <2>3
<1>4. seq = [n \in 1..N |-> seq[n]]
  <2> DEFINE c(n) == CHOOSE r \in rows : Cardinality({q \in rows : q.id > r.id}) = n - 1
  <2>1. seq = [n \in 1..N |-> c(n)] OBVIOUS
  <2> HIDE DEF c, N
  <2>2. \A n \in 1..N : seq[n] = c(n) BY <2>1
  <2>3. [n \in 1..N |-> seq[n]] = [n \in 1..N |-> c(n)] BY <2>2
  <2> QED BY <2>1, <2>3
<1>6. StrictOrder(Newest, Ids(rows)) BY NewestIsStrict
<1> QED BY <1>3, <1>4, <1>6, ChoiceLists

-----------------------------------------------------------------------------
(* The tables, and the dates of their rows, through every operation.       *)

LEMMA PagingInitIInv == PagingInit => IInv
<1> SUFFICES ASSUME PagingInit PROVE IInv
  OBVIOUS
<1>1. /\ items = Stored /\ audit = Logged /\ idempotency = {} /\ minted = Cardinality(Logged)
      /\ vectors = {[id |-> r.id, scope |-> r.scope, of |-> r.body] : r \in {q \in Stored : ~q.pending}}
      /\ capacity = [s \in Scopes |->
           [budget |-> Unbounded, items |-> Cardinality(InScope(Stored, s)),
            bytes |-> TotalCharge(InScope(Stored, s))]]
      /\ aggregates = [k \in AggregateKeys |-> Cardinality({a \in Logged : KeyOf(a) = k})]
  BY DEF PagingInit
<1>2. /\ Stored \subseteq ItemRow /\ Logged \subseteq AuditRow /\ IsFiniteSet(Logged)
      /\ \A q, r \in Stored : q.id = r.id => q = r
      /\ \A a, b \in Logged : a.id = b.id => a = b
      /\ \A a \in Logged : a.id =< Cardinality(Logged)
  BY PagingAssumption
<1>3. Cardinality(Logged) \in Nat BY <1>2, FS_CardinalityType
<1>4. \A k : Cardinality({a \in Logged : KeyOf(a) = k}) \in Nat
  BY <1>2, FS_Subset, FS_CardinalityType
<1>5. ASSUME NEW s \in Scopes
      PROVE  /\ Cardinality(InScope(Stored, s)) \in Nat
             /\ TotalCharge(InScope(Stored, s)) \in Nat
             /\ Cardinality(Ids(InScope(Stored, s))) = Cardinality(InScope(Stored, s))
  <2>1. WellKeyed(InScope(Stored, s)) BY <1>2 DEF WellKeyed, InScope, ItemRow
  <2>2. IsFiniteSet(InScope(Stored, s)) BY <2>1, RowsFinite
  <2>3. Keyed(InScope(Stored, s)) BY <2>1, <2>2 DEF Keyed, WellKeyed
  <2> QED BY <2>1, <2>2, <2>3, KeyedIds, UnitsFinite, FS_CardinalityType
<1>6. TypeOK
  <2>1. items \subseteq ItemRow /\ audit \subseteq AuditRow /\ idempotency \subseteq IdempotencyRow
        /\ minted \in Nat
    BY <1>1, <1>2, <1>3
  <2>2. vectors \subseteq VectorRow BY <1>1, <1>2 DEF VectorRow, ItemRow
  <2>3. capacity \in [Scopes -> CapacityRow]
    BY <1>1, <1>5, StoreAssumption DEF CapacityRow
  <2>4. aggregates \in [AggregateKeys -> Nat] BY <1>1, <1>4
  <2> QED BY <2>1, <2>2, <2>3, <2>4 DEF TypeOK
<1>7. PrimaryKeys
  <2>1. \A u, v \in vectors : u.id = v.id => u = v BY <1>1, <1>2
  <2> QED BY <1>1, <1>2, <2>1 DEF PrimaryKeys
<1>8. VectorsFollowItems
  <2> DEFINE own(r) == [id |-> r.id, scope |-> r.scope, of |-> r.body]
  <2>1. ASSUME NEW r \in items, ~r.pending PROVE FoundFor(vectors, r) = Exact(r)
    <3>1. own(r) \in vectors /\ own(r).id = r.id /\ own(r).of = r.body BY <1>1, <2>1
    <3>2. \A v \in vectors : v.id = r.id => v.of = r.body
      BY <1>1, <1>7, <2>1 DEF PrimaryKeys
    <3> QED BY <2>1, <3>1, <3>2, OneFound DEF Exact
  <2>2. ASSUME NEW r \in items, r.pending PROVE FoundFor(vectors, r) = Exact(r)
    BY <1>1, <1>7, <2>2 DEF FoundFor, Exact, PrimaryKeys
  <2>3. \A v \in vectors : \E r \in items : r.id = v.id /\ r.scope = v.scope BY <1>1
  <2>4. \A r \in items : FoundFor(vectors, r) = Exact(r) BY <1>1, <2>1, <2>2
  <2> QED BY <2>3, <2>4 DEF VectorsFollowItems
<1>9. ItemsCounted /\ BytesCounted
  BY <1>1, <1>5 DEF ItemsCounted, BytesCounted
<1>10. ReplaysAreAudited /\ AggregatesCoverAudit /\ AuditIdsMinted /\ IsFiniteSet(audit)
  <2>1. ReplaysAreAudited BY <1>1 DEF ReplaysAreAudited
  <2>2. AuditIdsMinted /\ IsFiniteSet(audit) BY <1>1, <1>2 DEF AuditIdsMinted
  <2>3. ASSUME NEW k \in AggregateKeys
        PROVE  Cardinality({a \in audit : KeyOf(a) = k}) =< aggregates[k]
    <3>1. aggregates[k] = Cardinality({a \in Logged : KeyOf(a) = k}) BY <1>1
    <3>2. {a \in audit : KeyOf(a) = k} = {a \in Logged : KeyOf(a) = k} BY <1>1
    <3>3. aggregates[k] \in Nat BY <1>4, <3>1
    <3> QED BY <3>1, <3>2, <3>3
  <2> QED BY <2>1, <2>2, <2>3 DEF AggregatesCoverAudit
<1> QED BY <1>6, <1>7, <1>8, <1>9, <1>10 DEF IInv

(* The ids of the rows of a scope. *)
There(s) == Ids(InScope(items, s))

LEMMA RowsOfScope ==
  ASSUME IInv, NEW s
  PROVE  /\ InScope(items, s) \in SUBSET ItemRow /\ Keyed(InScope(items, s))
         /\ There(s) \in SUBSET ItemIds /\ IsFiniteSet(There(s))
<1>1. TypeOK /\ PrimaryKeys BY DEF IInv
<1>2. InScope(items, s) \in SUBSET items BY DEF InScope
<1>3. WellKeyed(InScope(items, s)) BY <1>1, <1>2, ItemsWellKeyed
<1>4. IsFiniteSet(InScope(items, s)) BY <1>3, RowsFinite
<1>5. Keyed(InScope(items, s)) BY <1>3, <1>4 DEF Keyed, WellKeyed
<1>6. InScope(items, s) \in SUBSET ItemRow BY <1>1, <1>2 DEF TypeOK
<1>7. There(s) \in SUBSET ItemIds BY <1>6 DEF There, Ids, ItemRow
<1>8. IsFiniteSet(There(s)) BY <1>7, FS_Subset, StoreAssumption
<1> QED BY <1>5, <1>6, <1>7, <1>8

(* A transaction removes what it evicts and adds what it inserts; a row    *)
(* merged keeps its id and its date.                                       *)
LEMMA ThereAfter ==
  ASSUME IInv, NEW t \in SoundTransactions, Commits(t), NEW id, ApplyCommit(t, id)
  PROVE  There(t.scope)' = (There(t.scope) \ t.evictions) \cup Ids(t.upsert)
<1> DEFINE s == t.scope
<1>1. TypeOK /\ PrimaryKeys BY DEF IInv
<1>2. /\ InScope(Inserted(t), s) = Inserted(t) /\ Ids(Inserted(t)) = Ids(t.upsert)
      /\ InScope(Merged(t), s) = Merged(t) /\ Ids(Merged(t)) = Ids(Targets(t))
  BY <1>1, InsertedShape, MergedShape
<1>3. items' = ((Kept(t) \ Targets(t)) \cup Inserted(t)) \cup Merged(t)
  BY DEF ApplyCommit
<1>4. InScope(items', s)
        = (InScope(Kept(t) \ Targets(t), s) \cup Inserted(t)) \cup Merged(t)
  BY <1>2, <1>3 DEF InScope
<1>5. Ids(InScope(items', s))
        = (Ids(InScope(Kept(t) \ Targets(t), s)) \cup Ids(t.upsert)) \cup Ids(Targets(t))
  <2>1. \A A, B : Ids(A \cup B) = Ids(A) \cup Ids(B) BY DEF Ids
  <2> DEFINE X == InScope(Kept(t) \ Targets(t), s)
  <2>2. Ids((X \cup Inserted(t)) \cup Merged(t)) = (Ids(X) \cup Ids(Inserted(t))) \cup Ids(Merged(t))
    <3> HIDE DEF X
    <3>1. Ids((X \cup Inserted(t)) \cup Merged(t)) = Ids(X \cup Inserted(t)) \cup Ids(Merged(t))
      BY <2>1, Zenon
    <3>2. Ids(X \cup Inserted(t)) = Ids(X) \cup Ids(Inserted(t)) BY <2>1, Zenon
    <3> QED BY <3>1, <3>2
  <2> QED BY <1>2, <1>4, <2>2
<1>6. Ids(InScope(Kept(t) \ Targets(t), s)) \cup Ids(Targets(t)) = Ids(InScope(Kept(t), s))
  BY DEF Ids, InScope, Targets
<1>7. Ids(InScope(Kept(t), s)) = Ids(InScope(items, s)) \ t.evictions
  BY DEF Ids, InScope, Kept, Victims
<1> QED BY <1>5, <1>6, <1>7 DEF There

LEMMA ApplyKeepsDates ==
  ASSUME IInv, Dated(items), NEW t \in SoundTransactions, Dated(t.upsert),
         NEW id, Apply(t, id)
  PROVE  Dated(items')
<1>1. CASE ~Commits(t)
  BY <1>1 DEF Apply, tables, Dated
<1>2. CASE Commits(t)
  <2>1. items' = ((Kept(t) \ Targets(t)) \cup Inserted(t)) \cup Merged(t)
    BY <1>2 DEF Apply, ApplyCommit
  <2>2. Kept(t) \subseteq items /\ Targets(t) \subseteq items
    BY DEF Kept, Targets, InScope
  <2>3. Dated(Inserted(t))
    BY DEF Dated, Inserted
  <2>4. Dated(Merged(t))
    <3> SUFFICES ASSUME NEW q \in Merged(t) PROVE q.meta.created = Created(q.id)
      BY DEF Dated
    <3>1. PICK r \in Targets(t) : q \in {MergedRow(r, m) : m \in t.merge}
      BY DEF Merged
    <3>2. PICK m \in t.merge : q = MergedRow(r, m) BY <3>1
    <3>3. r \in ItemRow BY <2>2 DEF IInv, TypeOK
    <3>4. q.meta = r.meta /\ q.id = r.id BY <3>2, <3>3 DEF MergedRow, ItemRow
    <3> QED BY <2>2, <3>4 DEF Dated
  <2> QED BY <2>1, <2>2, <2>3, <2>4 DEF Dated
<1> QED BY <1>1, <1>2

LEMMA CallersKeepDates ==
  ASSUME IInv, Dated(items), DoApply \/ DoImport \/ DoPurge
  PROVE  Dated(items')
<1>1. CASE DoApply
  <2>1. PICK t \in Transactions : Apply(t, minted + 1) BY <1>1 DEF DoApply
  <2>2. t.upsert \subseteq Brought BY DEF Brought
  <2>3. Dated(t.upsert) BY <2>2, BroughtIsDated DEF Dated
  <2> QED BY <2>1, <2>3, ApplyKeepsDates, CallersAreSound
<1>2. CASE DoImport
  <2>1. PICK st \in Streams : Import(st) BY <1>2 DEF DoImport
  <2>2. CASE ~ImportCommits(st)
    BY <2>1, <2>2 DEF Import, tables, Dated
  <2>3. CASE ImportCommits(st)
    <3>1. items' = items \cup ImportedRows(st)
      BY <2>1, <2>3 DEF Import, ImportCommit
    <3>2. NewItems(st) \subseteq Brought BY DEF NewItems, Brought
    <3>3. Dated(ImportedRows(st))
      BY <3>2, BroughtIsDated DEF Dated, ImportedRows
    <3> QED BY <3>1, <3>3 DEF Dated
  <2> QED BY <2>2, <2>3
<1>3. CASE DoPurge
  <2>1. PICK p \in Purges : PurgeSubject(SubjectOf(p[1]), p[2], p[1], minted + 1, p[3])
    BY <1>3 DEF DoPurge
  <2>2. items' \subseteq items BY <2>1 DEF PurgeSubject
  <2> QED BY <2>2 DEF Dated
<1> QED BY <1>1, <1>2, <1>3

-----------------------------------------------------------------------------
(* A page of the audit log.                                                *)

(* The probe reads one row more; the page is the probe without it.         *)
LEMMA ProbeCut ==
  ASSUME NEW rows, NEW R, NEW seq, Lists(seq, rows, R), Cardinality(rows) \in Nat,
         NEW l \in Nat
  PROVE  /\ Len(Slice(seq, 0, l + 1)) > l <=> Cardinality(rows) > l
         /\ Slice(Slice(seq, 0, l + 1), 0, l) = Slice(seq, 0, l)
<1> DEFINE N == Cardinality(rows)
           top == IF l + 1 < N THEN l + 1 ELSE N
           t == IF l < N THEN l ELSE N
           probe == Slice(seq, 0, l + 1)
<1>1. seq \in Seq(rows) /\ Len(seq) = N
  <2>1. seq \in [1..N -> rows] BY DEF Lists
  <2>2. seq \in Seq(rows) BY <2>1, SeqDef
  <2> QED BY <2>1, <2>2, LenProperties
<1> HIDE DEF N
<1>0. N \in Nat BY DEF N
<1>2. probe = SubSeq(seq, 1, top)
  BY <1>0, <1>1 DEF Slice
<1>3. Len(probe) = top
  <2> HIDE DEF probe, top
  <2>1. top \in 0..N BY <1>0 DEF top
  <2>2. \A i \in 1..top : seq[i] \in rows
    <3>1. \A i \in 1..top : i \in 1..Len(seq) BY <1>0, <1>1, <2>1
    <3> QED BY <1>1, <3>1, ElementOfSeq
  <2>3. Len(SubSeq(seq, 1, top)) = IF 1 <= top THEN top - 1 + 1 ELSE 0
    <3>1. 1 \in Int /\ top \in Int BY <2>1
    <3> QED BY <2>2, <3>1, SubSeqProperties
  <2> QED BY <1>2, <2>1, <2>3
<1>4. Slice(probe, 0, l) = SubSeq(probe, 1, t)
  <2>1. 0 + 1 = 1 /\ 0 + l = l /\ (IF l < top THEN l ELSE top) = t BY <1>0
  <2> HIDE DEF probe, top, t
  <2>2. Slice(probe, 0, l) = SubSeq(probe, 1, IF l < top THEN l ELSE top)
    BY <1>3 DEF Slice
  <2> QED BY <2>1, <2>2
<1>5. Slice(seq, 0, l) = SubSeq(seq, 1, t)
  BY <1>0, <1>1 DEF Slice
<1>6. CASE t = 0
  <2>1. SubSeq(probe, 1, 0) = <<>> /\ SubSeq(seq, 1, 0) = <<>>
    <3> HIDE DEF probe
    <3> QED BY SubSeqEmpty
  <2> HIDE DEF probe, t
  <2>2. Slice(probe, 0, l) = Slice(seq, 0, l) BY <1>4, <1>5, <1>6, <2>1
  <2>3. Len(probe) > l <=> N > l BY <1>0, <1>3
  <2> QED BY <2>2, <2>3 DEF probe, N
<1>7. CASE t # 0
  <2>1. 1 \in 1..Len(seq) /\ top \in 1..Len(seq) /\ 1 \in 1..(top - 1 + 1)
        /\ t \in 1..(top - 1 + 1) /\ 1 + 1 - 1 = 1 /\ 1 + t - 1 = t
    BY <1>0, <1>1, <1>7
  <2> HIDE DEF t, top
  <2>2. SubSeq(SubSeq(seq, 1, top), 1, t) = SubSeq(seq, 1, t)
    <3>1. SubSeq(SubSeq(seq, 1, top), 1, t) = SubSeq(seq, 1 + 1 - 1, 1 + t - 1)
      BY <1>1, <2>1, SubSeqOfSubSeq
    <3> QED BY <2>1, <3>1
  <2>3. Slice(probe, 0, l) = Slice(seq, 0, l) BY <1>2, <1>4, <1>5, <2>2
  <2>4. Len(probe) > l <=> N > l BY <1>0, <1>3 DEF top
  <2> QED BY <2>3, <2>4 DEF probe, N
<1> QED BY <1>6, <1>7

(* The rows a filter selects, from its cursor on.                          *)
Selected(s, f) == {a \in InScope(audit, s) : AuditMatches(a, f) /\ AuditAfter(a, f)}

LEMMA SelectedRows ==
  ASSUME IInv, NEW s, NEW f
  PROVE  /\ Keyed(Selected(s, f)) /\ Ids(Selected(s, f)) \in SUBSET Int
         /\ Cardinality(Selected(s, f)) \in Nat
         /\ IsFiniteSet(Ids(Selected(s, f)))
         /\ Cardinality(Ids(Selected(s, f))) = Cardinality(Selected(s, f))
<1>1. Selected(s, f) \in SUBSET audit BY DEF Selected, InScope
<1>2. IsFiniteSet(Selected(s, f)) BY <1>1, FS_Subset DEF IInv
<1>3. Keyed(Selected(s, f)) BY <1>1, <1>2 DEF Keyed, IInv, PrimaryKeys
<1>4. Ids(Selected(s, f)) \in SUBSET Int BY <1>1 DEF Ids, IInv, TypeOK, AuditRow
<1> QED BY <1>2, <1>3, <1>4, KeyedIds, FS_CardinalityType

LEMMA ClampedIs ==
  ASSUME NEW n \in Requested
  PROVE  /\ Clamped(n) \in 0..MaxAuditLimit
         /\ Clamped(n) = 0 => n = 0
         /\ SqlLimit(SaturatingAdd(Clamped(n), 1)) = Clamped(n) + 1
<1>1. n \in Nat /\ UsizeMax \in Nat /\ MaxAuditLimit \in Nat /\ MaxAuditLimit >= 1
      /\ MaxAuditLimit =< (UsizeMax \div 2) - 1
  BY PagingAssumption
<1>2. UsizeMax \div 2 \in Nat /\ UsizeMax \div 2 =< UsizeMax
  BY <1>1
<1>3. Clamped(n) \in 0..MaxAuditLimit /\ (Clamped(n) = 0 => n = 0)
  BY <1>1 DEF Clamped, Smaller
<1> DEFINE l == Clamped(n)
<1> HIDE DEF l
<1>4. l \in Nat /\ l =< MaxAuditLimit BY <1>1, <1>3 DEF l
<1>5. SaturatingAdd(l, 1) = l + 1 BY <1>1, <1>2, <1>4 DEF SaturatingAdd
<1>6. SqlLimit(l + 1) = l + 1 BY <1>1, <1>2, <1>4 DEF SqlLimit
<1> QED BY <1>3, <1>5, <1>6 DEF l

(* A page gives the newest of the selected rows, up to the clamped size,   *)
(* and tells whether there are more; the cursor is the oldest given.       *)
LEMMA AuditPageIs ==
  ASSUME IInv, NEW f \in AuditFilter, NEW n \in Requested,
         NEW page, page = AuditPage(Walked, f, n)
  PROVE  LET rows == Selected(Walked, f)
             given == RangeOf(IdsOf(page.rows)) IN
         /\ given \in SUBSET Ids(rows) /\ IsFiniteSet(given)
         /\ Cardinality(given) =< MaxAuditLimit
         /\ (page.truncated <=> Cardinality(rows) > Clamped(n))
         /\ ~page.truncated => given = Ids(rows)
         /\ page.truncated /\ page.rows # <<>> =>
              /\ Cursor(page) \in given
              /\ \A i \in given : i >= Cursor(page)
              /\ \A i \in Ids(rows) \ given : i < Cursor(page)
         /\ page.rows = <<>> /\ page.truncated => n = 0
<1> DEFINE rows == Selected(Walked, f)
           N == Cardinality(rows)
           l == Clamped(n)
           g == [f EXCEPT !.limit = SqlLimit(SaturatingAdd(l, 1))]
           I == Ids(rows)
           given == RangeOf(IdsOf(page.rows))
<1>1. Keyed(rows) /\ I \in SUBSET Int /\ N \in Nat /\ IsFiniteSet(I) /\ Cardinality(I) = N
  BY SelectedRows
<1>2. l \in Nat /\ l =< MaxAuditLimit /\ (l = 0 => n = 0) /\ SqlLimit(SaturatingAdd(l, 1)) = l + 1
  <2>1. MaxAuditLimit \in Nat BY PagingAssumption
  <2> QED BY <2>1, ClampedIs
<1> HIDE DEF l
<1>3. g.limit = l + 1 /\ g.events = f.events /\ g.item = f.item /\ g.since = f.since
      /\ g.until = f.until /\ g.after = f.after
  BY <1>2 DEF AuditFilter
<1>4. {a \in InScope(audit, Walked) : AuditMatches(a, g) /\ AuditAfter(a, g)} = rows
  BY <1>3 DEF Selected, AuditMatches, AuditAfter
<1> DEFINE seq == [m \in 1..N |->
                     CHOOSE r \in rows : Cardinality({q \in rows : q.id > r.id}) = m - 1]
<1>5. Audit(Walked, g) = Slice(seq, 0, l + 1)
  <2> DEFINE X == {a \in InScope(audit, Walked) : AuditMatches(a, g) /\ AuditAfter(a, g)}
  <2>1. Audit(Walked, g) =
          Slice([m \in 1..Cardinality(X) |->
                   CHOOSE r \in X : Cardinality({q \in X : q.id > r.id}) = m - 1], 0, g.limit)
    BY DEF Audit, Ordered
  <2>2. X = rows BY <1>4
  <2> HIDE DEF X, rows, g
  <2> QED BY <1>3, <2>1, <2>2
<1>6. Lists(seq, rows, Newest)
  <2> HIDE DEF rows
  <2> QED BY <1>1, OrderedAudit
<1> HIDE DEF seq, rows, N
<1>7. /\ page.rows = Slice(Slice(seq, 0, l + 1), 0, l)
      /\ page.truncated = (Len(Slice(seq, 0, l + 1)) > l)
  <2>1. AuditPage(Walked, f, n)
          = [rows |-> Slice(Audit(Walked, g), 0, l), truncated |-> Len(Audit(Walked, g)) > l,
             probe |-> IdsOf(Audit(Walked, g))]
    BY DEF AuditPage, l
  <2> HIDE DEF g
  <2> QED BY <1>5, <2>1
<1>8. page.rows = Slice(seq, 0, l) /\ (page.truncated <=> N > l)
  <2>1. Cardinality(rows) \in Nat BY <1>1 DEF N
  <2>2. /\ Len(Slice(seq, 0, l + 1)) > l <=> N > l
        /\ Slice(Slice(seq, 0, l + 1), 0, l) = Slice(seq, 0, l)
    BY <1>2, <1>6, <2>1, ProbeCut DEF N
  <2> QED BY <1>7, <2>2
<1>9. StrictOrder(Newest, I) BY <1>1, NewestIsStrict
<1> DEFINE rk(i) == Rank(I, Newest, i)
           P == page.rows
<1>10. \A i \in I : rk(i) \in 0..(N - 1) BY <1>1, <1>9, RankGrows
<1>20. PICK G : G = Placed(I, Newest, 0, 0 + l) OBVIOUS
<1>11. G = {i \in I : 0 =< rk(i) /\ rk(i) < 0 + l} BY <1>20 DEF Placed
<1>12. /\ RangeOf(IdsOf(P)) = G /\ IsFiniteSet(G)
       /\ Len(P) \in Nat /\ Len(P) =< l /\ Len(P) = Cardinality(G)
       /\ Len(P) < l => N =< 0 + Len(P)
       /\ P = <<>> => N =< 0 \/ l = 0
       /\ \A i \in G : rk(i) < 0 + Len(P)
  BY <1>1, <1>2, <1>6, <1>8, <1>9, <1>20, PageOf DEF N
<1>13. /\ given = G /\ Cardinality(G) =< MaxAuditLimit
  <2>1. MaxAuditLimit \in Nat BY PagingAssumption
  <2> QED BY <1>2, <1>12, <2>1
<1>14. ASSUME ~page.truncated PROVE G = I
  BY <1>1, <1>2, <1>8, <1>10, <1>11, <1>14
<1>15. ASSUME page.rows = <<>>, page.truncated PROVE n = 0
  BY <1>1, <1>2, <1>8, <1>12, <1>15
<1>16. ASSUME page.truncated, page.rows # <<>>
       PROVE  /\ Cursor(page) \in G
              /\ \A i \in G : i >= Cursor(page)
              /\ \A i \in I \ G : i < Cursor(page)
  <2>1. /\ Len(P) = l /\ DOMAIN P = 1..Len(P)
        /\ \A m \in 1..Len(P) : P[m] = seq[0 + m]
        /\ P = <<>> <=> N =< 0 \/ l = 0
    <3>1. /\ Len(P) = (IF 0 + l < N THEN l ELSE IF 0 < N THEN N - 0 ELSE 0)
          /\ DOMAIN P = 1..Len(P)
          /\ \A m \in 1..Len(P) : P[m] = seq[0 + m]
          /\ P = <<>> <=> N =< 0 \/ l = 0
      BY <1>1, <1>2, <1>6, <1>8, SliceIs DEF N
    <3> QED BY <1>1, <1>2, <1>8, <1>16, <3>1
  <2>2. l \in 1..N /\ l \in 1..Len(P) /\ 0 + l = l BY <1>1, <1>2, <1>8, <1>16, <2>1
  <2>3. Cursor(page) = seq[l].id BY <2>1, <2>2 DEF Cursor
  <2>4. seq[l] \in rows /\ rk(seq[l].id) = l - 1 BY <1>6, <2>2 DEF Lists, N
  <2> DEFINE c == seq[l].id
  <2>5. c \in I /\ rk(c) = l - 1 BY <2>4 DEF Ids
  <2> HIDE DEF c, rk, I
  <2>6. c \in G BY <1>2, <1>11, <2>2, <2>5
  <2>7. \A i, j \in I : i > j <=> <<i, j>> \in Newest BY <1>1 DEF Newest
  <2>8. \A i, j \in I : i > j => rk(i) < rk(j)
    BY <1>1, <1>9, <2>7, RankGrows DEF rk, I
  <2>9. ASSUME NEW i \in G PROVE i >= c
    <3>1. i \in I /\ rk(i) < l /\ rk(i) \in Int BY <1>2, <1>10, <1>11
    <3>2. ~(c > i) BY <1>2, <2>5, <2>8, <3>1
    <3> QED BY <1>1, <2>5, <3>1, <3>2 
  <2>10. ASSUME NEW i \in I \ G PROVE i < c
    <3>1. rk(i) >= l /\ rk(i) \in Int BY <1>2, <1>10, <1>11
    <3>2. ~(i > c) BY <1>2, <2>5, <2>8, <3>1
    <3> QED BY <1>1, <2>5, <2>6, <3>2
  <2> QED BY <2>3, <2>6, <2>9, <2>10 DEF c
<1>17. G \in SUBSET I BY <1>11
<1> HIDE DEF I
<1> QED BY <1>8, <1>12, <1>13, <1>14, <1>15, <1>16, <1>17 DEF N, l, rows, I

-----------------------------------------------------------------------------
(* The inductive invariant of the walks.                                   *)

AuditWalk ==
  [kind : {"audit"}, at : {"page", "done"}, filter : AuditFilter, requested : Requested]

ItemWalk ==
  [kind : Kinds, at : {"page", "work", "done", "failed"}, offset : Nat, scanned : Nat,
   removed : Nat, folds : AtMostOne(ItemRow \X ItemRow), rewrites : SUBSET ItemRow,
   forget : SUBSET ItemIds, released : BOOLEAN]

WalkOK == walk = NoWalk \/ walk \in AuditWalk \/ walk \in ItemWalk

(* What the cursor of an audit walk has passed was given, and what was     *)
(* there from the start was given or is yet to come.                       *)
AuditOK ==
  /\ ~repeated
  /\ \A i \in start : \E a \in InScope(audit, Walked) : a.id = i /\ AuditMatches(a, walk.filter)
  /\ walk.at = "page" =>
       /\ \A i \in seen : walk.filter.after # {} /\ \A c \in walk.filter.after : i >= c
       /\ \A i \in start : i \in seen \/ \A c \in walk.filter.after : i < c
  /\ walk.at = "done" /\ walk.requested # 0 => start \subseteq seen

(* The rows a walk was not given, and the place in the scope it has come   *)
(* to, counting what this page removed and not what it is still to forget. *)
Missing == start \ seen

Place ==
  IF walk.at = "page" THEN walk.offset
  ELSE (walk.offset + walk.scanned) - (walk.removed - Cardinality(walk.forget))

(* The work left is on rows that were given, each for one purpose.         *)
WorkOK ==
  /\ Cardinality(walk.forget) =< walk.removed
  /\ walk.forget \cup Ids(walk.rewrites) \subseteq seen
  /\ Dated(walk.rewrites)
  /\ \A r \in walk.rewrites : r.scope = Walked
  /\ \A p \in walk.folds :
       /\ p[1].id # p[2].id /\ p[1].id \in seen
       /\ p[1].id \notin walk.forget \cup Ids(walk.rewrites)

(* While nobody else wrote: what was given is behind, and still there if   *)
(* there is work on it.                                                    *)
UndisturbedOK ==
  /\ ~repeated
  /\ walk.at \in {"page", "work"} =>
       seen \cap There(Walked) \subseteq First(There(Walked), ItemOrder, Place)
  /\ walk.at = "work" =>
       (walk.forget \cup Ids(walk.rewrites)) \cup {p[1].id : p \in walk.folds}
         \subseteq There(Walked)

(* No more rows fell behind unseen than others removed.                    *)
ItemOK ==
  /\ start \in SUBSET ItemIds /\ seen \in SUBSET ItemIds
  /\ walk.removed + Cardinality(walk.folds) =< walk.scanned
  /\ walk.at \in {"page", "work"} =>
       Cardinality(Behind(Missing, There(Walked), ItemOrder, Place)) =< lost
  /\ walk.at = "done" \/ (walk.at = "work" /\ walk.scanned < Batch) =>
       Cardinality(Missing) =< lost
  /\ walk.at = "work" => WorkOK
  /\ written = 0 => UndisturbedOK

PagingInv ==
  /\ IInv
  /\ Dated(items)
  /\ WalkOK
  /\ lost \in Nat /\ written \in Nat
  /\ seen \subseteq Int
  /\ walk.kind = "audit" => AuditOK
  /\ walk.kind \in Kinds => ItemOK

(* The kinds tell the walks apart. *)
LEMMA WalkKinds ==
  ASSUME WalkOK
  PROVE  /\ walk.kind = "audit" <=> walk \in AuditWalk
         /\ walk.kind \in Kinds <=> walk \in ItemWalk
         /\ walk.at = "idle" => walk = NoWalk
         /\ walk.at = "work" => walk \in ItemWalk
<1>1. walk = NoWalk => walk.kind = "none" /\ walk.at = "idle" BY DEF NoWalk
<1>2. walk \in AuditWalk => walk.kind = "audit" /\ walk.at \in {"page", "done"}
  BY DEF AuditWalk
<1>3. walk \in ItemWalk => walk.kind \in Kinds /\ walk.at \in {"page", "work", "done", "failed"}
  BY DEF ItemWalk
<1> QED BY <1>1, <1>2, <1>3 DEF WalkOK, Kinds

LEMMA PagingInitKeeps == PagingInit => PagingInv
<1> SUFFICES ASSUME PagingInit PROVE PagingInv
  OBVIOUS
<1>1. IInv BY PagingInitIInv
<1>2. items = Stored /\ walk = NoWalk /\ seen = {} /\ lost = 0 /\ written = 0
  BY DEF PagingInit
<1>3. Dated(items)
  <2>1. Stored \subseteq Brought BY DEF Brought
  <2> QED BY <1>2, <2>1, BroughtIsDated DEF Dated
<1>4. walk.kind = "none" BY <1>2 DEF NoWalk
<1> QED BY <1>1, <1>2, <1>3, <1>4 DEF PagingInv, WalkOK, Kinds

LEMMA ReadingKeeps ==
  ASSUME PagingInv, Reading
  PROVE  IInv' /\ Dated(items)' /\ lost' \in Nat /\ written' \in Nat
<1>1. IInv' BY StutterKeeps DEF PagingInv, Reading
<1>2. UNCHANGED <<items, lost, written>> BY DEF Reading, vars, tables
<1> QED BY <1>1, <1>2 DEF PagingInv, Dated

LEMMA BeginAuditKeeps ==
  ASSUME PagingInv, BeginAudit
  PROVE  PagingInv'
<1>1. PICK f \in Filters, n \in Requested :
        /\ walk' = [kind |-> "audit", at |-> "page", filter |-> f, requested |-> n]
        /\ start' = Ids({a \in InScope(audit, Walked) : AuditMatches(a, f) /\ AuditAfter(a, f)})
  BY DEF BeginAudit
<1>2. seen' = {} /\ repeated' = FALSE /\ Reading BY DEF BeginAudit
<1>3. audit' = audit BY <1>2 DEF Reading, vars, tables
<1>4. walk' \in AuditWalk BY <1>1, PagingAssumption DEF AuditWalk
<1>5. walk'.kind = "audit" /\ walk'.at = "page" /\ walk'.filter = f BY <1>1
<1>6. \A i \in start' : \E a \in InScope(audit, Walked) :
        a.id = i /\ AuditMatches(a, f) /\ AuditAfter(a, f)
  BY <1>1 DEF Ids
<1>7. AuditOK'
  BY <1>2, <1>3, <1>5, <1>6 DEF AuditOK, AuditAfter
<1>8. walk'.kind \notin Kinds BY <1>5 DEF Kinds
<1> QED BY <1>2, <1>4, <1>7, <1>8, ReadingKeeps DEF PagingInv, WalkOK

LEMMA ReadAuditKeeps ==
  ASSUME PagingInv, ReadAudit
  PROVE  PagingInv'
<1> DEFINE f == walk.filter
           n == walk.requested
           page == AuditPage(Walked, f, n)
           rows == Selected(Walked, f)
           given == RangeOf(IdsOf(page.rows))
<1>1. walk.kind = "audit" /\ walk.at = "page" BY DEF ReadAudit
<1>2. /\ seen' = seen \cup given
      /\ repeated' = (repeated \/ seen \cap given # {})
      /\ walk' = IF page.truncated /\ page.rows # <<>>
                 THEN [walk EXCEPT !.filter.after = {Cursor(page)}]
                 ELSE [walk EXCEPT !.at = "done"]
      /\ start' = start /\ Reading
  BY DEF ReadAudit, Given
<1>3. IInv /\ WalkOK /\ AuditOK /\ seen \subseteq Int BY <1>1 DEF PagingInv
<1>4. walk \in AuditWalk BY <1>1, <1>3, WalkKinds
<1>5. f \in AuditFilter /\ n \in Requested BY <1>4 DEF AuditWalk
<1>6. audit' = audit BY <1>2 DEF Reading, vars, tables
<1>7. /\ given \in SUBSET Ids(rows)
      /\ ~page.truncated => given = Ids(rows)
      /\ page.truncated /\ page.rows # <<>> =>
           /\ Cursor(page) \in given
           /\ \A i \in given : i >= Cursor(page)
           /\ \A i \in Ids(rows) \ given : i < Cursor(page)
      /\ page.rows = <<>> /\ page.truncated => n = 0
  <2> HIDE DEF f, n
  <2> QED BY <1>3, <1>5, AuditPageIs
<1>8. Ids(rows) \in SUBSET Int BY <1>3, SelectedRows
<1> HIDE DEF page, given
<1>9. \A i \in Ids(rows) : \A c \in f.after : i < c BY DEF Ids, Selected, AuditAfter
<1>10. f.after \in SUBSET Int BY <1>5 DEF AuditFilter
<1>11. \A i \in seen : f.after # {} /\ \A c \in f.after : i >= c BY <1>1, <1>3 DEF AuditOK
<1>12. \A i \in start : i \in seen \/ i \in Ids(rows)
  <2> SUFFICES ASSUME NEW i \in start, i \notin seen PROVE i \in Ids(rows)
    OBVIOUS
  <2>1. PICK a \in InScope(audit, Walked) : a.id = i /\ AuditMatches(a, f) BY <1>3 DEF AuditOK
  <2>2. \A c \in f.after : i < c BY <1>1, <1>3 DEF AuditOK
  <2>3. AuditAfter(a, f) BY <2>1, <2>2 DEF AuditAfter
  <2>4. a \in rows BY <2>1, <2>3 DEF Selected
  <2> QED BY <2>1, <2>4 DEF Ids
<1>13. seen \cap given = {}
  <2> SUFFICES ASSUME NEW i \in seen, i \in given PROVE FALSE
    OBVIOUS
  <2>1. i \in Ids(rows) BY <1>7
  <2>2. PICK c : c \in f.after BY <1>11
  <2>3. i < c /\ i >= c /\ i \in Int /\ c \in Int BY <1>8, <1>9, <1>10, <1>11, <2>1, <2>2
  <2> QED BY <2>3
<1>14. ~repeated' BY <1>2, <1>3, <1>13 DEF AuditOK
<1>15. seen' \subseteq Int BY <1>2, <1>3, <1>7, <1>8
<1>17. CASE page.truncated /\ page.rows # <<>>
  <2> DEFINE k == Cursor(page)
  <2>1. walk' = [walk EXCEPT !.filter.after = {k}] BY <1>2, <1>17
  <2>2. k \in Int /\ k \in given /\ (\A i \in given : i >= k) /\ \A i \in Ids(rows) \ given : i < k
    BY <1>7, <1>8, <1>17
  <2> HIDE DEF k
  <2>3. /\ walk' \in AuditWalk /\ walk'.kind = "audit" /\ walk'.at = "page"
        /\ walk'.filter = [f EXCEPT !.after = {k}]
    BY <1>1, <1>4, <2>1, <2>2 DEF AuditWalk, AuditFilter
  <2>4. walk'.filter.after = {k} /\ walk'.filter.events = f.events /\ walk'.filter.item = f.item
        /\ walk'.filter.since = f.since /\ walk'.filter.until = f.until
    BY <1>5, <2>3 DEF AuditFilter
  <2>5. \A a : AuditMatches(a, walk'.filter) <=> AuditMatches(a, f)
    BY <2>4 DEF AuditMatches
  <2>6. \A i \in seen' : i >= k
    <3> SUFFICES ASSUME NEW i \in seen PROVE i >= k
      BY <1>2, <2>2
    <3>1. PICK c : c \in f.after BY <1>11
    <3>2. i >= c /\ k < c /\ i \in Int /\ c \in Int
      BY <1>3, <1>7, <1>9, <1>10, <1>11, <2>2, <3>1
    <3> QED BY <2>2, <3>2
  <2>7. \A i \in start : i \in seen' \/ i < k BY <1>2, <1>12, <2>2
  <2>8. \A i \in start : \E a \in InScope(audit', Walked) : a.id = i /\ AuditMatches(a, walk'.filter)
    BY <1>3, <1>6, <2>5 DEF AuditOK
  <2>9. AuditOK'
    BY <1>2, <1>14, <2>3, <2>4, <2>6, <2>7, <2>8, ZenonT(40) DEF AuditOK
  <2>10. walk'.kind \notin Kinds BY <2>3 DEF Kinds
  <2> QED BY <1>2, <1>15, <2>3, <2>9, <2>10, ReadingKeeps DEF PagingInv, WalkOK
<1>18. CASE ~(page.truncated /\ page.rows # <<>>)
  <2>1. walk' = [walk EXCEPT !.at = "done"] BY <1>2, <1>18
  <2>2. walk' \in AuditWalk /\ walk'.kind = "audit" /\ walk'.at = "done" /\ walk'.filter = f
        /\ walk'.requested = n
    BY <1>1, <1>4, <2>1 DEF AuditWalk
  <2>3. n # 0 => given = Ids(rows) BY <1>7, <1>18
  <2>4. n # 0 => start \subseteq seen' BY <1>2, <1>12, <2>3
  <2>5. AuditOK' BY <1>2, <1>3, <1>6, <1>14, <2>2, <2>4 DEF AuditOK
  <2>6. walk'.kind \notin Kinds BY <2>2 DEF Kinds
  <2> QED BY <1>2, <1>15, <2>2, <2>5, <2>6, ReadingKeeps DEF PagingInv, WalkOK
<1> QED BY <1>17, <1>18

(* A row in the audit after a step of others is one that was there, or its *)
(* id is new.                                                              *)
LEMMA AuditIdsAreFresh ==
  ASSUME IInv, DoApply \/ DoImport \/ DoPurge
  PROVE  \A a \in audit' : a \in audit \/ a.id \notin Ids(audit)
<1>1. \A a \in audit : a.id \in Int /\ a.id =< minted /\ minted \in Nat
  BY DEF IInv, TypeOK, AuditRow, AuditIdsMinted
<1>2. minted + 1 \notin Ids(audit) BY <1>1 DEF Ids
<1>3. CASE DoApply
  <2>1. PICK t \in Transactions : Apply(t, minted + 1) BY <1>3 DEF DoApply
  <2>2. \A a \in audit' : a \in audit \/ a.id = minted + 1
    BY <2>1 DEF Apply, ApplyCommit, AuditInserted, tables
  <2> QED BY <1>2, <2>2
<1>4. CASE DoImport
  <2>1. PICK st \in Streams : Import(st) BY <1>4 DEF DoImport
  <2>2. CASE ~ImportCommits(st) BY <2>1, <2>2 DEF Import, tables
  <2>3. CASE ImportCommits(st)
    <3>1. audit' = audit \cup st.audits BY <2>1, <2>3 DEF Import, ImportCommit, AuditInserted
    <3>2. Ids(st.audits) \cap Ids(audit) = {} BY <2>3 DEF ImportCommits
    <3>3. \A a \in st.audits : a.id \in Ids(st.audits) BY DEF Ids
    <3> QED BY <3>1, <3>2, <3>3
  <2> QED BY <2>2, <2>3
<1>5. CASE DoPurge
  <2>1. PICK p \in Purges : PurgeSubject(SubjectOf(p[1]), p[2], p[1], minted + 1, p[3])
    BY <1>5 DEF DoPurge
  <2>2. \A a \in audit' : a \in audit \/ a.id = minted + 1
    BY <2>1 DEF PurgeSubject, PurgedAudit
  <2> QED BY <1>2, <2>2
<1> QED BY <1>3, <1>4, <1>5

-----------------------------------------------------------------------------
(* The steps of a walk over items.                                         *)

LEMMA BeginWalkKeeps ==
  ASSUME PagingInv, BeginWalk
  PROVE  PagingInv'
<1>1. PICK kind \in Kinds :
        walk' = [kind |-> kind, at |-> "page", offset |-> 0, scanned |-> 0, removed |-> 0,
                 folds |-> {}, rewrites |-> {}, forget |-> {}, released |-> FALSE]
  BY DEF BeginWalk
<1>2. start' = There(Walked) /\ seen' = {} /\ repeated' = FALSE /\ Reading
  BY DEF BeginWalk, There
<1>3. items' = items /\ lost' = lost /\ lost \in Nat BY <1>2 DEF Reading, vars, tables, PagingInv
<1>4. walk' \in ItemWalk BY <1>1 DEF ItemWalk, AtMostOne
<1>5. There(Walked) \in SUBSET ItemIds /\ IsFiniteSet(There(Walked))
  BY RowsOfScope DEF PagingInv
<1>6. There(Walked)' = There(Walked) BY <1>3 DEF There
<1>7. walk'.kind = kind /\ walk'.at = "page" /\ walk'.offset = 0 /\ walk'.removed = 0
      /\ walk'.scanned = 0 /\ walk'.folds = {}
  BY <1>1
<1>8. Cardinality({}) = 0 BY FS_EmptySet
<1>9. Behind(There(Walked), There(Walked), ItemOrder, 0) = {}
  <2> SUFFICES ASSUME NEW i \in First(There(Walked), ItemOrder, 0) PROVE FALSE
    BY DEF Behind
  <2>1. There(Walked) \in SUBSET There(Walked) OBVIOUS
  <2>2. Rank(There(Walked), ItemOrder, i) \in Nat BY <1>5, <2>1, RankWithin
  <2> QED BY <2>2 DEF First
<1>10. Missing' = There(Walked) BY <1>2 DEF Missing
<1>11. Place' = 0 BY <1>7 DEF Place
<1>12. UndisturbedOK' BY <1>2, <1>7 DEF UndisturbedOK
<1>13. ItemOK'
  <2>1. Behind(Missing, There(Walked), ItemOrder, Place)' = {}
    BY <1>6, <1>9, <1>10, <1>11
  <2>2. Cardinality(Behind(Missing, There(Walked), ItemOrder, Place)') =< lost'
    BY <1>3, <1>8, <2>1
  <2>3. walk'.removed + Cardinality(walk'.folds) =< walk'.scanned BY <1>7, <1>8
  <2> QED BY <1>2, <1>5, <1>7, <1>12, <2>2, <2>3 DEF ItemOK
<1>14. walk'.kind # "audit" BY <1>7 DEF Kinds
<1> QED BY <1>2, <1>4, <1>13, <1>14, ReadingKeeps DEF PagingInv, WalkOK

LEMMA WorkShape ==
  ASSUME NEW batch \in SUBSET ItemRow, Keyed(batch), NEW kind \in Kinds,
         NEW w \in Work(kind, batch)
  PROVE  /\ w.folds \in AtMostOne(batch \X batch)
         /\ w.rewrites \in SUBSET batch /\ w.forget \in SUBSET Ids(batch)
         /\ \A p \in w.folds :
              /\ p[1].id # p[2].id /\ p[1].id \in Ids(batch)
              /\ p[1].id \notin w.forget \cup Ids(w.rewrites)
         /\ Cardinality(w.forget) \in Nat
         /\ Cardinality(w.forget) + Cardinality(w.folds) =< Cardinality(Ids(batch))
<1>1. /\ w.folds \in AtMostOne(batch \X batch)
      /\ w.rewrites \in SUBSET batch /\ w.forget \in SUBSET Ids(batch)
      /\ Ids(w.rewrites) \cap w.forget = {}
      /\ \A p \in w.folds :
           p[1] # p[2] /\ p[1] \notin w.rewrites /\ {p[1].id, p[2].id} \cap w.forget = {}
  <2>1. CASE kind = "forget"
    <3>1. w = [folds |-> {}, rewrites |-> {}, forget |-> {}] BY <2>1 DEF Work
    <3> QED BY <3>1 DEF AtMostOne, Ids
  <2>2. CASE kind = "reembed"
    <3>1. PICK Q \in Again(batch) : w = [folds |-> {}, rewrites |-> Q, forget |-> {}]
      BY <2>2 DEF Work
    <3> QED BY <3>1 DEF AtMostOne, Again
  <2>3. CASE kind = "maintain"
    <3>1. w \in {x \in [folds : AtMostOne(batch \X batch), rewrites : SUBSET batch,
                        forget : SUBSET Ids(batch)] :
                   /\ Ids(x.rewrites) \cap x.forget = {}
                   /\ \A p \in x.folds :
                        /\ p[1] # p[2]
                        /\ p[1] \notin x.rewrites
                        /\ {p[1].id, p[2].id} \cap x.forget = {}}
      BY <2>3 DEF Work
    <3> QED BY <3>1
  <2> QED BY <2>1, <2>2, <2>3 DEF Kinds
<1>2. ASSUME NEW p \in w.folds
      PROVE  /\ p[1].id # p[2].id /\ p[1].id \in Ids(batch)
             /\ p[1].id \notin w.forget \cup Ids(w.rewrites)
             /\ w.folds = {p}
  <2>1. w.folds = {p} /\ p[1] \in batch /\ p[2] \in batch BY <1>1 DEF AtMostOne
  <2> QED BY <1>1, <1>2, <2>1 DEF Keyed, Ids
<1>3. IsFiniteSet(Ids(batch)) BY KeyedIds
<1>4. IsFiniteSet(w.forget) /\ Cardinality(w.forget) \in Nat
      /\ Cardinality(w.forget) =< Cardinality(Ids(batch)) /\ Cardinality(Ids(batch)) \in Nat
  BY <1>1, <1>3, FS_Subset, FS_CardinalityType
<1>5. CASE w.folds = {}
  <2>1. Cardinality(w.folds) = 0 BY <1>5, FS_EmptySet
  <2> QED BY <1>1, <1>2, <1>4, <2>1
<1>6. ASSUME NEW p \in w.folds
      PROVE  Cardinality(w.forget) + Cardinality(w.folds) =< Cardinality(Ids(batch))
  <2>1. Cardinality(w.folds) = 1 BY <1>2, FS_Singleton
  <2>2. p[1].id \notin w.forget /\ w.forget \cup {p[1].id} \in SUBSET Ids(batch) BY <1>1, <1>2
  <2>3. Cardinality(w.forget \cup {p[1].id}) = Cardinality(w.forget) + 1
    BY <1>4, <2>2, FS_AddElement
  <2>4. Cardinality(w.forget \cup {p[1].id}) =< Cardinality(Ids(batch))
    BY <1>3, <2>2, FS_Subset
  <2> QED BY <2>1, <2>3, <2>4
<1> QED BY <1>1, <1>2, <1>4, <1>5, <1>6

(* A page of the scope, as the walk lists it.                              *)
LEMMA ItemPageIs ==
  ASSUME IInv, Dated(items), NEW o \in Nat, NEW page, page = List(Walked, o, Batch)
  PROVE  LET given == Placed(There(Walked), ItemOrder, o, o + Batch) IN
         /\ RangeOf(IdsOf(page)) = given /\ IsFiniteSet(given)
         /\ RangeOf(page) \in SUBSET InScope(items, Walked) /\ Ids(RangeOf(page)) = given
         /\ Len(page) \in Nat /\ Len(page) = Cardinality(given) /\ Len(page) =< Batch
         /\ Len(page) < Batch => Cardinality(There(Walked)) =< o + Len(page)
         /\ page = <<>> => Len(page) = 0
         /\ \A i \in given : Rank(There(Walked), ItemOrder, i) < o + Len(page)
<1> DEFINE rows == InScope(items, Walked)
           seq == Ordered(rows, ListedBefore)
<1>1. rows \in SUBSET ItemRow /\ Keyed(rows) /\ There(Walked) \in SUBSET ItemIds
      /\ IsFiniteSet(There(Walked))
  BY RowsOfScope
<1>2. Dated(rows) BY DEF Dated, InScope
<1>3. Ids(rows) = There(Walked) BY DEF There
<1>4. Batch \in Nat /\ EffectiveLimit(Batch) = Batch
  BY PagingAssumption, ReadsAssumption DEF EffectiveLimit
<1>5. page = Slice(seq, o, Batch) BY <1>4 DEF List
<1> HIDE DEF rows
<1>6. Lists(seq, rows, ItemOrder) BY <1>1, <1>2, OrderedItems
<1> HIDE DEF seq
<1>7. StrictOrder(ItemOrder, Ids(rows)) BY <1>1, <1>3, ItemOrderIsStrict
<1>8. PICK given : given = Placed(Ids(rows), ItemOrder, o, o + Batch) OBVIOUS
<1>9. /\ RangeOf(IdsOf(page)) = given
      /\ RangeOf(page) = {r \in rows : r.id \in given}
      /\ Len(page) \in Nat /\ Len(page) =< Batch
      /\ Len(page) = Cardinality(given) /\ IsFiniteSet(given)
      /\ Len(page) < Batch => Cardinality(rows) =< o + Len(page)
      /\ \A i \in given : Rank(Ids(rows), ItemOrder, i) < o + Len(page)
  BY <1>1, <1>4, <1>5, <1>6, <1>7, <1>8, PageOf
<1>10. Cardinality(rows) = Cardinality(Ids(rows)) BY <1>1, KeyedIds
<1>11. given \in SUBSET Ids(rows) BY <1>8 DEF Placed
<1>12. Ids(RangeOf(page)) = given BY <1>9, <1>11 DEF Ids
<1>13. page = <<>> => Len(page) = 0 BY EmptySeq
<1> QED BY <1>3, <1>8, <1>9, <1>10, <1>12, <1>13 DEF rows


(* A scope's rows are few and their ids are ids, in every sound state.     *)
ScopeOK == There(Walked) \in SUBSET ItemIds /\ IsFiniteSet(There(Walked))

LEMMA ScopeIsOK == IInv => ScopeOK
BY RowsOfScope DEF ScopeOK

(* What a walk writes itself is a transaction like any other, without an   *)
(* idempotency key.                                                        *)
OwnWrite(t, E, U, M) ==
  /\ t.scope = Walked /\ t.auditScope = Walked /\ t.key = {}
  /\ t.evictions = E /\ t.upsert = U /\ t.merge = M

LEMMA OwnIsSound ==
  ASSUME NEW event \in Events, NEW refs \in SUBSET ItemIds, NEW E \in SUBSET ItemIds,
         NEW U \in AtMostOne(ItemWrite), \A w \in U : Paired(w),
         NEW M \in AtMostOne(MergeWrite), NEW t,
         t = [scope |-> Walked, upsert |-> U, merge |-> M, evictions |-> E,
              auditScope |-> Walked, event |-> event, refs |-> refs,
              auditMeta |-> AnyAuditMeta, key |-> {}, digest |-> CHOOSE b \in Bodies : TRUE]
  PROVE  t \in SoundTransactions /\ OwnWrite(t, E, U, M) /\ Prior(t) = {}
<1>1. Walked \in Scopes BY PagingAssumption
<1>2. AnyAuditMeta \in AuditMetas BY StoreAssumption DEF AnyAuditMeta
<1>3. PICK b : b = CHOOSE x \in Bodies : TRUE OBVIOUS
<1>4. b \in Bodies BY <1>3, PagingAssumption
<1>5. {} \in AtMostOne(Keys) BY DEF AtMostOne
<1>6. t \in WriteTransaction
  BY <1>1, <1>2, <1>3, <1>4, <1>5 DEF WriteTransaction
<1>7. t.upsert = U /\ t.key = {} OBVIOUS
<1>8. OwnWrite(t, E, U, M) BY DEF OwnWrite
<1>9. Prior(t) = {} BY <1>7 DEF Prior
<1> QED BY <1>6, <1>7, <1>8, <1>9 DEF SoundTransactions

(* Such a transaction leaves the tables sound and the dates as they were,  *)
(* and the scope without what it evicts and with what it inserts, or does  *)
(* not commit and changes nothing.                                         *)
LEMMA OwnWriteKeeps ==
  ASSUME PagingInv, NEW t \in SoundTransactions, NEW E, NEW U, NEW M, OwnWrite(t, E, U, M),
         Dated(U), Mint, Apply(t, minted + 1)
  PROVE  /\ IInv' /\ Dated(items')
         /\ There(Walked)' \in SUBSET ItemIds /\ IsFiniteSet(There(Walked)')
         /\ Commits(t) => There(Walked)' = (There(Walked) \ E) \cup Ids(U)
         /\ ~Commits(t) => There(Walked)' = There(Walked)
<1>1. IInv /\ Dated(items) BY DEF PagingInv
<1>2. t.scope = Walked /\ t.evictions = E /\ t.upsert = U BY DEF OwnWrite
<1>3. IInv' BY <1>1, ApplyKeeps
<1>4. Dated(items') BY <1>1, <1>2, ApplyKeepsDates
<1>5. There(Walked)' \in SUBSET ItemIds /\ IsFiniteSet(There(Walked)')
  <2>1. ScopeOK' BY <1>3, ScopeIsOK, PTL
  <2> QED BY <2>1 DEF ScopeOK
<1>6. CASE Commits(t)
  <2>1. ApplyCommit(t, minted + 1) BY <1>6 DEF Apply
  <2>2. There(t.scope)' = (There(t.scope) \ t.evictions) \cup Ids(t.upsert)
    BY <1>1, <1>6, <2>1, ThereAfter
  <2>3. There(Walked)' = (There(Walked) \ E) \cup Ids(U)
    BY <1>2, <2>2 DEF There, InScope, Ids
  <2> QED BY <1>3, <1>4, <1>5, <1>6, <2>3
<1>7. CASE ~Commits(t)
  <2>1. items' = items BY <1>7 DEF Apply, tables
  <2>2. There(Walked)' = There(Walked) BY <2>1 DEF There
  <2> QED BY <1>3, <1>4, <1>5, <1>7, <2>2
<1> QED BY <1>6, <1>7

(* The numbers of a walk at work. *)
LEMMA PlaceIs ==
  ASSUME PagingInv, walk.at = "work"
  PROVE  /\ walk \in ItemWalk /\ ItemOK /\ WorkOK
         /\ IsFiniteSet(walk.forget) /\ Cardinality(walk.forget) \in Nat
         /\ Cardinality(walk.folds) \in Nat
         /\ Place = (walk.offset + walk.scanned) - (walk.removed - Cardinality(walk.forget))
         /\ Place \in Nat
<1>1. walk \in ItemWalk /\ walk.kind \in Kinds
  BY WalkKinds DEF PagingInv
<1>2. ItemOK /\ WorkOK BY <1>1 DEF PagingInv, ItemOK
<1>3. walk.forget \in SUBSET ItemIds /\ walk.offset \in Nat /\ walk.scanned \in Nat
      /\ walk.removed \in Nat /\ walk.folds \in AtMostOne(ItemRow \X ItemRow)
  BY <1>1 DEF ItemWalk
<1>4. IsFiniteSet(walk.forget) /\ Cardinality(walk.forget) \in Nat
  BY <1>3, StoreAssumption, FS_Subset, FS_CardinalityType
<1>5. Cardinality(walk.folds) \in Nat
  <2>1. CASE walk.folds = {} BY <2>1, FS_EmptySet
  <2>2. CASE walk.folds # {}
    <3>1. PICK p : walk.folds = {p} BY <1>3, <2>2 DEF AtMostOne
    <3>2. Cardinality({p}) = 1 BY FS_Singleton
    <3> QED BY <3>1, <3>2
  <2> QED BY <2>1, <2>2
<1>6. walk.removed + Cardinality(walk.folds) =< walk.scanned
      /\ Cardinality(walk.forget) =< walk.removed
  BY <1>2 DEF ItemOK, WorkOK
<1>7. Place = (walk.offset + walk.scanned) - (walk.removed - Cardinality(walk.forget))
  BY DEF Place
<1>8. Place \in Nat BY <1>3, <1>4, <1>5, <1>6, <1>7
<1> QED BY <1>1, <1>2, <1>4, <1>5, <1>7, <1>8

(* Moving back by what it removed, a walk leaves nothing behind unseen,    *)
(* and, undisturbed, meets nothing again.                                  *)
LEMMA WalkGoesOn ==
  ASSUME PagingInv, walk.at = "work", NEW T, IsFiniteSet(T), NEW l \in Nat,
         There(Walked) \ T \subseteq seen,
         l + Cardinality(There(Walked) \ T) =< Place
  PROVE  /\ Cardinality(Behind(Missing, T, ItemOrder, l)) =< lost
         /\ written = 0 /\ T \subseteq There(Walked)
            /\ Place =< l + Cardinality(There(Walked) \ T) =>
              seen \cap T \subseteq First(T, ItemOrder, l)
<1> DEFINE S == There(Walked)
<1>1. S \in SUBSET ItemIds /\ IsFiniteSet(S) BY RowsOfScope DEF PagingInv
<1>2. Place \in Nat /\ ItemOK BY PlaceIs
<1>3. StrictOrder(ItemOrder, S) BY <1>1, ItemOrderIsStrict
<1>4. Missing \cap S \subseteq T BY DEF Missing
<1>5. IsFiniteSet(Missing)
  BY <1>2, StoreAssumption, FS_Subset DEF ItemOK, Missing
<1> HIDE DEF S
<1>6. IsFiniteSet(S \ T) /\ Cardinality(S \ T) \in Nat
  BY <1>1, SetMinusFinite, FS_CardinalityType
<1>7. Cardinality(Behind(Missing, T, ItemOrder, l)) =< lost
  <2>1. Behind(Missing, T, ItemOrder, l) \subseteq Behind(Missing, S, ItemOrder, Place)
    BY <1>1, <1>2, <1>4, BehindStays DEF S
  <2>2. IsFiniteSet(Behind(Missing, S, ItemOrder, Place))
    BY <1>1, <1>2, <1>3, <1>5, BehindByRemoval
  <2>3. /\ Cardinality(Behind(Missing, T, ItemOrder, l))
             =< Cardinality(Behind(Missing, S, ItemOrder, Place))
        /\ Cardinality(Behind(Missing, T, ItemOrder, l)) \in Nat
        /\ Cardinality(Behind(Missing, S, ItemOrder, Place)) \in Nat
    BY <2>1, <2>2, FS_Subset, FS_CardinalityType
  <2>4. Cardinality(Behind(Missing, S, ItemOrder, Place)) =< lost
    BY <1>2 DEF ItemOK, S
  <2>5. lost \in Nat BY DEF PagingInv
  <2> QED BY <2>3, <2>4, <2>5
<1>8. ASSUME written = 0, T \subseteq S, Place =< l + Cardinality(S \ T), NEW i \in seen \cap T
      PROVE  i \in First(T, ItemOrder, l)
  <2>1. seen \cap S \subseteq First(S, ItemOrder, Place)
    BY <1>2, <1>8 DEF ItemOK, UndisturbedOK, S
  <2>2. PICK D : D = S \ T OBVIOUS
  <2>3. D \in SUBSET First(S, ItemOrder, Place) BY <2>1, <2>2 DEF S
  <2>4. i \in First(S, ItemOrder, Place) \ D BY <1>8, <2>1, <2>2
  <2>5. Rank(S \ D, ItemOrder, i) + Cardinality(D) < Place
    BY <1>1, <1>2, <1>3, <2>3, <2>4, RemovalShifts
  <2>6. S \ D = T BY <1>8, <2>2
  <2>7. Rank(T, ItemOrder, i) \in Nat
    <3>1. T \in SUBSET T OBVIOUS
    <3> QED BY <3>1, RankWithin
  <2>8. Rank(T, ItemOrder, i) < l
    <3>1. Rank(T, ItemOrder, i) + Cardinality(S \ T) < Place BY <2>2, <2>5, <2>6
    <3>2. Place =< l + Cardinality(S \ T) BY <1>8
    <3> HIDE DEF S
    <3> QED BY <1>2, <1>6, <2>7, <3>1, <3>2
  <2> QED BY <1>8, <2>8 DEF First
<1> QED BY <1>7, <1>8 DEF S

(* A step at work changes the tables and the walk, no history.             *)
WorkFrame == UNCHANGED <<start, seen, repeated, lost, written>>

(* A step that leaves the walk at work leaves it sound: it removed only    *)
(* what it counts, and took work off.                                      *)
LEMMA StillAtWork ==
  ASSUME PagingInv, walk.at = "work", WorkFrame,
         IInv', Dated(items'),
         NEW T, T = There(Walked)', IsFiniteSet(T),
         There(Walked) \ T \subseteq seen,
         walk' \in ItemWalk, walk'.at = "work",
         walk'.offset = walk.offset, walk'.scanned = walk.scanned,
         walk'.forget = walk.forget, walk'.rewrites \subseteq walk.rewrites,
         walk'.folds \subseteq walk.folds,
         walk.removed =< walk'.removed,
         walk'.removed + Cardinality(walk'.folds) =< walk.scanned,
         walk.removed + Cardinality(There(Walked) \ T) =< walk'.removed,
         written = 0 => /\ T \subseteq There(Walked)
                        /\ walk'.removed =< walk.removed + Cardinality(There(Walked) \ T)
                        /\ (walk'.forget \cup Ids(walk'.rewrites)) \cup {p[1].id : p \in walk'.folds}
                              \subseteq T
  PROVE  PagingInv'
<1> DEFINE S == There(Walked)
           w == walk'
<1>1. /\ walk \in ItemWalk /\ ItemOK /\ WorkOK
      /\ Cardinality(walk.forget) \in Nat /\ Place \in Nat
      /\ Place = (walk.offset + walk.scanned) - (walk.removed - Cardinality(walk.forget))
  BY PlaceIs
<1>2. /\ walk.offset \in Nat /\ walk.scanned \in Nat /\ walk.removed \in Nat
      /\ w.removed \in Nat /\ w.kind \in Kinds /\ w.folds \in AtMostOne(ItemRow \X ItemRow)
  BY <1>1 DEF ItemWalk
<1>3. start' = start /\ seen' = seen /\ repeated' = repeated /\ lost' = lost /\ written' = written
  BY DEF WorkFrame
<1>4. PICK l : l = Place' OBVIOUS
<1>5. l = (w.offset + w.scanned) - (w.removed - Cardinality(w.forget)) BY <1>4 DEF Place
<1>6. Cardinality(S \ T) \in Nat
  <2>1. IsFiniteSet(S) BY RowsOfScope DEF PagingInv
  <2> QED BY <2>1, SetMinusFinite, FS_CardinalityType
<1>7. w.removed =< walk.scanned
  <2>1. Cardinality(w.folds) \in Nat
    <3>1. CASE w.folds = {} BY <3>1, FS_EmptySet
    <3>2. CASE w.folds # {}
      <4>1. PICK p : w.folds = {p} BY <1>2, <3>2 DEF AtMostOne
      <4>2. Cardinality({p}) = 1 BY FS_Singleton
      <4> QED BY <4>1, <4>2
    <3> QED BY <3>1, <3>2
  <2> HIDE DEF w
  <2> QED BY <1>2, <2>1 DEF w
<1> HIDE DEF S
<1>8. l \in Nat /\ l + Cardinality(S \ T) =< Place
  <2>1. w.offset = walk.offset /\ w.scanned = walk.scanned /\ w.forget = walk.forget
        /\ walk.removed + Cardinality(S \ T) =< w.removed
    BY DEF S
  <2> HIDE DEF w
  <2> QED BY <1>1, <1>2, <1>5, <1>6, <1>7, <2>1
<1>9. written = 0 => Place =< l + Cardinality(S \ T) /\ T \subseteq S
  <2>1. w.offset = walk.offset /\ w.scanned = walk.scanned /\ w.forget = walk.forget
        /\ (written = 0 => w.removed =< walk.removed + Cardinality(S \ T) /\ T \subseteq S)
    BY DEF S
  <2> HIDE DEF w
  <2> QED BY <1>1, <1>2, <1>5, <1>6, <2>1
<1>10. /\ Cardinality(Behind(Missing, T, ItemOrder, l)) =< lost
       /\ written = 0 => seen \cap T \subseteq First(T, ItemOrder, l)
  BY <1>8, <1>9, WalkGoesOn DEF S
<1>11. Missing' = Missing BY <1>3 DEF Missing
<1>12. Cardinality(Behind(Missing, There(Walked), ItemOrder, Place)') =< lost'
  BY <1>3, <1>4, <1>10, <1>11
<1>13. WorkOK'
  <2>1. Dated(w.rewrites) BY <1>1 DEF WorkOK, Dated
  <2>2. \A r \in w.rewrites : r.scope = Walked BY <1>1 DEF WorkOK
  <2>3. w.forget \cup Ids(w.rewrites) \subseteq seen' BY <1>1, <1>3 DEF WorkOK, Ids
  <2>4. \A p \in w.folds : /\ p[1].id # p[2].id /\ p[1].id \in seen'
                           /\ p[1].id \notin w.forget \cup Ids(w.rewrites)
    BY <1>1, <1>3 DEF WorkOK, Ids
  <2>5. Cardinality(w.forget) =< w.removed
    <3>1. Cardinality(walk.forget) =< walk.removed BY <1>1 DEF WorkOK
    <3> QED BY <1>1, <1>2, <3>1
  <2> QED BY <2>1, <2>2, <2>3, <2>4, <2>5 DEF WorkOK
<1>14. written' = 0 => UndisturbedOK'
  <2> SUFFICES ASSUME written = 0 PROVE UndisturbedOK'
    BY <1>3
  <2>1. ~repeated' BY <1>1, <1>3 DEF ItemOK, UndisturbedOK
  <2>2. (seen \cap There(Walked))' \subseteq First(There(Walked), ItemOrder, Place)'
    BY <1>3, <1>4, <1>10
  <2>3. ((w.forget \cup Ids(w.rewrites)) \cup {p[1].id : p \in w.folds}) \subseteq There(Walked)'
    OBVIOUS
  <2> QED BY <2>1, <2>2, <2>3 DEF UndisturbedOK
<1>15. ItemOK'
  <2>1. start' \in SUBSET ItemIds /\ seen' \in SUBSET ItemIds BY <1>1, <1>3 DEF ItemOK
  <2>2. w.scanned < Batch => Cardinality(Missing') =< lost'
    BY <1>1, <1>3, <1>11 DEF ItemOK
  <2> QED BY <1>12, <1>13, <1>14, <2>1, <2>2 DEF ItemOK
<1>16. w.kind # "audit" BY <1>2 DEF Kinds
<1>17. lost' \in Nat /\ written' \in Nat /\ seen' \subseteq Int BY <1>3 DEF PagingInv
<1> QED BY <1>15, <1>16, <1>17 DEF PagingInv, WalkOK

(* A walk that ends or fails owes no more than what it has missed.         *)
LEMMA WalkStops ==
  ASSUME PagingInv, walk.at = "work", WorkFrame, IInv', Dated(items'),
         walk' \in ItemWalk, walk'.at \in {"done", "failed"},
         walk'.at = "done" => walk.scanned < Batch,
         walk'.scanned = walk.scanned, walk'.removed = walk.removed, walk'.folds = walk.folds
  PROVE  PagingInv'
<1>1. walk \in ItemWalk /\ ItemOK BY PlaceIs
<1>2. start' = start /\ seen' = seen /\ repeated' = repeated /\ lost' = lost /\ written' = written
  BY DEF WorkFrame
<1>3. walk'.kind \in Kinds /\ walk'.kind # "audit" BY DEF ItemWalk, Kinds
<1>4. Missing' = Missing BY <1>2 DEF Missing
<1>5. written' = 0 => UndisturbedOK' BY <1>1, <1>2 DEF ItemOK, UndisturbedOK
<1>6. start' \in SUBSET ItemIds /\ seen' \in SUBSET ItemIds BY <1>1, <1>2 DEF ItemOK
<1>7. walk'.at = "done" => Cardinality(Missing') =< lost' BY <1>1, <1>2, <1>4 DEF ItemOK
<1>8. walk'.removed + Cardinality(walk'.folds) =< walk'.scanned BY <1>1 DEF ItemOK
<1>9. ItemOK' BY <1>5, <1>6, <1>7, <1>8 DEF ItemOK
<1>10. lost' \in Nat /\ written' \in Nat /\ seen' \subseteq Int BY <1>2 DEF PagingInv
<1> QED BY <1>3, <1>9, <1>10 DEF PagingInv, WalkOK

LEMMA FoldOneKeeps ==
  ASSUME PagingInv, FoldOne
  PROVE  PagingInv'
<1>1. walk.at = "work" /\ WorkFrame BY DEF FoldOne, WorkFrame
<1>2. PICK p \in walk.folds :
        LET rest == [walk EXCEPT !.folds = @ \ {p}] IN
        IF Found(p[2].id) = {} THEN walk' = rest /\ UNCHANGED vars
        ELSE LET t == [Writing("Merged", {p[1].id, p[2].id}) EXCEPT
                         !.evictions = {p[1].id},
                         !.merge = {[target |-> p[2].id, body |-> p[2].body,
                                     tags |-> p[1].tags, pending |-> FALSE,
                                     embedded |-> TRUE]}] IN
             /\ Mint
             /\ Apply(t, minted + 1)
             /\ walk' = [rest EXCEPT !.removed = @ + 1]
  BY DEF FoldOne
<1>3. walk \in ItemWalk /\ ItemOK /\ WorkOK BY <1>1, PlaceIs
<1>4. /\ walk.removed \in Nat /\ walk.scanned \in Nat
      /\ walk.folds = {p} /\ p \in ItemRow \X ItemRow
  BY <1>3 DEF ItemWalk, AtMostOne
<1>5. Cardinality(walk.folds) = 1 /\ Cardinality({}) = 0
  BY <1>4, FS_Singleton, FS_EmptySet
<1>6. walk.removed + 1 =< walk.scanned BY <1>3, <1>5 DEF ItemOK
<1>7. /\ p[1].id # p[2].id /\ p[1].id \in seen
      /\ p[1].id \notin walk.forget \cup Ids(walk.rewrites)
  BY <1>3 DEF WorkOK
<1>8. p[1] \in ItemRow /\ p[2] \in ItemRow BY <1>4
<1>9. written = 0 => (walk.forget \cup Ids(walk.rewrites)) \cup {p[1].id} \subseteq There(Walked)
  BY <1>1, <1>3, <1>4 DEF ItemOK, UndisturbedOK
<1>10. CASE Found(p[2].id) = {}
  <2>1. walk' = [walk EXCEPT !.folds = {}] /\ UNCHANGED vars BY <1>2, <1>4, <1>10
  <2>2. /\ walk' \in ItemWalk /\ walk'.at = "work" /\ walk'.offset = walk.offset
        /\ walk'.scanned = walk.scanned /\ walk'.removed = walk.removed
        /\ walk'.forget = walk.forget /\ walk'.rewrites = walk.rewrites /\ walk'.folds = {}
    BY <1>1, <1>3, <2>1 DEF ItemWalk, AtMostOne
  <2>3. IInv' BY <2>1, StutterKeeps DEF PagingInv
  <2>4. items' = items BY <2>1 DEF vars, tables
  <2>5. Dated(items') BY <2>4 DEF PagingInv
  <2>6. PICK T : T = There(Walked)' OBVIOUS
  <2>7. T = There(Walked) BY <2>4, <2>6 DEF There
  <2>8. IsFiniteSet(T) BY <2>7, RowsOfScope DEF PagingInv
  <2>9. There(Walked) \ T = {} BY <2>7
  <2>10. Cardinality(There(Walked) \ T) = 0 BY <1>5, <2>9
  <2>11. Cardinality(walk'.folds) = 0 BY <1>5, <2>2
  <2>12. walk.removed + Cardinality(There(Walked) \ T) = walk'.removed
         /\ walk'.removed + Cardinality(walk'.folds) =< walk.scanned
         /\ walk.removed =< walk'.removed
    BY <1>4, <1>6, <2>2, <2>10, <2>11
  <2>13. written = 0 =>
           (walk'.forget \cup Ids(walk'.rewrites)) \cup {x[1].id : x \in walk'.folds} \subseteq T
    BY <1>9, <2>2, <2>7
  <2>14. written = 0 => walk'.removed =< walk.removed + Cardinality(There(Walked) \ T)
    BY <1>4, <2>2, <2>10
  <2> QED
    BY <1>1, <2>2, <2>3, <2>5, <2>6, <2>7, <2>8, <2>9, <2>12, <2>13, <2>14, StillAtWork
<1>11. CASE Found(p[2].id) # {}
  <2> DEFINE m == [target |-> p[2].id, body |-> p[2].body, tags |-> p[1].tags,
                   pending |-> FALSE, embedded |-> TRUE]
  <2>1. PICK t : t = [Writing("Merged", {p[1].id, p[2].id}) EXCEPT
                        !.evictions = {p[1].id}, !.merge = {m}]
    OBVIOUS
  <2>2. Mint /\ Apply(t, minted + 1)
        /\ walk' = [[walk EXCEPT !.folds = @ \ {p}] EXCEPT !.removed = @ + 1]
    BY <1>2, <1>11, <2>1
  <2>3. t = [scope |-> Walked, upsert |-> {}, merge |-> {m}, evictions |-> {p[1].id},
             auditScope |-> Walked, event |-> "Merged", refs |-> {p[1].id, p[2].id},
             auditMeta |-> AnyAuditMeta, key |-> {}, digest |-> CHOOSE b \in Bodies : TRUE]
    BY <2>1 DEF Writing
  <2>4. m \in MergeWrite /\ {p[1].id} \in SUBSET ItemIds /\ {p[1].id, p[2].id} \in SUBSET ItemIds
    BY <1>8 DEF ItemRow, MergeWrite
  <2>5. {m} \in AtMostOne(MergeWrite) /\ {} \in AtMostOne(ItemWrite) BY <2>4 DEF AtMostOne
  <2>6. m.target = p[2].id /\ m.pending = FALSE /\ m.embedded = TRUE OBVIOUS
  <2> HIDE DEF m
  <2>7. "Merged" \in Events BY DEF Events
  <2>8. t \in SoundTransactions /\ OwnWrite(t, {p[1].id}, {}, {m}) /\ Prior(t) = {}
    BY <2>3, <2>4, <2>5, <2>7, OwnIsSound, ZenonT(40)
  <2>9. Dated({}) BY DEF Dated
  <2>10. Commits(t)
    <3>1. t.scope = Walked /\ t.auditScope = Walked /\ t.upsert = {} /\ t.merge = {m}
          /\ t.evictions = {p[1].id}
      BY <2>8 DEF OwnWrite
    <3>2. IsValid(t) BY <2>6, <3>1 DEF IsValid
    <3>3. PICK q \in InScope(items, Walked) : q.id = p[2].id BY <1>11 DEF Found
    <3>4. q \notin Victims(t) /\ q \in items /\ q.scope = Walked BY <1>7, <3>1, <3>3 DEF Victims, InScope
    <3>5. q \in Targets(t) BY <2>6, <3>1, <3>3, <3>4 DEF Targets, Kept, InScope
    <3> QED BY <2>8, <3>1, <3>2, <3>5 DEF Commits, KeyTaken, TargetMissing
  <2>11. PICK T : T = There(Walked)' OBVIOUS
  <2>12. /\ IInv' /\ Dated(items') /\ IsFiniteSet(T)
         /\ T = (There(Walked) \ {p[1].id}) \cup Ids({})
    BY <2>2, <2>8, <2>9, <2>10, <2>11, OwnWriteKeeps
  <2>13. T = There(Walked) \ {p[1].id} BY <2>12 DEF Ids
  <2>14. There(Walked) \ T = There(Walked) \cap {p[1].id} BY <2>13
  <2>15. Cardinality(There(Walked) \ T) \in 0..1
         /\ (p[1].id \in There(Walked) => Cardinality(There(Walked) \ T) = 1)
    <3>1. CASE p[1].id \in There(Walked)
      <4>1. There(Walked) \ T = {p[1].id} BY <2>14, <3>1
      <4>2. Cardinality({p[1].id}) = 1 BY FS_Singleton
      <4> QED BY <4>1, <4>2
    <3>2. CASE p[1].id \notin There(Walked)
      <4>1. There(Walked) \ T = {} BY <2>14, <3>2
      <4> QED BY <1>5, <3>2, <4>1
    <3> QED BY <3>1, <3>2
  <2>16. walk' = [walk EXCEPT !.folds = {}, !.removed = @ + 1] BY <1>3, <1>4, <2>2 DEF ItemWalk
  <2>17. /\ walk' \in ItemWalk /\ walk'.at = "work" /\ walk'.offset = walk.offset
         /\ walk'.scanned = walk.scanned /\ walk'.removed = walk.removed + 1
         /\ walk'.forget = walk.forget /\ walk'.rewrites = walk.rewrites /\ walk'.folds = {}
    <3>1. PICK n \in Nat : n = walk.removed + 1 BY <1>4
    <3>2. walk' = [walk EXCEPT !.folds = {}, !.removed = n] BY <2>16, <3>1
    <3>3. {} \in AtMostOne(ItemRow \X ItemRow) BY DEF AtMostOne
    <3> QED BY <1>1, <1>3, <3>1, <3>2, <3>3 DEF ItemWalk
  <2>18. Cardinality(walk'.folds) = 0 BY <1>5, <2>17
  <2>19. /\ walk.removed + Cardinality(There(Walked) \ T) =< walk'.removed
         /\ walk'.removed + Cardinality(walk'.folds) =< walk.scanned
         /\ walk.removed =< walk'.removed
    BY <1>4, <1>6, <2>15, <2>17, <2>18
  <2>20. There(Walked) \ T \subseteq seen BY <1>7, <2>14
  <2>21. written = 0 =>
           /\ T \subseteq There(Walked)
           /\ walk'.removed =< walk.removed + Cardinality(There(Walked) \ T)
           /\ (walk'.forget \cup Ids(walk'.rewrites)) \cup {x[1].id : x \in walk'.folds} \subseteq T
    <3> SUFFICES ASSUME written = 0
                 PROVE  /\ T \subseteq There(Walked)
                        /\ walk'.removed =< walk.removed + Cardinality(There(Walked) \ T)
                        /\ (walk'.forget \cup Ids(walk'.rewrites)) \cup {x[1].id : x \in walk'.folds}
                             \subseteq T
      OBVIOUS
    <3>1. walk'.removed =< walk.removed + Cardinality(There(Walked) \ T)
      BY <1>4, <1>9, <2>15, <2>17
    <3>2. (walk.forget \cup Ids(walk.rewrites)) \subseteq T BY <1>7, <1>9, <2>13
    <3> QED BY <2>13, <2>17, <3>1, <3>2
  <2> QED BY <1>1, <2>11, <2>12, <2>17, <2>19, <2>20, <2>21, StillAtWork
<1> QED BY <1>10, <1>11

(* Writing a row again puts it where it was.                               *)
LEMMA RewritingKeeps ==
  ASSUME PagingInv, walk.at = "work", NEW event \in Events,
         NEW r \in ItemRow, r.scope = Walked, r.meta.created = Created(r.id),
         NEW t, t = Rewriting(event, r), Mint, Apply(t, minted + 1)
  PROVE  /\ IInv' /\ Dated(items')
         /\ There(Walked)' \in SUBSET ItemIds /\ IsFiniteSet(There(Walked)')
         /\ Commits(t) => There(Walked)' = There(Walked) \cup {r.id}
         /\ ~Commits(t) => There(Walked)' = There(Walked)
<1> DEFINE w == [id |-> r.id, scope |-> r.scope, body |-> r.body, tags |-> r.tags,
                 meta |-> r.meta, pending |-> FALSE, embedded |-> TRUE]
<1>1. t = [scope |-> Walked, upsert |-> {w}, merge |-> {}, evictions |-> {r.id},
           auditScope |-> Walked, event |-> event, refs |-> {r.id},
           auditMeta |-> AnyAuditMeta, key |-> {}, digest |-> CHOOSE b \in Bodies : TRUE]
  BY DEF Rewriting, Writing
<1>2. w \in ItemWrite /\ {r.id} \in SUBSET ItemIds
  BY DEF ItemRow, ItemWrite
<1>3. w.id = r.id /\ w.meta = r.meta /\ (w.pending <=> FALSE) /\ (w.embedded <=> TRUE) OBVIOUS
<1>4. Paired(w)
  <2>1. w.pending = FALSE /\ w.embedded = TRUE OBVIOUS
  <2> QED BY <2>1 DEF Paired
<1> HIDE DEF w
<1>5. /\ {w} \in AtMostOne(ItemWrite) /\ {} \in AtMostOne(MergeWrite)
      /\ \A x \in {w} : Paired(x)
  BY <1>2, <1>4 DEF AtMostOne
<1>6. Dated({w}) BY <1>3 DEF Dated
<1>7. t \in SoundTransactions /\ OwnWrite(t, {r.id}, {w}, {})
  <2>1. PICK U : U = {w} OBVIOUS
  <2>2. PICK E : E = {r.id} OBVIOUS
  <2>3. PICK M : M = {} OBVIOUS
  <2>4. /\ U \in AtMostOne(ItemWrite) /\ (\A x \in U : Paired(x))
        /\ M \in AtMostOne(MergeWrite) /\ E \in SUBSET ItemIds
    BY <1>2, <1>5, <2>1, <2>2, <2>3
  <2>5. t = [scope |-> Walked, upsert |-> U, merge |-> M, evictions |-> E,
             auditScope |-> Walked, event |-> event, refs |-> E,
             auditMeta |-> AnyAuditMeta, key |-> {}, digest |-> CHOOSE b \in Bodies : TRUE]
    BY <1>1, <2>1, <2>2, <2>3
  <2>6. t \in SoundTransactions /\ OwnWrite(t, E, U, M) BY <2>4, <2>5, OwnIsSound
  <2> QED BY <2>1, <2>2, <2>3, <2>6
<1>8. /\ IInv' /\ Dated(items')
      /\ There(Walked)' \in SUBSET ItemIds /\ IsFiniteSet(There(Walked)')
      /\ Commits(t) => There(Walked)' = (There(Walked) \ {r.id}) \cup Ids({w})
      /\ ~Commits(t) => There(Walked)' = There(Walked)
  BY <1>6, <1>7, OwnWriteKeeps
<1>9. Ids({w}) = {r.id} BY <1>3 DEF Ids
<1> QED BY <1>8, <1>9

LEMMA RewriteOneKeeps ==
  ASSUME PagingInv, RewriteOne
  PROVE  PagingInv'
<1>1. walk.at = "work" /\ walk.folds = {} /\ WorkFrame BY DEF RewriteOne, WorkFrame
<1>2. PICK r \in walk.rewrites :
        LET rest == [walk EXCEPT !.rewrites = @ \ {r}]
            failed == [walk EXCEPT !.at = "failed"] IN
        IF walk.kind = "reembed"
        THEN /\ Mint
             /\ Apply(Rewriting("Reembedded", r), minted + 1)
             /\ walk' = IF Commits(Rewriting("Reembedded", r)) THEN rest ELSE failed
        ELSE IF Found(r.id) = {} THEN walk' = failed /\ UNCHANGED vars
        ELSE /\ Mint
             /\ \E q \in Found(r.id) : Apply(Rewriting("Admitted", q), minted + 1)
             /\ walk' = rest
  BY DEF RewriteOne
<1>3. walk \in ItemWalk /\ ItemOK /\ WorkOK BY <1>1, PlaceIs
<1>4. /\ walk.removed \in Nat /\ walk.scanned \in Nat /\ r \in ItemRow /\ r.id \in ItemIds
  BY <1>3 DEF ItemWalk, ItemRow
<1>5. r.scope = Walked /\ r.meta.created = Created(r.id) /\ r.id \in seen
  BY <1>3 DEF WorkOK, Dated, Ids
<1>6. Cardinality({}) = 0 BY FS_EmptySet
<1>7. walk.removed + Cardinality(walk.folds) =< walk.scanned BY <1>3 DEF ItemOK
<1>8. written = 0 => (walk.forget \cup Ids(walk.rewrites)) \subseteq There(Walked)
  BY <1>1, <1>3 DEF ItemOK, UndisturbedOK
<1>9. written = 0 => r.id \in There(Walked) BY <1>8 DEF Ids
<1>10. There(Walked) \in SUBSET ItemIds /\ IsFiniteSet(There(Walked))
  BY RowsOfScope DEF PagingInv
<1>11. ASSUME walk' = [walk EXCEPT !.rewrites = @ \ {r}], IInv', Dated(items'),
              There(Walked)' \in {There(Walked), There(Walked) \cup {r.id}}
       PROVE  PagingInv'
  <2>1. PICK T : T = There(Walked)' OBVIOUS
  <2>2. T = There(Walked) \/ T = There(Walked) \cup {r.id} BY <1>11, <2>1
  <2>3. IsFiniteSet(T) BY <1>10, <2>2, FS_AddElement
  <2>4. There(Walked) \ T = {} BY <2>2
  <2>5. Cardinality(There(Walked) \ T) = 0 BY <1>6, <2>4
  <2>6. /\ walk' \in ItemWalk /\ walk'.at = "work" /\ walk'.offset = walk.offset
        /\ walk'.scanned = walk.scanned /\ walk'.removed = walk.removed
        /\ walk'.forget = walk.forget /\ walk'.rewrites = walk.rewrites \ {r}
        /\ walk'.folds = {}
    BY <1>1, <1>3, <1>11 DEF ItemWalk
  <2>7. /\ walk.removed + Cardinality(There(Walked) \ T) = walk'.removed
        /\ walk'.removed + Cardinality(walk'.folds) =< walk.scanned
        /\ walk.removed =< walk'.removed
    BY <1>1, <1>4, <1>7, <2>5, <2>6
  <2>8. written = 0 => T = There(Walked) BY <1>9, <2>2
  <2>9. written = 0 =>
          /\ T \subseteq There(Walked)
          /\ walk'.removed =< walk.removed + Cardinality(There(Walked) \ T)
          /\ (walk'.forget \cup Ids(walk'.rewrites)) \cup {x[1].id : x \in walk'.folds} \subseteq T
    <3>1. walk'.removed =< walk.removed + Cardinality(There(Walked) \ T)
      BY <1>4, <2>5, <2>6
    <3>2. Ids(walk'.rewrites) \subseteq Ids(walk.rewrites) BY <2>6 DEF Ids
    <3> QED BY <1>8, <2>6, <2>8, <3>1, <3>2
  <2> QED
    BY <1>1, <1>11, <2>1, <2>3, <2>4, <2>6, <2>7, <2>9, StillAtWork
<1>12. ASSUME walk' = [walk EXCEPT !.at = "failed"], IInv', Dated(items')
       PROVE  PagingInv'
  <2>1. /\ walk' \in ItemWalk /\ walk'.at = "failed" /\ walk'.scanned = walk.scanned
        /\ walk'.removed = walk.removed /\ walk'.folds = walk.folds
    BY <1>3, <1>12 DEF ItemWalk
  <2> QED BY <1>1, <1>12, <2>1, WalkStops
<1>13. CASE walk.kind = "reembed"
  <2>1. PICK t : t = Rewriting("Reembedded", r) OBVIOUS
  <2>2. /\ Mint /\ Apply(t, minted + 1)
        /\ Commits(t) => walk' = [walk EXCEPT !.rewrites = @ \ {r}]
        /\ ~Commits(t) => walk' = [walk EXCEPT !.at = "failed"]
    BY <1>2, <1>13, <2>1
  <2>3. "Reembedded" \in Events BY DEF Events
  <2>4. /\ IInv' /\ Dated(items')
        /\ Commits(t) => There(Walked)' = There(Walked) \cup {r.id}
    BY <1>1, <1>4, <1>5, <2>1, <2>2, <2>3, RewritingKeeps
  <2> QED BY <1>11, <1>12, <2>2, <2>4
<1>14. CASE walk.kind # "reembed" /\ Found(r.id) = {}
  <2>1. walk' = [walk EXCEPT !.at = "failed"] /\ UNCHANGED vars BY <1>2, <1>14
  <2>2. IInv' BY <2>1, StutterKeeps DEF PagingInv
  <2>3. items' = items BY <2>1 DEF vars, tables
  <2>4. Dated(items') BY <2>3 DEF PagingInv
  <2> QED BY <1>12, <2>1, <2>2, <2>4
<1>15. CASE walk.kind # "reembed" /\ Found(r.id) # {}
  <2>1. Mint /\ walk' = [walk EXCEPT !.rewrites = @ \ {r}] BY <1>2, <1>15
  <2>2. PICK q \in Found(r.id) : Apply(Rewriting("Admitted", q), minted + 1)
    BY <1>2, <1>15
  <2>3. q \in items /\ q.scope = Walked /\ q.id = r.id BY DEF Found, InScope
  <2>4. q \in ItemRow /\ q.meta.created = Created(q.id)
    BY <2>3 DEF PagingInv, IInv, TypeOK, Dated
  <2>5. PICK t : t = Rewriting("Admitted", q) OBVIOUS
  <2>6. "Admitted" \in Events BY DEF Events
  <2>7. /\ IInv' /\ Dated(items')
        /\ Commits(t) => There(Walked)' = There(Walked) \cup {q.id}
        /\ ~Commits(t) => There(Walked)' = There(Walked)
    BY <1>1, <2>1, <2>2, <2>3, <2>4, <2>5, <2>6, RewritingKeeps
  <2> QED BY <1>11, <2>1, <2>3, <2>7
<1> QED BY <1>13, <1>14, <1>15

LEMMA EndPageKeeps ==
  ASSUME PagingInv, EndPage
  PROVE  PagingInv'
<1>1. walk.at = "work" /\ walk.folds = {} /\ walk.rewrites = {} /\ WorkFrame
  BY DEF EndPage, WorkFrame
<1>2. /\ walk \in ItemWalk /\ ItemOK /\ WorkOK
      /\ IsFiniteSet(walk.forget) /\ Cardinality(walk.forget) \in Nat
      /\ Place = (walk.offset + walk.scanned) - (walk.removed - Cardinality(walk.forget))
      /\ Place \in Nat
  BY <1>1, PlaceIs
<1>3. /\ walk.offset \in Nat /\ walk.scanned \in Nat /\ walk.removed \in Nat
      /\ walk.forget \in SUBSET ItemIds /\ walk.kind \in Kinds
  BY <1>2 DEF ItemWalk
<1>4. Cardinality({}) = 0 BY FS_EmptySet
<1>5. walk.removed =< walk.scanned BY <1>1, <1>2, <1>3, <1>4 DEF ItemOK
<1>6. walk.forget \subseteq seen BY <1>2 DEF WorkOK
<1>7. There(Walked) \in SUBSET ItemIds /\ IsFiniteSet(There(Walked))
  BY RowsOfScope DEF PagingInv
<1>8. /\ IInv' /\ Dated(items')
      /\ There(Walked)' = There(Walked) \ walk.forget
  <2>1. CASE walk.forget = {} /\ ~walk.released
    <3>1. UNCHANGED vars BY <2>1 DEF EndPage
    <3>2. IInv' BY <3>1, StutterKeeps DEF PagingInv
    <3>3. items' = items BY <3>1 DEF vars, tables
    <3>4. Dated(items') BY <3>3 DEF PagingInv
    <3>5. There(Walked)' = There(Walked) BY <3>3 DEF There
    <3> QED BY <2>1, <3>2, <3>4, <3>5
  <2>2. CASE ~(walk.forget = {} /\ ~walk.released)
    <3>1. PICK t : t = [Writing("MaintenanceRun", walk.forget) EXCEPT !.evictions = walk.forget]
      OBVIOUS
    <3>2. Mint /\ Apply(t, minted + 1) BY <2>2, <3>1 DEF EndPage
    <3>3. t = [scope |-> Walked, upsert |-> {}, merge |-> {}, evictions |-> walk.forget,
               auditScope |-> Walked, event |-> "MaintenanceRun", refs |-> walk.forget,
               auditMeta |-> AnyAuditMeta, key |-> {}, digest |-> CHOOSE b \in Bodies : TRUE]
      BY <3>1 DEF Writing
    <3>4. {} \in AtMostOne(ItemWrite) /\ {} \in AtMostOne(MergeWrite) BY DEF AtMostOne
    <3>5. "MaintenanceRun" \in Events BY DEF Events
    <3>6. t \in SoundTransactions /\ OwnWrite(t, walk.forget, {}, {}) /\ Prior(t) = {}
      BY <1>3, <3>3, <3>4, <3>5, OwnIsSound
    <3>7. Dated({}) BY DEF Dated
    <3>8. Commits(t)
      BY <3>6 DEF OwnWrite, Commits, IsValid, KeyTaken, TargetMissing
    <3>9. /\ IInv' /\ Dated(items')
          /\ There(Walked)' = (There(Walked) \ walk.forget) \cup Ids({})
      BY <3>2, <3>6, <3>7, <3>8, OwnWriteKeeps
    <3>10. There(Walked)' = There(Walked) \ walk.forget BY <3>9 DEF Ids
    <3> QED BY <3>9, <3>10
  <2> QED BY <2>1, <2>2
<1>9. CASE walk.scanned < Batch
  <2>1. walk' = [walk EXCEPT !.at = "done"] BY <1>9 DEF EndPage
  <2>2. /\ walk' \in ItemWalk /\ walk'.at = "done" /\ walk'.scanned = walk.scanned
        /\ walk'.removed = walk.removed /\ walk'.folds = walk.folds
    BY <1>2, <2>1 DEF ItemWalk
  <2> QED BY <1>1, <1>8, <1>9, <2>2, WalkStops
<1>10. CASE ~(walk.scanned < Batch)
  <2> DEFINE l == walk.offset + (walk.scanned - walk.removed)
             S == There(Walked)
  <2>1. l \in Nat /\ NextOffset(walk) = l BY <1>3, <1>5 DEF NextOffset, AtLeastZero
  <2>2. walk' = [walk EXCEPT !.at = "page", !.offset = l] BY <1>10, <2>1 DEF EndPage
  <2>3. /\ walk' \in ItemWalk /\ walk'.at = "page" /\ walk'.offset = l
        /\ walk'.scanned = walk.scanned /\ walk'.removed = walk.removed
        /\ walk'.folds = {} /\ walk'.kind \in Kinds
    <3> HIDE DEF l
    <3> QED BY <1>1, <1>2, <1>3, <2>1, <2>2 DEF ItemWalk
  <2>4. PICK T : T = There(Walked)' OBVIOUS
  <2>5. T = S \ walk.forget /\ S \ T = S \cap walk.forget BY <1>8, <2>4
  <2>6. IsFiniteSet(T) BY <1>7, <2>5, SetMinusFinite
  <2>7. S \ T \in SUBSET walk.forget BY <2>5
  <2>8. Cardinality(S \ T) \in Nat /\ Cardinality(S \ T) =< Cardinality(walk.forget)
    <3> HIDE DEF S
    <3> QED BY <1>2, <2>7, FS_Subset, FS_CardinalityType
  <2>9. l + Cardinality(S \ T) =< Place BY <1>2, <1>3, <2>8
  <2>10. written = 0 => T \subseteq S /\ Place =< l + Cardinality(S \ T)
    <3>1. written = 0 => walk.forget \subseteq S BY <1>1, <1>2 DEF ItemOK, UndisturbedOK
    <3>2. written = 0 => S \ T = walk.forget BY <2>5, <3>1
    <3> HIDE DEF S
    <3>3. l + Cardinality(walk.forget) = Place BY <1>2, <1>3
    <3>4. written = 0 => l + Cardinality(S \ T) = Place BY <3>2, <3>3
    <3>5. T \subseteq S BY <2>5
    <3> HIDE DEF l
    <3> QED BY <1>2, <3>4, <3>5
  <2>11. S \ T \subseteq seen BY <1>6, <2>7
  <2>12. /\ Cardinality(Behind(Missing, T, ItemOrder, l)) =< lost
         /\ written = 0 => seen \cap T \subseteq First(T, ItemOrder, l)
    <3>1. l \in Nat BY <2>1
    <3>2. PICK k \in Nat : k = l BY <3>1
    <3> HIDE DEF l
    <3>3. /\ Cardinality(Behind(Missing, T, ItemOrder, k)) =< lost
          /\ written = 0 /\ T \subseteq There(Walked)
             /\ Place =< k + Cardinality(There(Walked) \ T) =>
               seen \cap T \subseteq First(T, ItemOrder, k)
      BY <1>1, <2>6, <2>9, <2>11, <3>2, WalkGoesOn DEF S
    <3> QED BY <2>10, <3>2, <3>3 DEF S
  <2>13. start' = start /\ seen' = seen /\ repeated' = repeated /\ lost' = lost /\ written' = written
    BY <1>1 DEF WorkFrame
  <2>14. Place' = l BY <2>3 DEF Place
  <2>15. Missing' = Missing BY <2>13 DEF Missing
  <2> HIDE DEF l
  <2>16. Cardinality(Behind(Missing, There(Walked), ItemOrder, Place)') =< lost'
    BY <2>4, <2>12, <2>13, <2>14, <2>15
  <2>17. written' = 0 => UndisturbedOK'
    <3> SUFFICES ASSUME written = 0 PROVE UndisturbedOK'
      BY <2>13
    <3>1. ~repeated' BY <1>2, <2>13 DEF ItemOK, UndisturbedOK
    <3>2. (seen \cap There(Walked))' \subseteq First(There(Walked), ItemOrder, Place)'
      BY <2>4, <2>12, <2>13, <2>14
    <3> QED BY <2>3, <3>1, <3>2 DEF UndisturbedOK
  <2>18. start' \in SUBSET ItemIds /\ seen' \in SUBSET ItemIds BY <1>2, <2>13 DEF ItemOK
  <2>19. walk'.removed + Cardinality(walk'.folds) =< walk'.scanned
    BY <1>3, <1>4, <1>5, <2>3
  <2>20. ItemOK' BY <2>3, <2>16, <2>17, <2>18, <2>19 DEF ItemOK
  <2>21. lost' \in Nat /\ written' \in Nat /\ seen' \subseteq Int /\ walk'.kind # "audit"
    BY <2>3, <2>13 DEF PagingInv, Kinds
  <2> QED BY <1>8, <2>3, <2>20, <2>21 DEF PagingInv, WalkOK
<1> QED BY <1>9, <1>10

LEMMA ReadPageKeeps ==
  ASSUME PagingInv, ReadPage
  PROVE  PagingInv'
<1> DEFINE S == There(Walked)
<1>1. walk.kind \in Kinds /\ walk.at = "page" BY DEF ReadPage
<1>2. PICK page : page = List(Walked, walk.offset, Batch) OBVIOUS
<1>3. PICK given : given = RangeOf(IdsOf(page)) OBVIOUS
<1>4. PICK w \in Work(walk.kind, RangeOf(page)) :
        walk' = [walk EXCEPT
          !.at = IF page = <<>> THEN "done" ELSE "work",
          !.scanned = Len(page), !.removed = Cardinality(w.forget),
          !.folds = w.folds, !.rewrites = w.rewrites, !.forget = w.forget,
          !.released = walk.kind = "maintain" /\ w.rewrites # {}]
  BY <1>2 DEF ReadPage
<1>5. seen' = seen \cup given /\ repeated' = (repeated \/ seen \cap given # {})
      /\ start' = start /\ Reading
  BY <1>2, <1>3 DEF ReadPage, Given
<1>6. walk \in ItemWalk /\ ItemOK /\ IInv /\ Dated(items)
  BY <1>1, WalkKinds DEF PagingInv
<1>7. PICK o \in Nat : o = walk.offset BY <1>6 DEF ItemWalk
<1>8. PICK sc : sc = Len(page) OBVIOUS
<1>9. /\ given = Placed(S, ItemOrder, o, o + Batch) /\ IsFiniteSet(given)
      /\ RangeOf(page) \in SUBSET InScope(items, Walked) /\ Ids(RangeOf(page)) = given
      /\ sc \in Nat /\ sc = Cardinality(given) /\ sc =< Batch
      /\ sc < Batch => Cardinality(S) =< o + sc
      /\ page = <<>> => sc = 0
      /\ \A i \in given : Rank(S, ItemOrder, i) < o + sc
  BY <1>2, <1>3, <1>6, <1>7, <1>8, ItemPageIs
<1>10. /\ InScope(items, Walked) \in SUBSET ItemRow /\ Keyed(InScope(items, Walked))
       /\ S \in SUBSET ItemIds /\ IsFiniteSet(S)
  BY <1>6, RowsOfScope
<1>11. PICK batch : batch = RangeOf(page) OBVIOUS
<1>12. batch \in SUBSET ItemRow /\ Keyed(batch) /\ \A r \in batch : r \in items /\ r.scope = Walked
  <2>1. batch \in SUBSET InScope(items, Walked) BY <1>9, <1>11
  <2>2. IsFiniteSet(batch) BY <1>10, <2>1, FS_Subset DEF Keyed
  <2> QED BY <1>10, <2>1, <2>2 DEF Keyed, InScope
<1>13. /\ w.folds \in AtMostOne(batch \X batch)
       /\ w.rewrites \in SUBSET batch /\ w.forget \in SUBSET given
       /\ \A p \in w.folds :
            /\ p[1].id # p[2].id /\ p[1].id \in given
            /\ p[1].id \notin w.forget \cup Ids(w.rewrites)
       /\ Cardinality(w.forget) \in Nat
       /\ Cardinality(w.forget) + Cardinality(w.folds) =< sc
  <2>1. PICK kind : kind = walk.kind OBVIOUS
  <2>2. kind \in Kinds /\ w \in Work(kind, batch) BY <1>1, <1>4, <1>11, <2>1
  <2>3. /\ w.folds \in AtMostOne(batch \X batch)
        /\ w.rewrites \in SUBSET batch /\ w.forget \in SUBSET Ids(batch)
        /\ \A p \in w.folds :
             /\ p[1].id # p[2].id /\ p[1].id \in Ids(batch)
             /\ p[1].id \notin w.forget \cup Ids(w.rewrites)
        /\ Cardinality(w.forget) \in Nat
        /\ Cardinality(w.forget) + Cardinality(w.folds) =< Cardinality(Ids(batch))
    BY <1>12, <2>2, WorkShape
  <2>4. Ids(batch) = given BY <1>9, <1>11
  <2> QED BY <1>9, <2>3, <2>4
<1>14. given \in SUBSET S /\ given \in SUBSET ItemIds BY <1>9, <1>10 DEF Placed
<1>15. Batch \in Nat /\ Batch # 0 BY PagingAssumption, ReadsAssumption
<1>16. /\ walk' \in ItemWalk /\ walk'.kind = walk.kind /\ walk'.offset = o
       /\ walk'.at = (IF page = <<>> THEN "done" ELSE "work")
       /\ walk'.scanned = sc /\ walk'.removed = Cardinality(w.forget)
       /\ walk'.folds = w.folds /\ walk'.rewrites = w.rewrites /\ walk'.forget = w.forget
  <2>1. w.folds \in AtMostOne(ItemRow \X ItemRow) BY <1>12, <1>13 DEF AtMostOne
  <2>2. w.rewrites \in SUBSET ItemRow /\ w.forget \in SUBSET ItemIds BY <1>12, <1>13, <1>14
  <2>3. PICK at \in {"done", "work"} : at = IF page = <<>> THEN "done" ELSE "work" OBVIOUS
  <2>4. PICK released \in BOOLEAN :
          released = (walk.kind = "maintain" /\ w.rewrites # {})
    OBVIOUS
  <2>5. walk' = [walk EXCEPT !.at = at, !.scanned = sc, !.removed = Cardinality(w.forget),
          !.folds = w.folds, !.rewrites = w.rewrites, !.forget = w.forget,
          !.released = released]
    BY <1>4, <1>8, <2>3, <2>4
  <2>6. /\ walk'.kind = walk.kind /\ walk'.offset = o /\ walk'.at = at
        /\ walk'.scanned = sc /\ walk'.removed = Cardinality(w.forget)
        /\ walk'.folds = w.folds /\ walk'.rewrites = w.rewrites /\ walk'.forget = w.forget
    BY <1>6, <1>7, <2>5 DEF ItemWalk
  <2>7. walk' \in ItemWalk BY <1>6, <1>9, <1>13, <2>1, <2>2, <2>5 DEF ItemWalk
  <2> QED BY <2>3, <2>6, <2>7
<1> HIDE DEF S
<1>17. ASSUME NEW i \in S \ given, Rank(S, ItemOrder, i) < o + sc
       PROVE  i \in First(S, ItemOrder, o)
  <2>1. S \in SUBSET S OBVIOUS
  <2>2. Rank(S, ItemOrder, i) \in Nat BY <1>10, <2>1, RankWithin
  <2>3. ~(o =< Rank(S, ItemOrder, i) /\ Rank(S, ItemOrder, i) < o + Batch)
    BY <1>9, <1>17 DEF Placed
  <2>4. Rank(S, ItemOrder, i) < o BY <1>9, <1>15, <1>17, <2>2, <2>3
  <2> QED BY <2>4 DEF First
<1>18. PICK B : B = Behind(Missing, S, ItemOrder, o) OBVIOUS
<1>19. IsFiniteSet(B) /\ Cardinality(B) =< lost
  <2>1. StrictOrder(ItemOrder, S) BY <1>10, ItemOrderIsStrict
  <2>2. IsFiniteSet(Missing) BY <1>6, StoreAssumption, FS_Subset DEF ItemOK, Missing
  <2>3. IsFiniteSet(B) BY <1>10, <1>18, <2>1, <2>2, BehindByRemoval
  <2>4. Place = o BY <1>1, <1>7 DEF Place
  <2> QED BY <1>1, <1>6, <1>18, <2>3, <2>4 DEF ItemOK, S
<1>20. Missing' = Missing \ given BY <1>5 DEF Missing
<1>21. lost' = lost /\ lost \in Nat /\ written' = written /\ items' = items
  BY <1>5 DEF Reading, vars, tables, PagingInv
<1>22. There(Walked)' = S BY <1>21 DEF There, S
<1>23. Behind(Missing', S, ItemOrder, o + sc) \in SUBSET B
  BY <1>17, <1>18, <1>20 DEF Behind, First
<1>24. sc < Batch => Missing' \in SUBSET B
  <2> SUFFICES ASSUME sc < Batch, NEW i \in Missing', i \in S PROVE i \in B
    BY <1>18, <1>20 DEF Behind
  <2>1. StrictOrder(ItemOrder, S) BY <1>10, ItemOrderIsStrict
  <2>2. Rank(S, ItemOrder, i) \in 0..(Cardinality(S) - 1) BY <1>10, <2>1, RankGrows
  <2>3. Cardinality(S) \in Nat BY <1>10, FS_CardinalityType
  <2>4. Rank(S, ItemOrder, i) < o + sc BY <1>9, <2>2, <2>3
  <2> QED BY <1>17, <1>18, <1>20, <2>4 DEF Behind
<1>25. \A X \in SUBSET B : Cardinality(X) =< lost'
  <2> TAKE X \in SUBSET B
  <2>1. Cardinality(X) =< Cardinality(B) BY <1>19, FS_Subset
  <2>2. IsFiniteSet(X) BY <1>19, FS_Subset
  <2>3. Cardinality(X) \in Nat /\ Cardinality(B) \in Nat BY <1>19, <2>2, FS_CardinalityType
  <2> QED BY <1>19, <1>21, <2>1, <2>3
<1>26. walk'.at = "work" => Place' = o + sc
  <2> SUFFICES ASSUME walk'.at = "work" PROVE Place' = o + sc
    OBVIOUS
  <2>1. Place' = (o + sc) - (Cardinality(w.forget) - Cardinality(w.forget))
    BY <1>16 DEF Place
  <2> QED BY <1>9, <1>13, <2>1
<1>27. walk'.at = "work" =>
         Cardinality(Behind(Missing, There(Walked), ItemOrder, Place)') =< lost'
  BY <1>22, <1>23, <1>25, <1>26
<1>28. walk'.at = "done" \/ (walk'.at = "work" /\ walk'.scanned < Batch) =>
         Cardinality(Missing') =< lost'
  <2>1. walk'.at = "done" => sc < Batch BY <1>9, <1>15, <1>16
  <2> QED BY <1>16, <1>24, <1>25, <2>1
<1>29. WorkOK'
  <2>1. Cardinality(walk'.forget) =< walk'.removed BY <1>13, <1>16
  <2>2. walk'.forget \cup Ids(walk'.rewrites) \subseteq seen'
    <3>1. Ids(w.rewrites) \subseteq given BY <1>9, <1>11, <1>13 DEF Ids
    <3> QED BY <1>5, <1>13, <1>16, <3>1
  <2>3. Dated(walk'.rewrites) BY <1>6, <1>12, <1>13, <1>16 DEF Dated
  <2>4. \A r \in walk'.rewrites : r.scope = Walked BY <1>12, <1>13, <1>16
  <2>5. \A p \in walk'.folds :
          /\ p[1].id # p[2].id /\ p[1].id \in seen'
          /\ p[1].id \notin walk'.forget \cup Ids(walk'.rewrites)
    BY <1>5, <1>13, <1>16
  <2> QED BY <2>1, <2>2, <2>3, <2>4, <2>5 DEF WorkOK
<1>30. written' = 0 => UndisturbedOK'
  <2> SUFFICES ASSUME written = 0 PROVE UndisturbedOK'
    BY <1>21
  <2>1. ~repeated /\ seen \cap S \subseteq First(S, ItemOrder, o)
    <3>1. Place = o BY <1>1, <1>7 DEF Place
    <3> QED BY <1>1, <1>6, <3>1 DEF ItemOK, UndisturbedOK, S
  <2>2. ASSUME NEW i \in First(S, ItemOrder, o)
        PROVE  i \notin given /\ i \in First(S, ItemOrder, o + sc)
    <3>1. S \in SUBSET S OBVIOUS
    <3>2. Rank(S, ItemOrder, i) \in Nat BY <1>10, <3>1, RankWithin
    <3>3. Rank(S, ItemOrder, i) < o /\ i \in S BY DEF First
    <3>4. ~(o =< Rank(S, ItemOrder, i)) BY <3>2, <3>3
    <3>5. Rank(S, ItemOrder, i) < o + sc BY <1>9, <3>2, <3>3
    <3> QED BY <1>9, <3>3, <3>4, <3>5 DEF Placed, First
  <2>3. ~repeated' BY <1>5, <1>14, <2>1, <2>2
  <2>4. seen' \cap S \subseteq First(S, ItemOrder, o + sc)
    <3>1. given \subseteq First(S, ItemOrder, o + sc) BY <1>9, <1>14 DEF First
    <3> QED BY <1>5, <2>1, <2>2, <3>1
  <2>5. walk'.at = "work" =>
          (seen \cap There(Walked))' \subseteq First(There(Walked), ItemOrder, Place)'
    BY <1>22, <1>26, <2>4
  <2>6. (walk'.forget \cup Ids(walk'.rewrites)) \cup {p[1].id : p \in walk'.folds}
          \subseteq There(Walked)'
    <3>1. Ids(w.rewrites) \subseteq given BY <1>9, <1>11, <1>13 DEF Ids
    <3> QED BY <1>13, <1>14, <1>16, <1>22, <3>1
  <2>7. walk'.at # "page" BY <1>16
  <2> QED BY <2>3, <2>5, <2>6, <2>7 DEF UndisturbedOK
<1>31. start' \in SUBSET ItemIds /\ seen' \in SUBSET ItemIds BY <1>5, <1>6, <1>14 DEF ItemOK
<1>32. walk'.removed + Cardinality(walk'.folds) =< walk'.scanned BY <1>13, <1>16
<1>33. walk'.at # "page" BY <1>16
<1>34. ItemOK' BY <1>27, <1>28, <1>29, <1>30, <1>31, <1>32, <1>33 DEF ItemOK
<1>35. seen' \subseteq Int
  <2>1. ItemIds \subseteq Int BY ReadsAssumption
  <2> QED BY <1>31, <2>1
<1>36. walk'.kind # "audit" BY <1>1, <1>16 DEF Kinds
<1> QED BY <1>5, <1>16, <1>34, <1>35, <1>36, ReadingKeeps DEF PagingInv, WalkOK

-----------------------------------------------------------------------------
(* The steps of the others.                                                *)

LEMMA OthersKeep ==
  ASSUME PagingInv, Others
  PROVE  PagingInv'
<1> DEFINE S == There(Walked)
<1>1. /\ DoApply \/ DoImport \/ DoPurge
      /\ walk.at \in {"page", "work"}
      /\ lost' = lost + Cardinality(Removed) /\ written' = written + 1
      /\ start' = IF walk.kind = "audit"
                  THEN {i \in start : \E a \in audit' : a.id = i /\ a.scope = Walked}
                  ELSE start
      /\ walk' = walk /\ seen' = seen /\ repeated' = repeated
  BY DEF Others
<1>2. IInv /\ Dated(items) /\ lost \in Nat /\ written \in Nat /\ seen \subseteq Int
  BY DEF PagingInv
<1>3. IInv' BY <1>1, <1>2, NextKeeps DEF Next
<1>4. Dated(items') BY <1>1, <1>2, CallersKeepDates
<1>5. ScopeOK' BY <1>3, ScopeIsOK, PTL
<1>6. PICK T : T = There(Walked)' OBVIOUS
<1>7. T \in SUBSET ItemIds /\ IsFiniteSet(T) BY <1>5, <1>6 DEF ScopeOK
<1>8. S \in SUBSET ItemIds /\ IsFiniteSet(S) BY <1>2, RowsOfScope
<1>9. Removed = S \ T BY <1>6 DEF Removed, There, InScope, Ids
<1> HIDE DEF S
<1>10. Cardinality(S \ T) \in Nat BY <1>8, SetMinusFinite, FS_CardinalityType
<1>11. lost' = lost + Cardinality(S \ T) BY <1>1, <1>9
<1>12. lost' \in Nat /\ lost =< lost' /\ written' \in Nat /\ written' # 0
  BY <1>1, <1>2, <1>10, <1>11
<1>13. CASE walk.kind = "audit"
  <2>1. AuditOK /\ walk \in AuditWalk BY <1>13, WalkKinds DEF PagingInv
  <2>2. walk.at = "page" BY <1>1, <2>1 DEF AuditWalk
  <2>3. start' \subseteq start BY <1>1, <1>13
  <2>4. ASSUME NEW i \in start'
        PROVE  \E a \in InScope(audit', Walked) : a.id = i /\ AuditMatches(a, walk.filter)
    <3>1. PICK a \in audit' : a.id = i /\ a.scope = Walked BY <1>1, <1>13
    <3>2. PICK b \in InScope(audit, Walked) : b.id = i /\ AuditMatches(b, walk.filter)
      BY <2>1, <2>3 DEF AuditOK
    <3>3. b \in audit /\ i \in Ids(audit) BY <3>2 DEF InScope, Ids
    <3>4. a \in audit BY <1>1, <1>2, <3>1, <3>3, AuditIdsAreFresh
    <3>5. a = b BY <1>2, <3>1, <3>2, <3>3, <3>4 DEF IInv, PrimaryKeys
    <3>6. a \in InScope(audit', Walked) BY <3>1 DEF InScope
    <3> QED BY <3>2, <3>5, <3>6
  <2>5. AuditOK' BY <1>1, <2>1, <2>2, <2>3, <2>4 DEF AuditOK
  <2>6. walk.kind \notin Kinds BY <1>13 DEF Kinds
  <2> QED BY <1>1, <1>2, <1>3, <1>4, <1>12, <2>1, <2>5, <2>6 DEF PagingInv, WalkOK
<1>14. CASE walk.kind # "audit"
  <2>1. walk \in ItemWalk /\ walk.kind \in Kinds
    <3>1. walk # NoWalk BY <1>1 DEF NoWalk
    <3>2. walk \notin AuditWalk BY <1>14 DEF AuditWalk
    <3>3. walk \in ItemWalk BY <3>1, <3>2 DEF PagingInv, WalkOK
    <3> QED BY <3>3 DEF ItemWalk
  <2>2. ItemOK BY <2>1 DEF PagingInv
  <2>3. start' = start BY <1>1, <1>14
  <2>4. Missing' = Missing /\ Place' = Place BY <1>1, <2>3 DEF Missing, Place
  <2>5. Place \in Nat
    <3>1. CASE walk.at = "work" BY <3>1, PlaceIs
    <3>2. CASE walk.at = "page" BY <2>1, <3>2 DEF Place, ItemWalk
    <3> QED BY <1>1, <3>1, <3>2
  <2>6. IsFiniteSet(Missing) /\ Cardinality(Missing) \in Nat
    BY <2>2, StoreAssumption, FS_Subset, FS_CardinalityType DEF ItemOK, Missing
  <2>7. PICK k \in Nat : k = Place BY <2>5
  <2>8. StrictOrder(ItemOrder, S) BY <1>8, ItemOrderIsStrict
  <2>9. /\ IsFiniteSet(Behind(Missing, S, ItemOrder, k))
        /\ IsFiniteSet(Behind(Missing, T, ItemOrder, k))
        /\ Cardinality(Behind(Missing, T, ItemOrder, k)) =<
             Cardinality(Behind(Missing, S, ItemOrder, k)) + Cardinality(S \ T)
    BY <1>7, <1>8, <2>6, <2>8, BehindByRemoval
  <2>10. /\ Cardinality(Behind(Missing, S, ItemOrder, k)) \in Nat
         /\ Cardinality(Behind(Missing, T, ItemOrder, k)) \in Nat
    BY <2>9, FS_CardinalityType
  <2>11. Cardinality(Behind(Missing, S, ItemOrder, k)) =< lost
    BY <1>1, <2>2, <2>7 DEF ItemOK, S
  <2>12. Cardinality(Behind(Missing, T, ItemOrder, k)) =< lost'
    BY <1>2, <1>10, <1>11, <2>9, <2>10, <2>11
  <2>13. Cardinality(Behind(Missing, There(Walked), ItemOrder, Place)') =< lost'
    BY <1>6, <2>4, <2>7, <2>12
  <2>14. walk.at = "work" /\ walk.scanned < Batch => Cardinality(Missing') =< lost'
    BY <1>2, <1>12, <2>2, <2>4, <2>6 DEF ItemOK
  <2>15. WorkOK <=> WorkOK' BY <1>1 DEF WorkOK
  <2>16. ItemOK'
    BY <1>1, <1>12, <2>2, <2>3, <2>13, <2>14, <2>15 DEF ItemOK
  <2> QED BY <1>1, <1>2, <1>3, <1>4, <1>12, <1>14, <2>1, <2>16 DEF PagingInv, WalkOK
<1> QED BY <1>13, <1>14

(* The invariant holds in every state.                                     *)
LEMMA PagingNextKeeps == PagingInv /\ [PagingNext]_pagingVars => PagingInv'
<1> SUFFICES ASSUME PagingInv, [PagingNext]_pagingVars PROVE PagingInv'
  OBVIOUS
<1>1. CASE BeginAudit BY <1>1, BeginAuditKeeps
<1>2. CASE ReadAudit BY <1>2, ReadAuditKeeps
<1>3. CASE BeginWalk BY <1>3, BeginWalkKeeps
<1>4. CASE ReadPage BY <1>4, ReadPageKeeps
<1>5. CASE FoldOne BY <1>5, FoldOneKeeps
<1>6. CASE RewriteOne BY <1>6, RewriteOneKeeps
<1>7. CASE EndPage BY <1>7, EndPageKeeps
<1>8. CASE Others BY <1>8, OthersKeep
<1>9. CASE UNCHANGED pagingVars
  <2>1. /\ UNCHANGED vars
        /\ walk' = walk /\ start' = start /\ seen' = seen /\ repeated' = repeated
        /\ lost' = lost /\ written' = written
    BY <1>9 DEF pagingVars
  <2>2. items' = items /\ audit' = audit BY <2>1 DEF vars, tables
  <2>3. IInv' BY <2>1, StutterKeeps DEF PagingInv
  <2>4. WorkOK' <=> WorkOK BY <2>1 DEF WorkOK
  <2>5. There(Walked)' = There(Walked) /\ Missing' = Missing /\ Place' = Place
    BY <2>1, <2>2 DEF There, Missing, Place
  <2>6. UndisturbedOK' <=> UndisturbedOK BY <2>1, <2>5 DEF UndisturbedOK
  <2>7. ItemOK' <=> ItemOK BY <2>1, <2>4, <2>5, <2>6 DEF ItemOK
  <2>8. AuditOK' <=> AuditOK BY <2>1, <2>2 DEF AuditOK
  <2> QED BY <2>1, <2>2, <2>3, <2>7, <2>8 DEF PagingInv, WalkOK
<1> QED BY <1>1, <1>2, <1>3, <1>4, <1>5, <1>6, <1>7, <1>8, <1>9 DEF PagingNext, Step

-----------------------------------------------------------------------------
(* The theorems.                                                           *)

(* In every state the walks are where the invariant says.                  *)
THEOREM PagingInvariant == PagingSpec => []PagingInv
BY PagingInitKeeps, PagingNextKeeps, PTL DEF PagingSpec

(* Maintenance, re-embedding and a forget by filter, walking a scope by    *)
(* offset, miss no more of the rows that stay than others removed          *)
(* meanwhile, whatever they fold, rewrite and forget themselves; and meet  *)
(* no row twice while nobody else writes.                                  *)
THEOREM ItemWalksAreExactAlways == PagingSpec => []ItemWalksAreExact
<1>1. PagingInv => ItemWalksAreExact
  <2> SUFFICES ASSUME PagingInv PROVE ItemWalksAreExact
    OBVIOUS
  <2>1. ASSUME walk.kind \in Kinds
        PROVE  /\ walk \in ItemWalk /\ ItemOK
               /\ walk.removed \in 0..walk.scanned
               /\ Cardinality((start \cap There(Walked)) \ seen) =< Cardinality(Missing)
               /\ Cardinality((start \cap There(Walked)) \ seen) \in Nat
               /\ Cardinality(Missing) \in Nat
    <3>1. walk \in ItemWalk /\ ItemOK BY <2>1, WalkKinds DEF PagingInv
    <3>2. /\ walk.removed \in Nat /\ walk.scanned \in Nat
          /\ walk.folds \in AtMostOne(ItemRow \X ItemRow)
      BY <3>1 DEF ItemWalk
    <3>3. Cardinality(walk.folds) \in Nat
      <4>1. CASE walk.folds = {} BY <4>1, FS_EmptySet
      <4>2. CASE walk.folds # {}
        <5>1. PICK p : walk.folds = {p} BY <3>2, <4>2 DEF AtMostOne
        <5>2. Cardinality({p}) = 1 BY FS_Singleton
        <5> QED BY <5>1, <5>2
      <4> QED BY <4>1, <4>2
    <3>4. walk.removed \in 0..walk.scanned BY <3>1, <3>2, <3>3 DEF ItemOK
    <3>5. PICK X : X = (start \cap There(Walked)) \ seen OBVIOUS
    <3>6. X \in SUBSET Missing BY <3>5 DEF Missing
    <3>7. IsFiniteSet(Missing)
      BY <3>1, StoreAssumption, FS_Subset DEF ItemOK, Missing
    <3>8. /\ Cardinality(X) =< Cardinality(Missing)
          /\ Cardinality(X) \in Nat /\ Cardinality(Missing) \in Nat
      BY <3>6, <3>7, FS_Subset, FS_CardinalityType
    <3> QED BY <3>1, <3>4, <3>5, <3>8
  <2>2. PagingTypeOK BY <2>1 DEF PagingTypeOK, PagingInv, ItemWalk
  <2>3. WalkMissesAtMostTheLost
    <3> SUFFICES ASSUME walk.kind \in Kinds, walk.at = "done"
                 PROVE  Cardinality((start \cap Ids(InScope(items, Walked))) \ seen) =< lost
      BY DEF WalkMissesAtMostTheLost
    <3>1. Cardinality(Missing) =< lost BY <2>1 DEF ItemOK
    <3>2. lost \in Nat BY DEF PagingInv
    <3>3. Cardinality((start \cap There(Walked)) \ seen) =< lost BY <2>1, <3>1, <3>2
    <3> QED BY <3>3 DEF There
  <2>4. UndisturbedWalkIsExact
    BY <2>1 DEF UndisturbedWalkIsExact, ItemOK, UndisturbedOK
  <2> QED BY <2>2, <2>3, <2>4 DEF ItemWalksAreExact
<1> QED BY <1>1, PagingInvariant, PTL

(* Following the cursor of the audit log gives every row that is there     *)
(* from the start of the walk to its end, and none twice, whatever others  *)
(* write or purge between two pages; and no page is larger than the        *)
(* ceiling, whatever the caller asks for: the row more that is read to     *)
(* tell whether there are others does not wrap the LIMIT (audit_page,      *)
(* audit::query).                                                          *)
THEOREM AuditWalkIsExactAlways == PagingSpec => AuditWalkIsExact
<1>1. ASSUME PagingInv, [PagingNext]_pagingVars, seen' # seen, walk.kind = "audit"
      PROVE  Cardinality(seen' \ seen) =< MaxAuditLimit
  <2>1. walk \in AuditWalk BY <1>1, WalkKinds DEF PagingInv
  <2>2. walk.at \in {"page", "done"} /\ walk.kind \notin Kinds
    BY <1>1, <2>1 DEF AuditWalk, Kinds
  <2>3. ReadAudit
    BY <1>1, <2>2 DEF PagingNext, Step, BeginAudit, BeginWalk, ReadPage, FoldOne, RewriteOne,
                EndPage, Others, pagingVars
  <2>4. PICK page : page = AuditPage(Walked, walk.filter, walk.requested) OBVIOUS
  <2>5. seen' = seen \cup RangeOf(IdsOf(page.rows)) BY <2>3, <2>4 DEF ReadAudit, Given
  <2>6. PICK f \in AuditFilter : f = walk.filter BY <1>1, <2>1 DEF AuditWalk
  <2>7. PICK n \in Requested : n = walk.requested BY <1>1, <2>1 DEF AuditWalk
  <2>8. PICK given : given = RangeOf(IdsOf(page.rows)) OBVIOUS
  <2>9. IsFiniteSet(given) /\ Cardinality(given) =< MaxAuditLimit
    BY <1>1, <2>4, <2>6, <2>7, <2>8, AuditPageIs DEF PagingInv
  <2>10. seen' \ seen \in SUBSET given BY <2>5, <2>8
  <2>11. /\ Cardinality(seen' \ seen) =< Cardinality(given)
         /\ Cardinality(seen' \ seen) \in Nat /\ Cardinality(given) \in Nat
    BY <2>9, <2>10, FS_Subset, FS_CardinalityType
  <2>12. MaxAuditLimit \in Int BY PagingAssumption
  <2> QED BY <2>9, <2>11, <2>12
<1>2. ASSUME seen' = seen PROVE Cardinality(seen' \ seen) =< MaxAuditLimit
  <2>1. seen' \ seen = {} BY <1>2
  <2>2. Cardinality(seen' \ seen) = 0 BY <2>1, FS_EmptySet
  <2> QED BY <2>2, PagingAssumption
<1>3. PagingInv /\ PagingInv' /\ [PagingNext]_pagingVars =>
        [/\ CursorIsExact'
         /\ walk.kind = "audit" => Cardinality(seen' \ seen) =< MaxAuditLimit]_pagingVars
  <2>1. PagingInv' => CursorIsExact' BY DEF PagingInv, AuditOK, CursorIsExact
  <2> QED BY <1>1, <1>2, <2>1
<1> QED BY <1>3, PagingInvariant, PTL DEF PagingSpec, AuditWalkIsExact

=============================================================================
