----------------------------- MODULE PolicyProofs -----------------------------
(***************************************************************************)
(* Proofs about modules Compose and Decisions, for any number of           *)
(* candidates and rows and any scores: a composed working set is accepted, *)
(* takes the best that fits and reserves its replay, and the decisions on  *)
(* stored rows are exact and can all be carried out.                       *)
(***************************************************************************)
EXTENDS Compose, Decisions, FiniteSetTheorems, TLAPS

-----------------------------------------------------------------------------
(* Induction over finite sets and over the naturals, by the least          *)
(* counterexample.                                                         *)

LEMMA Smallest ==
  ASSUME NEW S, IsFiniteSet(S), NEW C, C \subseteq SUBSET S, C # {}
  PROVE  \E T \in C : \A U \in C : ~(U \subseteq T /\ U # T)
<1>1. IsWellFoundedOn(StrictSubsetOrdering(S), FiniteSubsetsOf(S))
  BY FS_StrictSubsetOrderingWellFounded
<1>2. C \subseteq FiniteSubsetsOf(S)
  BY FS_Subset DEF FiniteSubsetsOf
<1>3. \E T \in C : \A U \in C : <<U, T>> \notin StrictSubsetOrdering(S)
  BY <1>1, <1>2, WFMin
<1> QED
  BY <1>3 DEF StrictSubsetOrdering

LEMMA Least ==
  ASSUME NEW C, C \subseteq Nat, C # {}
  PROVE  \E m \in C : \A k \in C : m <= k
<1> PICK n \in C : TRUE
  OBVIOUS
<1> PICK D : D = {0..k : k \in C \cap (0..n)}
  OBVIOUS
<1> PICK I : I = 0..n
  OBVIOUS
<1>1. IsFiniteSet(I)
  BY FS_Interval
<1>2. D \subseteq SUBSET I /\ D # {}
  OBVIOUS
<1>3. PICK T \in D : \A U \in D : ~(U \subseteq T /\ U # T)
  BY ONLY <1>1, <1>2, Smallest
<1>4. PICK m \in C \cap (0..n) : T = 0..m
  OBVIOUS
<1>5. ASSUME NEW k \in C, k < m PROVE FALSE
  <2>1. 0..k \in D /\ 0..k \subseteq T /\ m \in T /\ m \notin 0..k
    BY <1>4, <1>5
  <2> QED
    BY <1>3, <2>1
<1>6. \A k \in C : k \in Nat /\ m \in Nat
  OBVIOUS
<1> QED
  BY <1>5, <1>6

-----------------------------------------------------------------------------
(* Sums over finite sets.                                                  *)

Pick(T) == CHOOSE x \in T : TRUE
Sums(f, T, g) ==
  g = [U \in SUBSET T |-> IF U = {} THEN 0 ELSE f[Pick(U)] + g[U \ {Pick(U)}]]

LEMMA PickIs ==
  ASSUME NEW T, T # {}
  PROVE  Pick(T) \in T
BY DEF Pick

LEMMA SumsAt ==
  ASSUME NEW f, NEW T, NEW g, Sums(f, T, g), NEW U \in SUBSET T
  PROVE  /\ U = {} => g[U] = 0
         /\ U # {} => g[U] = f[Pick(U)] + g[U \ {Pick(U)}]
BY DEF Sums

LEMMA SumsAgree ==
  ASSUME NEW f, NEW V, NEW W, IsFiniteSet(W), W \subseteq V,
         NEW g, NEW h, Sums(f, V, g), Sums(f, W, h)
  PROVE  g[W] = h[W]
<1> DEFINE C == {U \in SUBSET W : g[U] # h[U]}
<1>1. SUFFICES ASSUME C # {} PROVE FALSE
  OBVIOUS
<1>2. PICK T \in C : \A U \in C : ~(U \subseteq T /\ U # T)
  <2>1. C \subseteq SUBSET W
    OBVIOUS
  <2> HIDE DEF C
  <2> QED
    BY <1>1, <2>1, Smallest
<1> PICK U : U = T \ {Pick(T)}
  OBVIOUS
<1>3. T # {}
  BY SumsAt
<1>4. Pick(T) \in T
  BY <1>3, PickIs
<1>5. U \in SUBSET W /\ U # T /\ U \subseteq T
  BY <1>4
<1>6. g[U] = h[U]
  BY <1>2, <1>5
<1>7. g[T] = f[Pick(T)] + g[U] /\ h[T] = f[Pick(T)] + h[U]
  BY <1>3, SumsAt
<1> QED
  BY <1>6, <1>7

LEMMA SumsExist ==
  ASSUME NEW f, NEW S, IsFiniteSet(S)
  PROVE  \E g : Sums(f, S, g)
<1> DEFINE C == {T \in SUBSET S : ~ \E g : Sums(f, T, g)}
           G(V) == CHOOSE g : Sums(f, V, g)
<1>1. SUFFICES ASSUME C # {} PROVE FALSE
  OBVIOUS
<1>2. PICK T \in C : \A U \in C : ~(U \subseteq T /\ U # T)
  <2>1. C \subseteq SUBSET S
    OBVIOUS
  <2> HIDE DEF C
  <2> QED
    BY <1>1, <2>1, Smallest
<1>3. ASSUME NEW V, V \subseteq T, V # T
      PROVE  Sums(f, V, G(V)) /\ IsFiniteSet(V)
  <2>1. V \in SUBSET S /\ V \notin C
    BY <1>2, <1>3
  <2> QED
    BY <2>1, FS_Subset
<1> DEFINE h == [U \in SUBSET T |-> IF U = {} THEN 0
                                    ELSE f[Pick(U)] + G(U \ {Pick(U)})[U \ {Pick(U)}]]
<1> HIDE DEF G
<1>4. ASSUME NEW V, V \subseteq T, V # T
      PROVE  h[V] = G(V)[V]
  <2>1. Sums(f, V, G(V)) /\ IsFiniteSet(V)
    BY <1>3, <1>4
  <2>2. CASE V = {}
    BY <2>1, <2>2, SumsAt
  <2>3. CASE V # {}
    <3> PICK W : W = V \ {Pick(V)}
      OBVIOUS
    <3>1. W \subseteq V /\ W # V /\ W # T
      BY <1>4, <2>3, PickIs
    <3>2. Sums(f, W, G(W)) /\ IsFiniteSet(W)
      BY <1>3, <1>4, <3>1
    <3>3. G(V)[W] = G(W)[W]
      BY <2>1, <3>1, <3>2, SumsAgree
    <3>4. G(V)[V] = f[Pick(V)] + G(V)[W]
      BY <2>1, <2>3, SumsAt
    <3>5. h[V] = f[Pick(V)] + G(W)[W]
      BY <1>4, <2>3
    <3> QED
      BY <3>3, <3>4, <3>5
  <2> QED
    BY <2>2, <2>3
<1>5. \A U \in SUBSET T : U # {} => h[U \ {Pick(U)}] = G(U \ {Pick(U)})[U \ {Pick(U)}]
  <2> SUFFICES ASSUME NEW U \in SUBSET T, U # {}
               PROVE  h[U \ {Pick(U)}] = G(U \ {Pick(U)})[U \ {Pick(U)}]
    OBVIOUS
  <2> PICK V : V = U \ {Pick(U)}
    OBVIOUS
  <2>1. V \subseteq T /\ V # T
    BY PickIs
  <2> QED
    BY <1>4, <2>1
<1>6. h = [U \in SUBSET T |-> IF U = {} THEN 0 ELSE f[Pick(U)] + h[U \ {Pick(U)}]]
  BY <1>5
<1>7. Sums(f, T, h)
  BY <1>6 DEF Sums
<1> QED
  BY <1>7

LEMMA SumOverIs ==
  ASSUME NEW f, NEW S, IsFiniteSet(S), NEW g, Sums(f, S, g)
  PROVE  \A T \in SUBSET S : SumOver(f, T) = g[T]
<1> SUFFICES ASSUME NEW T \in SUBSET S PROVE SumOver(f, T) = g[T]
  OBVIOUS
<1> DEFINE h == CHOOSE k : Sums(f, T, k)
<1>1. IsFiniteSet(T)
  BY FS_Subset
<1>2. Sums(f, T, h)
  BY <1>1, SumsExist
<1>3. SumOver(f, T) = h[T]
  BY DEF SumOver, FoldFunctionOnSet, MapThenFoldSet, Sums, Pick
<1> HIDE DEF h
<1> QED
  BY <1>1, <1>2, <1>3, SumsAgree

LEMMA SumEmpty ==
  ASSUME NEW f
  PROVE  SumOver(f, {}) = 0
<1>1. PICK g : Sums(f, {}, g)
  BY FS_EmptySet, SumsExist
<1>2. SumOver(f, {}) = g[{}]
  BY <1>1, FS_EmptySet, SumOverIs
<1> QED
  BY <1>1, <1>2, SumsAt

LEMMA SumPick ==
  ASSUME NEW f, NEW S, IsFiniteSet(S), S # {}
  PROVE  /\ Pick(S) \in S
         /\ SumOver(f, S) = f[Pick(S)] + SumOver(f, S \ {Pick(S)})
<1>1. PICK g : Sums(f, S, g)
  BY SumsExist
<1>2. SumOver(f, S) = g[S] /\ SumOver(f, S \ {Pick(S)}) = g[S \ {Pick(S)}]
  BY <1>1, SumOverIs
<1> QED
  BY <1>1, <1>2, SumsAt, PickIs

LEMMA SumIsInt ==
  ASSUME NEW f, NEW S, IsFiniteSet(S), \A x \in S : f[x] \in Int
  PROVE  SumOver(f, S) \in Int
<1> DEFINE C == {T \in SUBSET S : SumOver(f, T) \notin Int}
<1>1. SUFFICES ASSUME C # {} PROVE FALSE
  OBVIOUS
<1>2. PICK T \in C : \A U \in C : ~(U \subseteq T /\ U # T)
  <2>1. C \subseteq SUBSET S
    OBVIOUS
  <2> HIDE DEF C
  <2> QED
    BY <1>1, <2>1, Smallest
<1>3. T # {} /\ IsFiniteSet(T)
  <2>1. T = {} => SumOver(f, T) = 0
    BY SumEmpty, Zenon
  <2> QED
    BY <2>1, FS_Subset
<1>4. Pick(T) \in T /\ SumOver(f, T) = f[Pick(T)] + SumOver(f, T \ {Pick(T)})
  BY <1>3, SumPick
<1>5. SumOver(f, T \ {Pick(T)}) \in Int
  BY <1>2, <1>4
<1> QED
  BY <1>4, <1>5

(* A sum does not depend on the order in which it is taken.                *)
LEMMA SumSplit ==
  ASSUME NEW f, NEW S, IsFiniteSet(S), \A x \in S : f[x] \in Int, NEW x \in S
  PROVE  SumOver(f, S) = f[x] + SumOver(f, S \ {x})
<1> DEFINE C == {T \in SUBSET S : \E y \in T : SumOver(f, T) # f[y] + SumOver(f, T \ {y})}
<1>1. SUFFICES ASSUME C # {} PROVE FALSE
  OBVIOUS
<1>2. PICK T \in C : \A U \in C : ~(U \subseteq T /\ U # T)
  <2>1. C \subseteq SUBSET S
    OBVIOUS
  <2> HIDE DEF C
  <2> QED
    BY <1>1, <2>1, Smallest
<1>3. PICK y \in T : SumOver(f, T) # f[y] + SumOver(f, T \ {y})
  OBVIOUS
<1> PICK p : p = Pick(T)
  OBVIOUS
<1>4. IsFiniteSet(T)
  BY FS_Subset
<1>5. p \in T /\ SumOver(f, T) = f[p] + SumOver(f, T \ {p})
  BY <1>3, <1>4, SumPick
<1>6. p # y
  BY <1>3, <1>5
<1>7. \A z \in T : T \ {z} \in SUBSET S /\ T \ {z} \notin C
  BY <1>2
<1>8. SumOver(f, T \ {p}) = f[y] + SumOver(f, (T \ {p}) \ {y})
  BY <1>5, <1>6, <1>7
<1>9. SumOver(f, T \ {y}) = f[p] + SumOver(f, (T \ {y}) \ {p})
  BY <1>5, <1>6, <1>7
<1>10. (T \ {p}) \ {y} = (T \ {y}) \ {p}
  OBVIOUS
<1>11. SumOver(f, (T \ {p}) \ {y}) \in Int
  <2>1. IsFiniteSet((T \ {p}) \ {y}) /\ \A z \in (T \ {p}) \ {y} : f[z] \in Int
    BY <1>4, FS_Subset
  <2> QED
    BY <2>1, SumIsInt
<1>12. f[p] \in Int /\ f[y] \in Int
  BY <1>5
<1> PICK s : s = SumOver(f, (T \ {p}) \ {y})
  OBVIOUS
<1>13. f[p] + (f[y] + s) = f[y] + (f[p] + s)
  <2>1. \A a, b, c \in Int : a + (b + c) = b + (a + c)
    OBVIOUS
  <2> HIDE DEF C
  <2> QED
    BY <1>11, <1>12, <2>1
<1> HIDE DEF C
<1> QED
  BY <1>3, <1>5, <1>8, <1>9, <1>10, <1>13

LEMMA SumIsNat ==
  ASSUME NEW f, NEW S, IsFiniteSet(S), \A x \in S : f[x] \in Nat
  PROVE  SumOver(f, S) \in Nat
<1> DEFINE C == {T \in SUBSET S : SumOver(f, T) \notin Nat}
<1>1. SUFFICES ASSUME C # {} PROVE FALSE
  OBVIOUS
<1>2. PICK T \in C : \A U \in C : ~(U \subseteq T /\ U # T)
  <2>1. C \subseteq SUBSET S
    OBVIOUS
  <2> HIDE DEF C
  <2> QED
    BY <1>1, <2>1, Smallest
<1>3. T # {} /\ IsFiniteSet(T)
  <2>1. T = {} => SumOver(f, T) = 0
    BY SumEmpty, Zenon
  <2> QED
    BY <2>1, FS_Subset
<1>4. Pick(T) \in T /\ SumOver(f, T) = f[Pick(T)] + SumOver(f, T \ {Pick(T)})
  BY <1>3, SumPick
<1>5. SumOver(f, T \ {Pick(T)}) \in Nat
  BY <1>2, <1>4
<1> QED
  BY <1>4, <1>5

(* Only the values on the set count.                                       *)
LEMMA SumSame ==
  ASSUME NEW f, NEW g, NEW S, IsFiniteSet(S), \A x \in S : f[x] = g[x]
  PROVE  SumOver(f, S) = SumOver(g, S)
<1> DEFINE C == {T \in SUBSET S : SumOver(f, T) # SumOver(g, T)}
<1>1. SUFFICES ASSUME C # {} PROVE FALSE
  OBVIOUS
<1>2. PICK T \in C : \A U \in C : ~(U \subseteq T /\ U # T)
  <2>1. C \subseteq SUBSET S
    OBVIOUS
  <2> HIDE DEF C
  <2> QED
    BY <1>1, <2>1, Smallest
<1>3. T # {} /\ IsFiniteSet(T)
  <2>1. T = {} => SumOver(f, T) = 0 /\ SumOver(g, T) = 0
    BY SumEmpty, Zenon
  <2> QED
    BY <2>1, FS_Subset
<1>4. /\ Pick(T) \in T
      /\ SumOver(f, T) = f[Pick(T)] + SumOver(f, T \ {Pick(T)})
      /\ SumOver(g, T) = g[Pick(T)] + SumOver(g, T \ {Pick(T)})
  BY <1>3, SumPick
<1>5. SumOver(f, T \ {Pick(T)}) = SumOver(g, T \ {Pick(T)})
  BY <1>2, <1>4
<1> QED
  BY <1>4, <1>5

LEMMA SumAdd ==
  ASSUME NEW f, NEW S, IsFiniteSet(S), NEW x, x \notin S,
         f[x] \in Int, \A y \in S : f[y] \in Int
  PROVE  SumOver(f, S \cup {x}) = SumOver(f, S) + f[x]
<1> PICK T : T = S \cup {x}
  OBVIOUS
<1> SUFFICES SumOver(f, T) = SumOver(f, S) + f[x]
  BY Zenon
<1>1. IsFiniteSet(T) /\ x \in T /\ \A y \in T : f[y] \in Int
  BY FS_AddElement
<1>2. SumOver(f, T) = f[x] + SumOver(f, T \ {x})
  BY <1>1, SumSplit
<1>3. T \ {x} = S
  OBVIOUS
<1>4. SumOver(f, S) \in Int
  BY SumIsInt
<1>5. SumOver(f, T) = f[x] + SumOver(f, S)
  BY <1>2, <1>3, Zenon
<1> QED
  BY <1>4, <1>5

(* The sum over two sets with nothing in common.                           *)
LEMMA SumUnion ==
  ASSUME NEW f, NEW V, NEW S, IsFiniteSet(V), IsFiniteSet(S), V \cap S = {},
         \A y \in V \cup S : f[y] \in Int
  PROVE  SumOver(f, V \cup S) = SumOver(f, V) + SumOver(f, S)
<1> DEFINE C == {T \in SUBSET S : SumOver(f, V \cup T) # SumOver(f, V) + SumOver(f, T)}
<1>1. SUFFICES ASSUME C # {} PROVE FALSE
  OBVIOUS
<1>2. PICK T \in C : \A U \in C : ~(U \subseteq T /\ U # T)
  <2>1. C \subseteq SUBSET S
    OBVIOUS
  <2> HIDE DEF C
  <2> QED
    BY <1>1, <2>1, Smallest
<1>3. IsFiniteSet(T) /\ IsFiniteSet(V \cup T)
  BY FS_Subset, FS_Union
<1>4. SumOver(f, V) \in Int
  BY SumIsInt
<1>5. T # {}
  <2> SUFFICES ASSUME T = {} PROVE FALSE
    OBVIOUS
  <2>1. V \cup T = V
    OBVIOUS
  <2>2. SumOver(f, T) = 0
    BY SumEmpty, Zenon
  <2> QED
    BY <1>4, <2>1, <2>2
<1> PICK p : p \in T
  BY <1>5
<1> PICK U : U = T \ {p}
  OBVIOUS
<1>6. SumOver(f, T) = f[p] + SumOver(f, U)
  BY <1>3, SumSplit
<1>7. SumOver(f, V \cup T) = f[p] + SumOver(f, (V \cup T) \ {p})
  <2>1. p \in V \cup T /\ \A x \in V \cup T : f[x] \in Int
    OBVIOUS
  <2> HIDE DEF C
  <2> QED
    BY <1>3, <2>1, SumSplit
<1>8. (V \cup T) \ {p} = V \cup U
  OBVIOUS
<1>9. U \in SUBSET S /\ U \notin C
  BY <1>2
<1>10. SumOver(f, V \cup U) = SumOver(f, V) + SumOver(f, U)
  BY <1>9
<1>11. SumOver(f, U) \in Int /\ f[p] \in Int
  <2>1. IsFiniteSet(U) /\ \A x \in U : f[x] \in Int
    BY <1>3, FS_Subset
  <2> QED
    BY <2>1, SumIsInt
<1>12. SumOver(f, V \cup T) = SumOver(f, V) + SumOver(f, T)
  <2> PICK W : W = V \cup T
    OBVIOUS
  <2>1. SumOver(f, W) = f[p] + (SumOver(f, V) + SumOver(f, U))
    BY <1>7, <1>8, <1>10, Zenon
  <2> SUFFICES SumOver(f, W) = SumOver(f, V) + SumOver(f, T)
    BY Zenon
  <2> HIDE DEF C
  <2> QED
    BY <1>4, <1>6, <1>11, <2>1
<1> QED
  BY <1>12

LEMMA SumGrows ==
  ASSUME NEW f, NEW S, IsFiniteSet(S), \A y \in S : f[y] \in Nat, NEW T, T \subseteq S
  PROVE  /\ IsFiniteSet(T) /\ IsFiniteSet(S \ T)
         /\ SumOver(f, S) \in Nat /\ SumOver(f, T) \in Nat /\ SumOver(f, S \ T) \in Nat
         /\ SumOver(f, S) = SumOver(f, T) + SumOver(f, S \ T)
<1>1. IsFiniteSet(T) /\ IsFiniteSet(S \ T)
  BY FS_Subset
<1> PICK U : U = S \ T
  OBVIOUS
<1>2. S = T \cup U /\ T \cap U = {} /\ \A y \in T \cup U : f[y] \in Int
  OBVIOUS
<1>3. SumOver(f, T \cup U) = SumOver(f, T) + SumOver(f, U)
  BY <1>1, <1>2, SumUnion
<1>4. \A y \in T : f[y] \in Nat
  OBVIOUS
<1>5. \A y \in U : f[y] \in Nat
  OBVIOUS
<1> QED
  BY <1>1, <1>2, <1>3, <1>4, <1>5, SumIsNat

LEMMA SumBounded ==
  ASSUME NEW f, NEW g, NEW S, IsFiniteSet(S),
         \A y \in S : f[y] \in Int /\ g[y] \in Int /\ f[y] <= g[y]
  PROVE  SumOver(f, S) <= SumOver(g, S)
<1> DEFINE C == {T \in SUBSET S : ~(SumOver(f, T) <= SumOver(g, T))}
<1>1. SUFFICES ASSUME C # {} PROVE FALSE
  OBVIOUS
<1>2. PICK T \in C : \A U \in C : ~(U \subseteq T /\ U # T)
  <2>1. C \subseteq SUBSET S
    OBVIOUS
  <2> HIDE DEF C
  <2> QED
    BY <1>1, <2>1, Smallest
<1>3. T # {} /\ IsFiniteSet(T)
  <2>1. T = {} => SumOver(f, T) = 0 /\ SumOver(g, T) = 0
    BY SumEmpty, Zenon
  <2> QED
    BY <2>1, FS_Subset
<1>4. /\ Pick(T) \in T
      /\ SumOver(f, T) = f[Pick(T)] + SumOver(f, T \ {Pick(T)})
      /\ SumOver(g, T) = g[Pick(T)] + SumOver(g, T \ {Pick(T)})
  BY <1>3, SumPick
<1>5. SumOver(f, T \ {Pick(T)}) <= SumOver(g, T \ {Pick(T)})
  BY <1>2, <1>4
<1> PICK U : U = T \ {Pick(T)}
  OBVIOUS
<1>6. IsFiniteSet(U) /\ \A x \in U : f[x] \in Int /\ g[x] \in Int
  BY <1>3, FS_Subset
<1>7. SumOver(f, U) \in Int /\ SumOver(g, U) \in Int
  BY <1>6, SumIsInt
<1>8. f[Pick(T)] \in Int /\ g[Pick(T)] \in Int /\ f[Pick(T)] <= g[Pick(T)]
  BY <1>4
<1> QED
  BY <1>4, <1>5, <1>7, <1>8

(* A constant, taken as often as there are elements.                       *)
LEMMA SumConstant ==
  ASSUME NEW S, IsFiniteSet(S), NEW n \in Int, NEW f, \A x \in S : f[x] = n
  PROVE  SumOver(f, S) = n * Cardinality(S)
<1> DEFINE C == {T \in SUBSET S : SumOver(f, T) # n * Cardinality(T)}
<1>1. SUFFICES ASSUME C # {} PROVE FALSE
  OBVIOUS
<1>2. PICK T \in C : \A U \in C : ~(U \subseteq T /\ U # T)
  <2>1. C \subseteq SUBSET S
    OBVIOUS
  <2> HIDE DEF C
  <2> QED
    BY <1>1, <2>1, Smallest
<1>3. T # {} /\ IsFiniteSet(T)
  <2>1. T = {} => SumOver(f, T) = 0 /\ Cardinality(T) = 0
    BY SumEmpty, FS_EmptySet, Zenon
  <2> QED
    BY <2>1, FS_Subset
<1>4. Pick(T) \in T /\ SumOver(f, T) = f[Pick(T)] + SumOver(f, T \ {Pick(T)})
  BY <1>3, SumPick
<1> PICK U : U = T \ {Pick(T)}
  OBVIOUS
<1>5. SumOver(f, U) = n * Cardinality(U)
  BY <1>2, <1>4
<1>6. Cardinality(U) = Cardinality(T) - 1 /\ Cardinality(T) \in Nat
  BY <1>3, <1>4, FS_RemoveElement, FS_CardinalityType
<1>7. f[Pick(T)] = n
  BY <1>4
<1>8. n + n * (Cardinality(T) - 1) = n * Cardinality(T)
  <2>1. \A k \in Nat : n + n * (k - 1) = n * k
    OBVIOUS
  <2> QED
    BY <1>6, <2>1
<1> QED
  BY <1>4, <1>5, <1>6, <1>7, <1>8

(* A part of a set weighs no more than it does.                            *)
LEMMA SumOfPart ==
  ASSUME NEW f, NEW S, IsFiniteSet(S), \A x \in S : f[x] \in Nat, NEW T, T \subseteq S
  PROVE  SumOver(f, T) \in Nat /\ SumOver(f, T) <= SumOver(f, S)
<1> PICK U : U = S \ T
  OBVIOUS
<1>1. /\ IsFiniteSet(T) /\ IsFiniteSet(U) /\ T \cap U = {} /\ T \cup U = S
      /\ \A x \in T : f[x] \in Nat
  BY FS_Subset
<1>2. \A x \in U : f[x] \in Nat
  OBVIOUS
<1>3. \A x \in T \cup U : f[x] \in Int
  BY <1>1
<1>4. SumOver(f, T) \in Nat /\ SumOver(f, U) \in Nat
  BY <1>1, <1>2, SumIsNat
<1>5. SumOver(f, T \cup U) = SumOver(f, T) + SumOver(f, U)
  BY ONLY <1>1, <1>3, SumUnion
<1> PICK a, b, c : a = SumOver(f, T \cup U) /\ b = SumOver(f, T) /\ c = SumOver(f, U)
  OBVIOUS
<1>6. b \in Nat /\ b <= a
  BY <1>4, <1>5
<1>7. a = SumOver(f, S)
  BY <1>1, Zenon
<1> QED
  BY <1>6, <1>7

(* The sum of the sums.                                                    *)
LEMMA SumPlus ==
  ASSUME NEW f, NEW g, NEW h, NEW S, IsFiniteSet(S),
         \A x \in S : f[x] \in Int /\ g[x] \in Int /\ h[x] = f[x] + g[x]
  PROVE  SumOver(h, S) = SumOver(f, S) + SumOver(g, S)
<1> DEFINE C == {T \in SUBSET S : SumOver(h, T) # SumOver(f, T) + SumOver(g, T)}
<1>1. SUFFICES ASSUME C # {} PROVE FALSE
  OBVIOUS
<1>2. PICK T \in C : \A U \in C : ~(U \subseteq T /\ U # T)
  <2>1. C \subseteq SUBSET S
    OBVIOUS
  <2> HIDE DEF C
  <2> QED
    BY <1>1, <2>1, Smallest
<1>3. T \in SUBSET S /\ SumOver(h, T) # SumOver(f, T) + SumOver(g, T)
  OBVIOUS
<1>4. T # {}
  <2>1. SumOver(f, {}) = 0 /\ SumOver(g, {}) = 0 /\ SumOver(h, {}) = 0
    BY SumEmpty, Zenon
  <2>2. T = {} => SumOver(h, T) = SumOver(f, T) + SumOver(g, T)
    BY <2>1
  <2> QED
    BY <1>3, <2>2
<1>5. PICK x \in T : TRUE
  BY <1>4
<1> PICK U : U = T \ {x}
  OBVIOUS
<1>6. U \in SUBSET S /\ U \notin C
  BY <1>2, <1>3
<1>7. SumOver(h, U) = SumOver(f, U) + SumOver(g, U)
  BY <1>6
<1> HIDE DEF C
<1>8. /\ IsFiniteSet(T) /\ IsFiniteSet(U)
      /\ \A y \in T : f[y] \in Int /\ g[y] \in Int /\ h[y] \in Int
      /\ \A y \in U : f[y] \in Int /\ g[y] \in Int
  BY <1>3, <1>6, FS_Subset
<1>9. /\ SumOver(f, T) = f[x] + SumOver(f, U) /\ SumOver(g, T) = g[x] + SumOver(g, U)
      /\ SumOver(h, T) = h[x] + SumOver(h, U)
  BY <1>8, SumSplit
<1>10. SumOver(f, U) \in Int /\ SumOver(g, U) \in Int
  BY <1>8, SumIsInt
<1>11. f[x] \in Int /\ g[x] \in Int /\ h[x] = f[x] + g[x]
  BY <1>3
<1> PICK a, b, c, d : a = f[x] /\ b = g[x] /\ c = SumOver(f, U) /\ d = SumOver(g, U)
  OBVIOUS
<1>12. (a + b) + (c + d) = (a + c) + (b + d)
  BY <1>10, <1>11
<1>13. SumOver(h, T) = (a + b) + (c + d)
  BY <1>7, <1>9, <1>11
<1>14. SumOver(f, T) + SumOver(g, T) = (a + c) + (b + d)
  BY <1>9
<1> QED
  BY <1>3, <1>12, <1>13, <1>14

(* The parts of a set weigh together no more than it does.                 *)
LEMMA SumOfParts ==
  ASSUME NEW f, NEW T, IsFiniteSet(T), \A x \in T : f[x] \in Nat,
         NEW K, IsFiniteSet(K), NEW g, NEW P,
         \A i \in K : P[i] \subseteq T /\ g[i] = SumOver(f, P[i]),
         \A i, k \in K : i # k => P[i] \cap P[k] = {}
  PROVE  SumOver(g, K) \in Nat /\ SumOver(g, K) <= SumOver(f, T)
<1> DEFINE Whole(L) == UNION {P[i] : i \in L}
           C == {L \in SUBSET K : SumOver(g, L) # SumOver(f, Whole(L))}
<1>1. ASSUME NEW L \in SUBSET K
      PROVE  Whole(L) \in SUBSET T /\ IsFiniteSet(Whole(L)) /\ IsFiniteSet(L)
  <2>1. Whole(L) \in SUBSET T
    OBVIOUS
  <2> QED
    BY <2>1, FS_Subset
<1>2. ASSUME C # {} PROVE FALSE
  <2>1. PICK L \in C : \A M \in C : ~(M \subseteq L /\ M # L)
    <3>1. C \subseteq SUBSET K
      OBVIOUS
    <3> HIDE DEF C
    <3> QED
      BY <1>2, <3>1, Smallest
  <2>2. L \in SUBSET K /\ SumOver(g, L) # SumOver(f, Whole(L))
    OBVIOUS
  <2>3. L # {}
    <3> SUFFICES ASSUME L = {} PROVE FALSE
      OBVIOUS
    <3>1. Whole(L) = {}
      OBVIOUS
    <3>2. SumOver(g, {}) = 0 /\ SumOver(f, {}) = 0
      BY SumEmpty, Zenon
    <3> QED
      BY <2>2, <3>1, <3>2
  <2>4. PICK x \in L : TRUE
    BY <2>3
  <2> PICK M : M = L \ {x}
    OBVIOUS
  <2>5. M \in SUBSET K /\ M \notin C
    BY <2>1, <2>2
  <2>6. SumOver(g, M) = SumOver(f, Whole(M))
    BY <2>5
  <2>7. \A i \in L : g[i] \in Int
    <3> SUFFICES ASSUME NEW i \in L PROVE g[i] \in Int
      OBVIOUS
    <3>1. P[i] \subseteq T /\ g[i] = SumOver(f, P[i])
      BY <2>2
    <3>2. IsFiniteSet(P[i]) /\ \A y \in P[i] : f[y] \in Int
      BY <3>1, FS_Subset
    <3> QED
      BY <3>1, <3>2, SumIsInt
  <2>8. SumOver(g, L) = g[x] + SumOver(g, M)
    BY <1>1, <2>2, <2>7, SumSplit
  <2> PICK U, V, W : U = P[x] /\ V = Whole(M) /\ W = Whole(L)
    OBVIOUS
  <2>9. /\ U \cap V = {} /\ U \cup V = W /\ IsFiniteSet(U) /\ IsFiniteSet(V)
        /\ \A y \in U \cup V : f[y] \in Int
    <3>1. \A i \in M : i \in K /\ i # x /\ x \in K
      BY <2>2
    <3>2. U \cap V = {}
      BY <3>1
    <3>3. U \cup V = W
      OBVIOUS
    <3>4. U \in SUBSET T /\ V \in SUBSET T
      BY <1>1, <2>2, <2>5
    <3> QED
      BY <1>1, <2>5, <3>2, <3>3, <3>4, FS_Subset
  <2>10. SumOver(f, U \cup V) = SumOver(f, U) + SumOver(f, V)
    BY ONLY <2>9, SumUnion
  <2>11. SumOver(f, W) = SumOver(f, U) + SumOver(f, V)
    BY <2>9, <2>10, Zenon
  <2>12. g[x] = SumOver(f, U)
    BY <2>2
  <2> QED
    BY <2>2, <2>6, <2>8, <2>11, <2>12
<1>3. SumOver(g, K) = SumOver(f, Whole(K))
  BY <1>2
<1> PICK W : W = Whole(K)
  OBVIOUS
<1>4. W \subseteq T
  OBVIOUS
<1>5. SumOver(f, W) \in Nat /\ SumOver(f, W) <= SumOver(f, T)
  BY <1>4, SumOfPart
<1> QED
  BY <1>3, <1>5

-----------------------------------------------------------------------------
(* Rankings: a strict total order of a finite set, its first element, and  *)
(* the sequence of its elements by the number of those before them.        *)

Orders(R, S) ==
  /\ \A x \in S : <<x, x>> \notin R
  /\ \A x, y, z \in S : <<x, y>> \in R /\ <<y, z>> \in R => <<x, z>> \in R
  /\ \A x, y \in S : x = y \/ <<x, y>> \in R \/ <<y, x>> \in R
Ahead(R, S, x) == {y \in S : <<y, x>> \in R}
Places(R, S, q) ==
  /\ q = [k \in 1 .. Cardinality(S) |-> q[k]]
  /\ \A k \in 1 .. Cardinality(S) : q[k] \in S /\ Cardinality(Ahead(R, S, q[k])) = k - 1

Ranks(R, S, q, n) ==
  /\ n \in Nat /\ q \in [1 .. n -> S] /\ Len(q) = n /\ DOMAIN q = 1 .. n
  /\ \A k \in 1 .. n : q[k] \in S /\ Cardinality(Ahead(R, S, q[k])) = k - 1
  /\ \A x \in S : \E k \in 1 .. n : q[k] = x
  /\ \A j, k \in 1 .. n : j < k <=> <<q[j], q[k]>> \in R
  /\ \A j, k \in 1 .. n : q[j] = q[k] => j = k

LEMMA OrdersPart ==
  ASSUME NEW R, NEW S, Orders(R, S), NEW T \in SUBSET S
  PROVE  Orders(R, T)
BY DEF Orders

LEMMA FirstExists ==
  ASSUME NEW R, NEW S, IsFiniteSet(S), S # {}, Orders(R, S)
  PROVE  \E x \in S : \A y \in S \ {x} : <<x, y>> \in R
<1> DEFINE C == {T \in SUBSET S : T # {} /\ ~\E x \in T : \A y \in T \ {x} : <<x, y>> \in R}
<1>1. SUFFICES ASSUME C # {} PROVE FALSE
  OBVIOUS
<1>2. PICK T \in C : \A U \in C : ~(U \subseteq T /\ U # T)
  <2>1. C \subseteq SUBSET S
    OBVIOUS
  <2> HIDE DEF C
  <2> QED
    BY <1>1, <2>1, Smallest
<1>3. T \in SUBSET S /\ T # {} /\ ~\E x \in T : \A y \in T \ {x} : <<x, y>> \in R
  OBVIOUS
<1> PICK p : p \in T
  BY <1>3
<1> PICK U : U = T \ {p}
  OBVIOUS
<1>4. U # {}
  BY <1>3
<1>5. U \in SUBSET S /\ U \notin C
  BY <1>2
<1>6. PICK x \in U : \A y \in U \ {x} : <<x, y>> \in R
  BY <1>4, <1>5
<1>7. x \in T /\ x # p /\ x \in S /\ p \in S
  BY <1>3, <1>6
<1>8. \A y \in T : y \in S /\ (y = p \/ y \in U)
  BY <1>3
<1> HIDE DEF C
<1>9. CASE <<x, p>> \in R
  BY <1>3, <1>6, <1>7, <1>8, <1>9
<1>10. CASE <<p, x>> \in R
  <2>1. \A y \in U \ {x} : <<p, y>> \in R
    BY <1>6, <1>7, <1>8, <1>10 DEF Orders
  <2> QED
    BY <1>3, <1>8, <1>10, <2>1
<1> QED
  BY <1>7, <1>9, <1>10 DEF Orders

LEMMA AheadGrows ==
  ASSUME NEW R, NEW S, IsFiniteSet(S), Orders(R, S), NEW x \in S, NEW y \in S, <<x, y>> \in R
  PROVE  Cardinality(Ahead(R, S, x)) < Cardinality(Ahead(R, S, y))
<1> PICK V : V = Ahead(R, S, x)
  OBVIOUS
<1> PICK W : W = Ahead(R, S, y)
  OBVIOUS
<1>1. V \subseteq W /\ x \in W /\ x \notin V /\ W \in SUBSET S
  BY DEF Ahead, Orders
<1>2. IsFiniteSet(W) /\ IsFiniteSet(V)
  BY <1>1, FS_Subset
<1>3. Cardinality(V) <= Cardinality(W) /\ Cardinality(V) # Cardinality(W)
  BY <1>1, <1>2, FS_Subset
<1>4. Cardinality(V) \in Nat /\ Cardinality(W) \in Nat
  BY <1>2, FS_CardinalityType
<1>5. Cardinality(V) < Cardinality(W)
  BY <1>3, <1>4
<1> QED
  BY <1>5

LEMMA RankTakenByOne ==
  ASSUME NEW R, NEW S, IsFiniteSet(S), Orders(R, S), NEW k \in 0 .. (Cardinality(S) - 1)
  PROVE  \E x \in S : Cardinality(Ahead(R, S, x)) = k
<1> DEFINE rank == [x \in S |-> Cardinality(Ahead(R, S, x))]
<1> PICK n : n = Cardinality(S)
  OBVIOUS
<1> PICK T : T = 0 .. (n - 1)
  OBVIOUS
<1>1. n \in Nat
  BY FS_CardinalityType
<1>2. IsFiniteSet(T) /\ Cardinality(T) = n
  BY <1>1, FS_Interval
<1>3. ASSUME NEW x \in S PROVE Cardinality(Ahead(R, S, x)) \in T
  <2>1. Ahead(R, S, x) \in SUBSET S /\ x \notin Ahead(R, S, x)
    BY DEF Ahead, Orders
  <2> PICK V : V = Ahead(R, S, x)
    OBVIOUS
  <2>2. V \in SUBSET S /\ V # S
    BY <2>1
  <2>3. IsFiniteSet(V) /\ Cardinality(V) <= n /\ Cardinality(V) # n
    BY <2>2, FS_Subset
  <2>4. Cardinality(V) \in Nat
    BY <2>3, FS_CardinalityType
  <2>5. Cardinality(V) \in T
    BY <1>1, <2>3, <2>4
  <2> QED
    BY <2>5
<1>4. \A x, y \in S : rank[x] = rank[y] => x = y
  <2> SUFFICES ASSUME NEW x \in S, NEW y \in S, x # y PROVE rank[x] # rank[y]
    OBVIOUS
  <2>1. rank[x] \in Int /\ rank[y] \in Int
    BY <1>1, <1>3
  <2>2. CASE <<x, y>> \in R
    <3>1. rank[x] < rank[y]
      BY <2>2, AheadGrows
    <3> QED
      BY <2>1, <3>1
  <2>3. CASE <<y, x>> \in R
    <3>1. rank[y] < rank[x]
      BY <2>3, AheadGrows
    <3> QED
      BY <2>1, <3>1
  <2> QED
    BY <2>2, <2>3 DEF Orders
<1>5. rank \in [S -> T]
  BY <1>3
<1>6. rank \in Injection(S, T)
  BY <1>4, <1>5 DEF Injection, IsInjective
<1> HIDE DEF rank
<1>7. rank \in Surjection(S, T)
  BY <1>2, <1>6, FS_Injection
<1>8. k \in T
  OBVIOUS
<1>9. PICK x \in S : rank[x] = k
  BY <1>7, <1>8 DEF Surjection
<1> QED
  BY <1>9 DEF rank

LEMMA RankingIs ==
  ASSUME NEW R, NEW S, IsFiniteSet(S), Orders(R, S), NEW q, Places(R, S, q),
         NEW n, n = Cardinality(S)
  PROVE  Ranks(R, S, q, n)
<1>1. n \in Nat
  BY FS_CardinalityType
<1>2. ASSUME NEW k \in 1 .. n PROVE q[k] \in S /\ Cardinality(Ahead(R, S, q[k])) = k - 1
  BY DEF Places
<1>3. q \in [1 .. n -> S] /\ DOMAIN q = 1 .. n
  <2>1. q = [k \in 1 .. n |-> q[k]]
    BY DEF Places
  <2> QED
    BY <1>2, <2>1
<1>4. Len(q) = n
  BY <1>1, <1>3
<1>5. ASSUME NEW x \in S, NEW y \in S, Cardinality(Ahead(R, S, x)) < Cardinality(Ahead(R, S, y))
      PROVE  <<x, y>> \in R
  <2>1. Cardinality(Ahead(R, S, x)) \in Nat /\ Cardinality(Ahead(R, S, y)) \in Nat
    <3>1. Ahead(R, S, x) \in SUBSET S /\ Ahead(R, S, y) \in SUBSET S
      BY DEF Ahead
    <3> QED
      BY <3>1, FS_Subset, FS_CardinalityType
  <2>2. ~(Cardinality(Ahead(R, S, y)) < Cardinality(Ahead(R, S, x))) /\ x # y
    BY <1>5, <2>1
  <2>3. <<y, x>> \notin R
    BY <2>2, AheadGrows
  <2> QED
    BY <2>2, <2>3 DEF Orders
<1>6. ASSUME NEW j \in 1 .. n, NEW k \in 1 .. n PROVE j < k <=> <<q[j], q[k]>> \in R
  <2>1. /\ q[j] \in S /\ q[k] \in S /\ j \in Nat /\ k \in Nat
        /\ Cardinality(Ahead(R, S, q[j])) = j - 1 /\ Cardinality(Ahead(R, S, q[k])) = k - 1
    BY <1>2
  <2>2. ASSUME j < k PROVE <<q[j], q[k]>> \in R
    BY <1>5, <2>1, <2>2
  <2>3. ASSUME <<q[j], q[k]>> \in R PROVE j < k
    <3>1. Cardinality(Ahead(R, S, q[j])) < Cardinality(Ahead(R, S, q[k]))
      BY <2>1, <2>3, AheadGrows
    <3> QED
      BY <2>1, <3>1
  <2> QED
    BY <2>2, <2>3
<1>7. ASSUME NEW x \in S PROVE \E k \in 1 .. n : q[k] = x
  <2> DEFINE k == Cardinality(Ahead(R, S, x)) + 1
  <2>1. Ahead(R, S, x) \in SUBSET S /\ x \notin Ahead(R, S, x)
    BY DEF Ahead, Orders
  <2> PICK V : V = Ahead(R, S, x)
    OBVIOUS
  <2>2. V \in SUBSET S /\ V # S
    BY <2>1
  <2>3. IsFiniteSet(V) /\ Cardinality(V) <= n /\ Cardinality(V) # n
    BY <2>2, FS_Subset
  <2>4. Cardinality(V) \in Nat
    BY <2>3, FS_CardinalityType
  <2>5. k \in 1 .. n /\ k - 1 = Cardinality(Ahead(R, S, x))
    BY <1>1, <2>3, <2>4
  <2> HIDE DEF k
  <2>6. q[k] \in S /\ Cardinality(Ahead(R, S, q[k])) = Cardinality(Ahead(R, S, x))
    BY <1>2, <2>5
  <2>7. <<q[k], x>> \notin R /\ <<x, q[k]>> \notin R
    <3>1. \A i \in Nat : ~(i < i)
      OBVIOUS
    <3>2. Cardinality(Ahead(R, S, x)) \in Nat
      BY <2>4
    <3> QED
      BY <2>6, <3>1, <3>2, AheadGrows
  <2>8. q[k] = x
    BY <2>6, <2>7 DEF Orders
  <2> QED
    BY <2>5, <2>8
<1>8. ASSUME NEW j \in 1 .. n, NEW k \in 1 .. n, q[j] = q[k] PROVE j = k
  <2>1. j - 1 = k - 1 /\ j \in Int /\ k \in Int
    BY <1>2, <1>8
  <2> QED
    BY <2>1
<1> QED
  BY <1>1, <1>2, <1>3, <1>4, <1>6, <1>7, <1>8 DEF Ranks

(* The first k of a ranking are k elements, those before the next.         *)
LEMMA RankingPrefix ==
  ASSUME NEW R, NEW S, IsFiniteSet(S), Orders(R, S), NEW q, Places(R, S, q),
         NEW k \in 0 .. Cardinality(S), NEW P, P = {q[j] : j \in 1 .. k}
  PROVE  /\ P \subseteq S /\ IsFiniteSet(P) /\ Cardinality(P) = k
         /\ \A x \in P, y \in S \ P : <<x, y>> \in R
<1> PICK n : n = Cardinality(S)
  OBVIOUS
<1>0. Ranks(R, S, q, n)
  BY RankingIs
<1>1. /\ n \in Nat /\ \A j \in 1 .. n : q[j] \in S
      /\ \A x \in S : \E j \in 1 .. n : q[j] = x
      /\ \A i, j \in 1 .. n : i < j <=> <<q[i], q[j]>> \in R
      /\ \A i, j \in 1 .. n : q[i] = q[j] => i = j
  BY <1>0 DEF Ranks
<1>2. k \in Nat /\ k <= n
  BY <1>1
<1>3. P \subseteq S
  BY <1>1, <1>2
<1>4. IsFiniteSet(P)
  BY <1>3, FS_Subset
<1> PICK f : f = [j \in 1 .. k |-> q[j]]
  OBVIOUS
<1>5. f \in Surjection(1 .. k, P) /\ f \in Injection(1 .. k, P)
  <2>1. f \in [1 .. k -> P]
    OBVIOUS
  <2>2. \A x \in P : \E j \in 1 .. k : f[j] = x
    OBVIOUS
  <2>3. \A i, j \in 1 .. k : f[i] = f[j] => i = j
    BY <1>1, <1>2
  <2> QED
    BY <2>1, <2>2, <2>3 DEF Surjection, Injection, IsInjective
<1>6. IsFiniteSet(1 .. k) /\ Cardinality(1 .. k) = k
  BY <1>2, FS_Interval
<1>7. Cardinality(P) = k
  BY <1>5, <1>6, FS_Surjection
<1>8. ASSUME NEW x \in P, NEW y \in S \ P PROVE <<x, y>> \in R
  <2>1. PICK i \in 1 .. k : q[i] = x
    OBVIOUS
  <2>2. PICK j \in 1 .. n : q[j] = y
    BY <1>1
  <2>3. j \notin 1 .. k
    BY <2>2
  <2>4. i \in 1 .. n /\ i < j
    BY <1>1, <1>2, <2>3
  <2> QED
    BY <1>1, <2>1, <2>2, <2>4
<1> QED
  BY <1>3, <1>4, <1>7, <1>8

-----------------------------------------------------------------------------
(* The composition of a working set.  What it keeps at every step: each    *)
(* candidate chosen once, the tokens and the budget, in each mode what its *)
(* loops have established so far, and at the end what they stopped at.     *)

Costs == [c \in DOMAIN offered |-> offered[c].tokens]
Slots == IF request.items = Unlimited THEN Cardinality(DOMAIN offered) ELSE request.items

ComposeTypes ==
  /\ offered \in Offers
  /\ request \in [mode : {"Search", "WorkingSet"}, items : Nat \cup {Unlimited},
                  tokens : Nat \cup {Unlimited}, quota : Nat]
  /\ phase \in {"search", "replay", "fill", "done"}
  /\ selected \in Seq([id : DOMAIN offered, reason : {"HighValue", "ReplayDue", "DiversityCut"}])
  /\ tokens \in Nat
ChosenOnce ==
  \A i, j \in DOMAIN selected : selected[i].id = selected[j].id => i = j
TokensAddUp == tokens = SumOver(Costs, Chosen)
WithinBudget ==
  /\ request.items # Unlimited => Len(selected) <= request.items
  /\ request.tokens # Unlimited => tokens <= request.tokens
PhaseOfMode ==
  /\ phase = "search" => request.mode = "Search"
  /\ phase \in {"replay", "fill"} => request.mode = "WorkingSet"
SearchSoFar == request.mode = "Search" => \A c \in Chosen, d \in Rest : Before(c, d)
ReplaySoFar ==
  /\ phase = "replay" => \A i \in DOMAIN selected : selected[i].reason = "ReplayDue"
  /\ request.mode = "WorkingSet" => Cardinality(Replayed) <= ReplaySlots
Leads(c, S) == c \in S /\ \A d \in S \ {c} : Before(c, d)
DueNext == {c \in DOMAIN offered : ReplayDue(c)} \ Replayed
ReplayStopped ==
  request.mode = "WorkingSet" /\ phase \in {"fill", "done"} =>
    \A c \in DueNext : Leads(c, DueNext) =>
      \/ Cardinality(Replayed) = ReplaySlots
      \/ /\ request.tokens # Unlimited
         /\ SumOver(Costs, Replayed) + offered[c].tokens > request.tokens
FillSoFar ==
  request.mode = "WorkingSet" =>
    \A c \in Rest, d \in Chosen \ Replayed :
      ~ /\ IsFinite(c) /\ Before(c, d)
        /\ offered[c].words = offered[d].words
        /\ offered[c].tokens <= offered[d].tokens
Stopped ==
  phase = "done" =>
    /\ request.mode = "Search" => \A c \in Rest : Leads(c, Rest) => ~Fits(c)
    /\ request.mode = "WorkingSet" => Fillable = {}
Explains(o) ==
  LET listed == {o.listed[k] : k \in DOMAIN o.listed}
  IN  /\ o.total \in Nat /\ Len(o.listed) <= OmittedCap
      /\ o.total + Len(selected) = Cardinality(DOMAIN offered)
      /\ listed \subseteq Rest
      /\ Rest # listed => Cardinality(listed) = OmittedCap
      /\ \A c \in listed, d \in Rest \ listed : Before(c, d)
Explained == IF phase = "done" THEN Explains(omitted) ELSE omitted = Nothing

ComposeInv ==
  /\ ComposeTypes /\ ChosenOnce /\ TokensAddUp /\ WithinBudget /\ PhaseOfMode
  /\ SearchSoFar /\ ReplaySoFar /\ ReplayStopped /\ FillSoFar /\ Stopped /\ Explained

Nearer == {p \in (DOMAIN offered) \X (DOMAIN offered) : Before(p[1], p[2])}

(* An offer has finitely many candidates, each with what the policy reads. *)
LEMMA OfferIs ==
  ASSUME offered \in Offers
  PROVE  /\ IsFiniteSet(DOMAIN offered) /\ DOMAIN offered \subseteq Int
         /\ Cardinality(DOMAIN offered) \in Nat
         /\ \A c \in DOMAIN offered :
              /\ offered[c].relevance \in Int /\ offered[c].tokens \in Nat
              /\ IsFiniteSet(offered[c].words)
         /\ \A c \in DOMAIN offered : Costs[c] = offered[c].tokens /\ Costs[c] \in Nat
         /\ MmrLambda \in Nat /\ OmittedCap \in Nat /\ Unlimited \notin Int
<1>1. /\ IsFiniteSet(DOMAIN offered) /\ DOMAIN offered \subseteq Int
      /\ \A c \in DOMAIN offered :
              /\ offered[c].relevance \in Int /\ offered[c].tokens \in Nat
              /\ IsFiniteSet(offered[c].words)
      /\ MmrLambda \in Nat /\ OmittedCap \in Nat /\ Unlimited \notin Int
  BY ComposeAssumption
<1>2. Cardinality(DOMAIN offered) \in Nat
  BY <1>1, FS_CardinalityType
<1>3. \A c \in DOMAIN offered : Costs[c] = offered[c].tokens /\ Costs[c] \in Nat
  BY <1>1 DEF Costs
<1> QED
  BY <1>1, <1>2, <1>3

(* Rank is a strict total order of the offer.                              *)
LEMMA RankOrders ==
  ASSUME offered \in Offers
  PROVE  /\ Orders(Nearer, DOMAIN offered)
         /\ \A c, d \in DOMAIN offered : <<c, d>> \in Nearer <=> Before(c, d)
         /\ \A c, d \in DOMAIN offered : ~(Before(c, d) /\ Before(d, c))
<1>1. DOMAIN offered \subseteq Int /\ \A c \in DOMAIN offered : offered[c].relevance \in Int
  BY OfferIs
<1>2. \A c, d \in DOMAIN offered : <<c, d>> \in Nearer <=> Before(c, d)
  BY DEF Nearer
<1>3. \A c \in DOMAIN offered : ~Before(c, c)
  BY <1>1 DEF Before
<1>4. \A c, d, e \in DOMAIN offered : Before(c, d) /\ Before(d, e) => Before(c, e)
  BY <1>1 DEF Before
<1>5. \A c, d \in DOMAIN offered : c = d \/ Before(c, d) \/ Before(d, c)
  BY <1>1 DEF Before
<1>6. \A c, d \in DOMAIN offered : ~(Before(c, d) /\ Before(d, c))
  BY <1>3, <1>4
<1> HIDE DEF Nearer
<1>7. Orders(Nearer, DOMAIN offered)
  BY <1>2, <1>3, <1>4, <1>5 DEF Orders
<1> QED
  BY <1>2, <1>6, <1>7

LEMMA FirstIs ==
  ASSUME offered \in Offers, NEW S \in SUBSET DOMAIN offered, S # {}
  PROVE  First(S) \in S /\ \A d \in S \ {First(S)} : Before(First(S), d)
<1>1. IsFiniteSet(S) /\ Orders(Nearer, S)
  BY OfferIs, RankOrders, OrdersPart, FS_Subset
<1>2. PICK c \in S : \A d \in S \ {c} : <<c, d>> \in Nearer
  BY <1>1, FirstExists
<1>3. \A d \in S \ {c} : Before(c, d)
  BY <1>2, RankOrders
<1> QED
  BY <1>3 DEF First

LEMMA ChosenIs ==
  ASSUME ComposeTypes
  PROVE  /\ Chosen \subseteq DOMAIN offered /\ Rest \subseteq DOMAIN offered
         /\ Replayed \subseteq Chosen
         /\ IsFiniteSet(Chosen) /\ IsFiniteSet(Rest) /\ IsFiniteSet(Replayed)
         /\ Cardinality(Chosen) \in Nat /\ Cardinality(Rest) \in Nat
         /\ Cardinality(Replayed) \in Nat
         /\ Len(selected) \in Nat /\ DOMAIN selected = 1 .. Len(selected)
<1>1. /\ DOMAIN selected = 1 .. Len(selected) /\ Len(selected) \in Nat
      /\ \A i \in DOMAIN selected : selected[i].id \in DOMAIN offered
  <2> PICK E : E = [id : DOMAIN offered, reason : {"HighValue", "ReplayDue", "DiversityCut"}]
    OBVIOUS
  <2>1. selected \in Seq(E)
    BY DEF ComposeTypes
  <2>2. /\ DOMAIN selected = 1 .. Len(selected) /\ Len(selected) \in Nat
        /\ \A i \in DOMAIN selected : selected[i] \in E
    BY ONLY <2>1
  <2> QED
    BY <2>2
<1>2. /\ Chosen \subseteq DOMAIN offered /\ Rest \subseteq DOMAIN offered
      /\ Replayed \subseteq Chosen
  BY <1>1 DEF Chosen, Rest, Replayed
<1>3. IsFiniteSet(DOMAIN offered)
  BY OfferIs DEF ComposeTypes
<1>4. IsFiniteSet(Chosen) /\ IsFiniteSet(Rest) /\ IsFiniteSet(Replayed)
  <2>1. Chosen \in SUBSET DOMAIN offered /\ Rest \in SUBSET DOMAIN offered
        /\ Replayed \in SUBSET DOMAIN offered
    BY <1>2
  <2> QED
    BY <1>3, <2>1, FS_Subset
<1> QED
  BY <1>1, <1>2, <1>4, FS_CardinalityType

(* As many are chosen as are selected.                                     *)
LEMMA ChosenCount ==
  ASSUME ComposeTypes, ChosenOnce
  PROVE  Cardinality(Chosen) = Len(selected)
<1> PICK n : n = Len(selected)
  OBVIOUS
<1> PICK f : f = [i \in 1 .. n |-> selected[i].id]
  OBVIOUS
<1>1. n \in Nat /\ DOMAIN selected = 1 .. n
  BY ChosenIs
<1>2. f \in Surjection(1 .. n, Chosen) /\ f \in Injection(1 .. n, Chosen)
  <2>1. f \in [1 .. n -> Chosen]
    BY <1>1 DEF Chosen
  <2>2. \A x \in Chosen : \E i \in 1 .. n : f[i] = x
    BY <1>1 DEF Chosen
  <2>3. \A i, j \in 1 .. n : f[i] = f[j] => i = j
    BY <1>1 DEF ChosenOnce
  <2> QED
    BY <2>1, <2>2, <2>3 DEF Surjection, Injection, IsInjective
<1>3. IsFiniteSet(1 .. n) /\ Cardinality(1 .. n) = n
  <2> HIDE DEF ComposeTypes
  <2> QED
    BY ONLY <1>1, FS_Interval
<1> QED
  BY <1>2, <1>3, FS_Surjection

(* A candidate that fits is added to what is chosen, and to no more.       *)
LEMMA PushAdds ==
  ASSUME ComposeTypes, ChosenOnce, TokensAddUp, WithinBudget,
         NEW c \in Rest, Fits(c),
         NEW reason \in {"HighValue", "ReplayDue", "DiversityCut"}, Push(c, reason),
         phase' = phase
  PROVE  /\ ComposeTypes' /\ ChosenOnce' /\ TokensAddUp' /\ WithinBudget'
         /\ Len(selected') = Len(selected) + 1
         /\ \A i \in DOMAIN selected : i \in DOMAIN selected' /\ selected'[i] = selected[i]
         /\ Len(selected') \in DOMAIN selected'
         /\ selected'[Len(selected')] = [id |-> c, reason |-> reason]
         /\ Chosen' = Chosen \cup {c} /\ Rest' = Rest \ {c}
         /\ Replayed' = IF reason = "ReplayDue" THEN Replayed \cup {c} ELSE Replayed
         /\ offered' = offered /\ request' = request /\ omitted' = omitted
<1>1. /\ offered' = offered /\ request' = request /\ omitted' = omitted
      /\ selected' = Append(selected, [id |-> c, reason |-> reason])
      /\ tokens' = tokens + offered[c].tokens
  BY DEF Push
<1> PICK n : n = Len(selected)
  OBVIOUS
<1>2. /\ n \in Nat /\ DOMAIN selected = 1 .. n
      /\ selected \in Seq([id : DOMAIN offered, reason : {"HighValue", "ReplayDue", "DiversityCut"}])
  BY ChosenIs DEF ComposeTypes
<1>3. c \in DOMAIN offered /\ c \notin Chosen
  BY DEF Rest
<1>4. /\ Len(selected') = n + 1 /\ DOMAIN selected' = 1 .. (n + 1)
      /\ \A i \in 1 .. n : selected'[i] = selected[i]
      /\ selected'[n + 1] = [id |-> c, reason |-> reason]
      /\ selected' \in Seq([id : DOMAIN offered, reason : {"HighValue", "ReplayDue", "DiversityCut"}])
  BY <1>1, <1>2, <1>3
<1>5. /\ \A i \in DOMAIN selected' : i \in DOMAIN selected \/ i = n + 1
      /\ \A i \in DOMAIN selected : i \in DOMAIN selected' /\ i # n + 1
      /\ n + 1 \in DOMAIN selected'
  BY <1>2, <1>4
<1>6. Chosen' = Chosen \cup {c}
  BY <1>2, <1>4, <1>5 DEF Chosen
<1>7. Rest' = Rest \ {c}
  BY <1>1, <1>6 DEF Rest
<1>8. Replayed' = IF reason = "ReplayDue" THEN Replayed \cup {c} ELSE Replayed
  <2>1. \A i \in DOMAIN selected : selected'[i] = selected[i]
    BY <1>2, <1>4
  <2>2. CASE reason = "ReplayDue"
    BY <1>4, <1>5, <2>1, <2>2 DEF Replayed
  <2>3. CASE reason # "ReplayDue"
    BY <1>4, <1>5, <2>1, <2>3 DEF Replayed
  <2> QED
    BY <2>2, <2>3
<1>9. ComposeTypes'
  <2>1. offered[c].tokens \in Nat
    BY <1>3, OfferIs DEF ComposeTypes
  <2> QED
    BY <1>1, <1>4, <2>1 DEF ComposeTypes
<1>10. ChosenOnce'
  <2>1. \A i \in DOMAIN selected : selected[i].id \in Chosen
    BY DEF Chosen
  <2>2. \A i \in DOMAIN selected : selected'[i].id = selected[i].id /\ selected'[i].id # c
    BY <1>2, <1>3, <1>4, <2>1
  <2>3. selected'[n + 1].id = c
    BY <1>4
  <2> QED
    BY <1>5, <2>2, <2>3 DEF ChosenOnce
<1>11. TokensAddUp'
  <2>1. IsFiniteSet(Chosen) /\ \A x \in Chosen : Costs[x] \in Int
    BY ChosenIs, OfferIs DEF ComposeTypes
  <2>2. Costs[c] = offered[c].tokens /\ Costs[c] \in Int
    BY <1>3, OfferIs DEF ComposeTypes
  <2>3. SumOver(Costs, Chosen \cup {c}) = SumOver(Costs, Chosen) + Costs[c]
    BY <1>3, <2>1, <2>2, SumAdd
  <2>4. Costs' = Costs
    BY <1>1 DEF Costs
  <2>5. tokens' = SumOver(Costs, Chosen \cup {c})
    BY <1>1, <2>2, <2>3 DEF TokensAddUp
  <2>6. SumOver(Costs, Chosen)' = SumOver(Costs', Chosen')
    BY Zenon DEF SumOver, FoldFunctionOnSet, MapThenFoldSet
  <2> QED
    BY <1>6, <2>4, <2>5, <2>6, Zenon DEF TokensAddUp
<1>12. WithinBudget'
  BY <1>1, <1>2, <1>4 DEF WithinBudget, Fits
<1> QED
  BY <1>1, <1>2, <1>4, <1>5, <1>6, <1>7, <1>8, <1>9, <1>10, <1>11, <1>12

(* The marginal relevances, over positive sizes, are compared transitively. *)
LEMMA CrossTransitive ==
  ASSUME NEW a \in Int, NEW b \in Int, NEW c \in Int,
         NEW s \in Nat \ {0}, NEW t \in Nat \ {0}, NEW u \in Nat \ {0}
  PROVE  /\ a * t > b * s /\ b * u > c * t => a * u > c * s
         /\ a * t > b * s /\ b * u = c * t => a * u > c * s
         /\ a * t = b * s /\ b * u > c * t => a * u > c * s
         /\ a * t = b * s /\ b * u = c * t => a * u = c * s
<1> DEFINE x == a * u
           y == c * s
<1>1. /\ \A m, n \in Int, k \in Nat \ {0} : m > n => m * k > n * k
      /\ \A m, n \in Int, k \in Nat \ {0} : m * k > n * k => m > n
      /\ \A m, n \in Int, k \in Nat \ {0} : m * k = n * k => m = n
  OBVIOUS
<1>2. /\ a * t \in Int /\ b * s \in Int /\ b * u \in Int /\ c * t \in Int
      /\ x \in Int /\ y \in Int
  OBVIOUS
<1>3. /\ (a * t) * u = x * t /\ (b * s) * u = (b * u) * s /\ (c * t) * s = y * t
  OBVIOUS
<1> HIDE DEF x, y
<1>4. /\ x * t > y * t => x > y
      /\ x * t = y * t => x = y
  BY <1>1, <1>2
<1>5. /\ (a * t) * u \in Int /\ (b * s) * u \in Int /\ (c * t) * s \in Int
  BY <1>2
<1>6. /\ a * t > b * s => (a * t) * u > (b * s) * u
      /\ b * u > c * t => (b * u) * s > (c * t) * s
      /\ a * t = b * s => (a * t) * u = (b * s) * u
      /\ b * u = c * t => (b * u) * s = (c * t) * s
  BY <1>1, <1>2
<1> PICK p, q, r : p = (a * t) * u /\ q = (b * s) * u /\ r = (c * t) * s
  OBVIOUS
<1>7. p \in Int /\ q \in Int /\ r \in Int
  BY <1>5
<1>8. /\ a * t > b * s => p > q
      /\ b * u > c * t => q > r
      /\ a * t = b * s => p = q
      /\ b * u = c * t => q = r
  BY <1>3, <1>6, Zenon
<1>9. /\ p > r => x > y
      /\ p = r => x = y
  BY <1>3, <1>4, Zenon
<1>10. /\ p > q /\ q > r => p > r
       /\ p > q /\ q = r => p > r
       /\ p = q /\ q > r => p > r
       /\ p = q /\ q = r => p = r
  BY <1>7
<1>11. /\ a * t > b * s /\ b * u > c * t => x > y
       /\ a * t > b * s /\ b * u = c * t => x > y
       /\ a * t = b * s /\ b * u > c * t => x > y
       /\ a * t = b * s /\ b * u = c * t => x = y
  BY <1>8, <1>9, <1>10, Zenon
<1> QED
  BY <1>11 DEF x, y

LEMMA SizeIs ==
  ASSUME ComposeTypes, NEW c \in DOMAIN offered
  PROVE  Size(c) \in Nat \ {0} /\ Shared(c) \in Nat /\ Mmr(c) \in Int
<1>1. IsFiniteSet(offered[c].words) /\ offered[c].relevance \in Int /\ MmrLambda \in Nat
  BY OfferIs DEF ComposeTypes
<1>2. Cardinality(offered[c].words) \in Nat
  BY <1>1, FS_CardinalityType
<1>3. Shared(c) \in Nat
  <2>1. IsFiniteSet(offered[c].words \cap SelectedWords)
    BY <1>1, FS_Intersection
  <2> QED
    BY <2>1, FS_CardinalityType DEF Shared
<1>4. Size(c) \in Nat \ {0}
  <2> PICK k : k = Cardinality(offered[c].words)
    OBVIOUS
  <2>1. k \in Nat
    BY <1>2
  <2>2. Size(c) = Max({1, k})
    BY DEF Size
  <2>3. \E m \in {1, k} : \A j \in {1, k} : m >= j
    BY <2>1
  <2>4. Max({1, k}) \in {1, k} /\ Max({1, k}) >= 1
    BY <2>1, <2>3 DEF Max
  <2> QED
    BY <2>1, <2>2, <2>4
<1>5. Mmr(c) \in Int
  <2> PICK m, k, s : m = offered[c].relevance /\ k = Size(c) /\ s = Shared(c)
    OBVIOUS
  <2>1. Mmr(c) = MmrLambda * m * k - (100 - MmrLambda) * 100 * s
    BY DEF Mmr
  <2>2. m \in Int /\ k \in Int /\ s \in Int /\ MmrLambda \in Int
    BY <1>1, <1>3, <1>4
  <2> QED
    BY <2>1, <2>2
<1> QED
  BY <1>3, <1>4, <1>5

(* The candidates that may fill, by marginal relevance, then by rank.      *)
Dearer ==
  {p \in (DOMAIN offered) \X (DOMAIN offered) :
     Beats(p[1], p[2]) \/ (Equals(p[1], p[2]) /\ Before(p[1], p[2]))}

LEMMA BestIs ==
  ASSUME ComposeTypes, NEW S \in SUBSET DOMAIN offered, S # {}
  PROVE  /\ Best(S) \in S
         /\ \A d \in S \ {Best(S)} :
              Beats(Best(S), d) \/ (Equals(Best(S), d) /\ Before(Best(S), d))
<1>0. offered \in Offers /\ DOMAIN offered \subseteq Int /\ IsFiniteSet(S)
  BY OfferIs, FS_Subset DEF ComposeTypes
<1>1. \A c \in DOMAIN offered : Size(c) \in Nat \ {0} /\ Mmr(c) \in Int
  BY SizeIs
<1>2. /\ \A c, d, e \in DOMAIN offered : Before(c, d) /\ Before(d, e) => Before(c, e)
      /\ \A c \in DOMAIN offered : ~Before(c, c)
      /\ \A c, d \in DOMAIN offered : c = d \/ Before(c, d) \/ Before(d, c)
  <2>1. /\ Orders(Nearer, DOMAIN offered)
        /\ \A c, d \in DOMAIN offered : <<c, d>> \in Nearer <=> Before(c, d)
    BY <1>0, RankOrders
  <2> QED
    BY <2>1 DEF Orders
<1>3. \A c, d \in DOMAIN offered :
        <<c, d>> \in Dearer <=> Beats(c, d) \/ (Equals(c, d) /\ Before(c, d))
  BY DEF Dearer
<1>4. \A c, d \in DOMAIN offered : Mmr(c) * Size(d) \in Int
  BY <1>1
<1>5. \A c, d \in DOMAIN offered : Beats(c, d) \/ Beats(d, c) \/ (Equals(c, d) /\ Equals(d, c))
  BY <1>4 DEF Beats, Equals
<1>6. \A c \in DOMAIN offered : ~Beats(c, c)
  BY <1>4 DEF Beats
<1>7. ASSUME NEW c \in DOMAIN offered, NEW d \in DOMAIN offered, NEW e \in DOMAIN offered,
             <<c, d>> \in Dearer, <<d, e>> \in Dearer
      PROVE  <<c, e>> \in Dearer
  <2>1. /\ Beats(c, d) /\ Beats(d, e) => Beats(c, e)
        /\ Beats(c, d) /\ Equals(d, e) => Beats(c, e)
        /\ Equals(c, d) /\ Beats(d, e) => Beats(c, e)
        /\ Equals(c, d) /\ Equals(d, e) => Equals(c, e)
    <3> PICK m1, m2, m3, s1, s2, s3 :
          /\ m1 = Mmr(c) /\ m2 = Mmr(d) /\ m3 = Mmr(e)
          /\ s1 = Size(c) /\ s2 = Size(d) /\ s3 = Size(e)
      OBVIOUS
    <3>1. /\ m1 \in Int /\ m2 \in Int /\ m3 \in Int
          /\ s1 \in Nat \ {0} /\ s2 \in Nat \ {0} /\ s3 \in Nat \ {0}
      BY <1>1
    <3>2. /\ m1 * s2 > m2 * s1 /\ m2 * s3 > m3 * s2 => m1 * s3 > m3 * s1
          /\ m1 * s2 > m2 * s1 /\ m2 * s3 = m3 * s2 => m1 * s3 > m3 * s1
          /\ m1 * s2 = m2 * s1 /\ m2 * s3 > m3 * s2 => m1 * s3 > m3 * s1
          /\ m1 * s2 = m2 * s1 /\ m2 * s3 = m3 * s2 => m1 * s3 = m3 * s1
      BY ONLY <3>1, CrossTransitive
    <3> QED
      BY <3>2, Zenon DEF Beats, Equals
  <2> QED
    BY <1>2, <1>3, <1>7, <2>1
<1>8. Orders(Dearer, DOMAIN offered)
  <2> HIDE DEF Dearer
  <2>1. \A c \in DOMAIN offered : <<c, c>> \notin Dearer
    BY <1>2, <1>3, <1>6
  <2>2. \A c, d \in DOMAIN offered : c = d \/ <<c, d>> \in Dearer \/ <<d, c>> \in Dearer
    BY <1>2, <1>3, <1>5
  <2> QED
    BY <1>7, <2>1, <2>2 DEF Orders
<1>9. PICK c \in S : \A d \in S \ {c} : <<c, d>> \in Dearer
  BY <1>0, <1>8, OrdersPart, FirstExists
<1>10. \A d \in S \ {c} : Beats(c, d) \/ (Equals(c, d) /\ Before(c, d))
  BY <1>3, <1>9
<1> QED
  BY <1>10 DEF Best

(* Of two candidates that say the same the better ranked one is no worse.  *)
LEMMA SameWordsByRank ==
  ASSUME ComposeTypes, NEW c \in DOMAIN offered, NEW d \in DOMAIN offered,
         offered[c].words = offered[d].words, Before(c, d)
  PROVE  ~(Beats(d, c) \/ (Equals(d, c) /\ Before(d, c)))
<1>1. offered[c].relevance \in Int /\ offered[d].relevance \in Int /\ MmrLambda \in Nat
  BY OfferIs DEF ComposeTypes
<1> PICK m, n, k, s : /\ m = offered[c].relevance /\ n = offered[d].relevance
                      /\ k = Size(c) /\ s = Shared(c)
  OBVIOUS
<1>2. Size(d) = k /\ Shared(d) = s
  BY DEF Size, Shared
<1>3. k \in Nat \ {0} /\ s \in Nat
  BY SizeIs
<1>4. m >= n /\ ~Before(d, c)
  <2>1. ~(Before(c, d) /\ Before(d, c))
    BY RankOrders DEF ComposeTypes
  <2> QED
    BY <1>1, <2>1 DEF Before
<1>5. Mmr(c) >= Mmr(d) /\ Mmr(c) \in Int /\ Mmr(d) \in Int
  <2> PICK l, t : l = MmrLambda /\ t = (100 - MmrLambda) * 100 * s
    OBVIOUS
  <2>1. l \in Nat /\ t \in Int
    BY <1>1, <1>3
  <2>2. Mmr(c) = l * m * k - t /\ Mmr(d) = l * n * k - t
    BY <1>2 DEF Mmr
  <2>3. m \in Int /\ n \in Int
    BY <1>1
  <2>4. l * m >= l * n /\ l * m \in Int /\ l * n \in Int
    BY <1>4, <2>1, <2>3
  <2>5. \A x, y \in Int : x >= y => x * k >= y * k /\ x * k \in Int /\ y * k \in Int
    BY <1>3
  <2>6. (l * m) * k >= (l * n) * k /\ (l * m) * k \in Int /\ (l * n) * k \in Int
    BY <2>4, <2>5
  <2> QED
    BY <2>1, <2>2, <2>6
<1>6. ~Beats(d, c)
  <2> PICK x, y : x = Mmr(c) /\ y = Mmr(d)
    OBVIOUS
  <2>1. x \in Int /\ y \in Int /\ x >= y
    BY <1>5
  <2>2. ~(y * k > x * k)
    BY <1>3, <2>1
  <2> QED
    BY <1>2, <2>2 DEF Beats
<1> QED
  BY <1>4, <1>6

LEMMA InOrderIs ==
  ASSUME offered \in Offers, NEW S \in SUBSET DOMAIN offered
  PROVE  /\ IsFiniteSet(S) /\ Orders(Nearer, S) /\ Places(Nearer, S, InOrder(S))
<1>1. IsFiniteSet(S) /\ Orders(Nearer, S)
  BY OfferIs, RankOrders, OrdersPart, FS_Subset
<1> PICK n : n = Cardinality(S)
  OBVIOUS
<1>2. n \in Nat
  BY <1>1, FS_CardinalityType
<1>3. ASSUME NEW c \in S PROVE {d \in S : Before(d, c)} = Ahead(Nearer, S, c)
  BY RankOrders DEF Ahead
<1> PICK q : q = InOrder(S)
  OBVIOUS
<1>4. q = [k \in 1 .. n |-> CHOOSE c \in S : Cardinality({d \in S : Before(d, c)}) = k - 1]
  BY DEF InOrder
<1>5. ASSUME NEW k \in 1 .. n
      PROVE  q[k] \in S /\ Cardinality(Ahead(Nearer, S, q[k])) = k - 1
  <2>1. k - 1 \in 0 .. (Cardinality(S) - 1)
    BY <1>2
  <2>2. PICK c \in S : Cardinality(Ahead(Nearer, S, c)) = k - 1
    BY <1>1, <2>1, RankTakenByOne
  <2>3. Cardinality({d \in S : Before(d, c)}) = k - 1
    BY <1>3, <2>2
  <2>4. q[k] \in S /\ Cardinality({d \in S : Before(d, q[k])}) = k - 1
    BY <1>4, <2>3
  <2> QED
    BY <1>3, <2>4
<1>6. q = [k \in 1 .. n |-> q[k]]
  BY <1>4
<1>7. Places(Nearer, S, q)
  BY <1>5, <1>6 DEF Places
<1> QED
  BY <1>1, <1>7

LEMMA ReplaySlotsIs ==
  ASSUME ComposeTypes
  PROVE  /\ Slots \in Nat /\ ReplaySlots \in Nat /\ ReplaySlots <= Slots
         /\ ReplaySlots * 100 <= request.quota * Slots
         /\ request.items # Unlimited => Slots = request.items
<1>1. request.quota \in Nat /\ (request.items # Unlimited => request.items \in Nat)
  BY DEF ComposeTypes
<1>2. Slots \in Nat
  BY <1>1, OfferIs DEF Slots, ComposeTypes
<1> PICK s, q, x : s = Slots /\ q = request.quota /\ x = s * q
  OBVIOUS
<1> PICK d : d = x \div 100
  OBVIOUS
<1>3. s \in Nat /\ q \in Nat /\ x \in Nat
  BY <1>1, <1>2
<1>4. d \in Nat /\ d * 100 <= x
  BY <1>3
<1>5. ReplaySlots = IF d < s THEN d ELSE s
  BY DEF ReplaySlots, Slots, Lesser
<1>6. ReplaySlots \in Nat /\ ReplaySlots <= s /\ ReplaySlots <= d
  BY <1>3, <1>4, <1>5
<1>7. ReplaySlots * 100 <= x
  BY <1>3, <1>4, <1>6
<1>8. x = q * s
  BY <1>3
<1> QED
  BY <1>2, <1>6, <1>7, <1>8 DEF Slots

(* What is listed of the omissions, of all that was not chosen.            *)
LEMMA OmissionsExplain ==
  ASSUME ComposeTypes, ChosenOnce
  PROVE  Explains(Omissions)
<1> PICK S : S = Rest
  OBVIOUS
<1> PICK n, q, o : n = Cardinality(S) /\ q = InOrder(S) /\ o = Omissions
  OBVIOUS
<1>1. /\ S \in SUBSET DOMAIN offered /\ IsFiniteSet(S) /\ n \in Nat
      /\ offered \in Offers /\ OmittedCap \in Nat
  BY ChosenIs, OfferIs DEF ComposeTypes
<1>2. Orders(Nearer, S) /\ Places(Nearer, S, q) /\ Ranks(Nearer, S, q, n)
  BY <1>1, InOrderIs, RankingIs
<1> PICK m : m = Lesser(OmittedCap, Len(q))
  OBVIOUS
<1>3. o = [listed |-> [k \in 1 .. m |-> q[k]], total |-> n]
  BY DEF Omissions
<1>4. m \in 0 .. n /\ m <= OmittedCap /\ (m = n \/ m = OmittedCap)
  BY <1>1, <1>2 DEF Lesser, Ranks
<1> PICK L : L = {q[k] : k \in 1 .. m}
  OBVIOUS
<1>5. /\ o.total = n /\ DOMAIN o.listed = 1 .. m
      /\ \A k \in 1 .. m : o.listed[k] = q[k]
      /\ o.listed = [k \in 1 .. m |-> q[k]]
  BY <1>3
<1>6. Len(o.listed) = m
  BY <1>4, <1>5
<1>7. {o.listed[k] : k \in DOMAIN o.listed} = L
  BY <1>5
<1>8. /\ L \subseteq S /\ IsFiniteSet(L) /\ Cardinality(L) = m
      /\ \A c \in L, d \in S \ L : <<c, d>> \in Nearer
  <2>1. IsFiniteSet(S) /\ Orders(Nearer, S) /\ Places(Nearer, S, q)
    BY <1>1, <1>2
  <2>2. m \in 0 .. Cardinality(S) /\ L = {q[k] : k \in 1 .. m}
    BY <1>4
  <2> QED
    BY ONLY <2>1, <2>2, RankingPrefix
<1>9. \A c \in L, d \in S \ L : Before(c, d)
  BY <1>1, <1>8, RankOrders
<1>10. S # L => m = OmittedCap
  <2> SUFFICES ASSUME m = n PROVE S = L
    BY <1>4
  <2> QED
    BY <1>1, <1>8, FS_Subset
<1>11. n + Len(selected) = Cardinality(DOMAIN offered)
  <2>1. S = DOMAIN offered \ Chosen /\ Chosen \subseteq DOMAIN offered
    BY ChosenIs DEF Rest
  <2>2. DOMAIN offered = S \cup Chosen /\ S \cap Chosen = {}
    BY <2>1
  <2>3. Cardinality(S \cup Chosen) = Cardinality(S) + Cardinality(Chosen) - Cardinality({})
    BY <1>1, <2>2, ChosenIs, FS_Union
  <2>4. Cardinality({}) = 0 /\ Cardinality(Chosen) = Len(selected)
        /\ Cardinality(Chosen) \in Nat
    BY FS_EmptySet, ChosenCount, ChosenIs
  <2>5. Cardinality(DOMAIN offered) = Cardinality(S) + Cardinality(Chosen) - Cardinality({})
    BY <2>2, <2>3, Zenon
  <2> QED
    BY <1>1, <2>4, <2>5
<1>12. Explains(o)
  BY <1>1, <1>4, <1>5, <1>6, <1>7, <1>8, <1>9, <1>10, <1>11 DEF Explains
<1> QED
  BY <1>12

LEMMA ComposeStarts ==
  ASSUME ComposeInit
  PROVE  ComposeInv
<1>1. offered \in Offers /\ selected = <<>> /\ tokens = 0 /\ omitted = Nothing
  BY DEF ComposeInit
<1>2. request \in [mode : {"Search", "WorkingSet"}, items : Nat \cup {Unlimited},
                   tokens : Nat \cup {Unlimited}, quota : Nat]
  <2>1. PICK r \in RecallRequests, q \in Quotas :
          request = [mode |-> r.mode, items |-> r.items, tokens |-> r.tokens, quota |-> q]
    BY DEF ComposeInit
  <2>2. /\ r \in [mode : {"Search", "WorkingSet"}, items : Nat \cup {Unlimited},
                  tokens : Nat \cup {Unlimited}]
        /\ q \in Nat
    BY ComposeAssumption
  <2> QED
    BY <2>1, <2>2
<1>3. phase = IF offered = <<>> THEN "done"
              ELSE IF request.mode = "Search" THEN "search" ELSE "replay"
  BY DEF ComposeInit
<1>4. ComposeTypes
  <2>1. \A E : <<>> \in Seq(E)
    OBVIOUS
  <2> QED
    BY <1>1, <1>2, <1>3, <2>1 DEF ComposeTypes
<1>5. DOMAIN selected = {} /\ Chosen = {} /\ Replayed = {} /\ Rest = DOMAIN offered
  <2>1. DOMAIN selected = {}
    BY <1>1
  <2> QED
    BY <2>1 DEF Chosen, Replayed, Rest
<1>6. ChosenOnce
  BY <1>5 DEF ChosenOnce
<1>7. TokensAddUp
  <2>1. SumOver(Costs, {}) = 0
    BY SumEmpty
  <2> QED
    BY <1>1, <1>5, <2>1 DEF TokensAddUp
<1>8. WithinBudget
  BY <1>1, <1>2 DEF WithinBudget
<1>9. PhaseOfMode
  BY <1>2, <1>3 DEF PhaseOfMode
<1>10. SearchSoFar /\ FillSoFar
  BY <1>5 DEF SearchSoFar, FillSoFar
<1>11. ReplaySoFar
  <2>1. Cardinality(Replayed) = 0
    BY <1>5, FS_EmptySet
  <2> QED
    BY <1>4, <1>5, <2>1, ReplaySlotsIs DEF ReplaySoFar
<1>12. phase \in {"fill", "done"} => DOMAIN offered = {} /\ phase = "done"
  BY <1>3
<1>13. ReplayStopped
  BY <1>12 DEF ReplayStopped, DueNext
<1>14. Stopped
  BY <1>5, <1>12 DEF Stopped, Fillable
<1>15. Explained
  <2>1. CASE phase = "done"
    <3>1. DOMAIN offered = {} /\ Rest = {}
      BY <1>5, <1>12, <2>1
    <3>2. omitted = [listed |-> <<>>, total |-> 0]
      BY <1>1 DEF Nothing
    <3>3. {omitted.listed[k] : k \in DOMAIN omitted.listed} = {} /\ Len(omitted.listed) = 0
          /\ omitted.total = 0 /\ Len(selected) = 0
      BY <1>1, <3>2
    <3>4. Cardinality(DOMAIN offered) = 0 /\ OmittedCap \in Nat
      BY <1>1, <3>1, FS_EmptySet, OfferIs
    <3>5. Explains(omitted)
      BY <3>1, <3>3, <3>4 DEF Explains
    <3> QED
      BY <2>1, <3>5 DEF Explained
  <2> QED
    BY <1>1, <2>1 DEF Explained
<1> QED
  BY <1>4, <1>6, <1>7, <1>8, <1>9, <1>10, <1>11, <1>13, <1>14, <1>15 DEF ComposeInv

LEMMA SearchNextKeeps ==
  ASSUME ComposeInv, SearchNext
  PROVE  ComposeInv'
<1> PICK c : c = First(Rest)
  OBVIOUS
<1>1. /\ ComposeTypes /\ ChosenOnce /\ TokensAddUp /\ WithinBudget /\ PhaseOfMode
      /\ SearchSoFar /\ Explained
  BY DEF ComposeInv
<1>2. /\ phase = "search" /\ phase' = phase /\ Rest # {} /\ Fits(c)
      /\ Push(c, "HighValue") /\ request.mode = "Search"
  BY <1>1 DEF SearchNext, Searchable, PhaseOfMode
<1>3. c \in Rest /\ \A d \in Rest \ {c} : Before(c, d)
  BY <1>1, <1>2, FirstIs, ChosenIs DEF ComposeTypes
<1>4. /\ ComposeTypes' /\ ChosenOnce' /\ TokensAddUp' /\ WithinBudget'
      /\ Chosen' = Chosen \cup {c} /\ Rest' = Rest \ {c}
      /\ offered' = offered /\ request' = request /\ omitted' = omitted
  BY <1>1, <1>2, <1>3, PushAdds
<1>5. PhaseOfMode'
  BY <1>2, <1>4 DEF PhaseOfMode
<1>6. SearchSoFar'
  <2>1. \A x \in Chosen, d \in Rest : Before(x, d)
    BY <1>1, <1>2 DEF SearchSoFar
  <2>2. \A x \in Chosen', d \in Rest' : Before(x, d)
    BY <1>3, <1>4, <2>1
  <2>3. \A x, d : Before(x, d)' <=> Before(x, d)
    BY <1>4 DEF Before
  <2> QED
    BY <2>2, <2>3 DEF SearchSoFar
<1>7. request'.mode # "WorkingSet" /\ phase' = "search"
  BY <1>2, <1>4
<1>8. ReplaySoFar' /\ ReplayStopped' /\ FillSoFar' /\ Stopped'
  BY <1>7 DEF ReplaySoFar, ReplayStopped, FillSoFar, Stopped
<1>9. Explained'
  BY <1>1, <1>4, <1>7, <1>2 DEF Explained, Nothing
<1> QED
  BY <1>4, <1>5, <1>6, <1>8, <1>9 DEF ComposeInv

(* What a push leaves of the offer reads as before.                        *)
LEMMA OfferReads ==
  ASSUME offered' = offered, request' = request
  PROVE  /\ \A c, d : Before(c, d)' <=> Before(c, d)
         /\ \A c : ReplayDue(c)' <=> ReplayDue(c)
         /\ \A c : IsFinite(c)' <=> IsFinite(c)
         /\ Costs' = Costs /\ ReplaySlots' = ReplaySlots
<1>1. \A c, d : Before(c, d)' <=> Before(c, d)
  BY DEF Before
<1>2. \A c : ReplayDue(c)' <=> ReplayDue(c)
  BY DEF ReplayDue, SinceAccess
<1>3. \A c : IsFinite(c)' <=> IsFinite(c)
  BY DEF IsFinite
<1>4. Costs' = Costs
  BY DEF Costs
<1>5. ReplaySlots' = ReplaySlots
  BY DEF ReplaySlots, Lesser
<1> QED
  BY <1>1, <1>2, <1>3, <1>4, <1>5

LEMMA ReplayNextKeeps ==
  ASSUME ComposeInv, ReplayNext
  PROVE  ComposeInv'
<1> PICK c : c = First(DueLeft)
  OBVIOUS
<1>1. /\ ComposeTypes /\ ChosenOnce /\ TokensAddUp /\ WithinBudget /\ PhaseOfMode
      /\ ReplaySoFar /\ Explained
  BY DEF ComposeInv
<1>2. /\ phase = "replay" /\ phase' = phase /\ DueLeft # {} /\ Fits(c)
      /\ Len(selected) < ReplaySlots
      /\ Push(c, "ReplayDue") /\ request.mode = "WorkingSet"
  BY <1>1 DEF ReplayNext, Replayable, PhaseOfMode
<1>3. c \in DueLeft /\ c \in Rest /\ ReplayDue(c)
  <2>1. DueLeft \in SUBSET DOMAIN offered /\ offered \in Offers
    BY <1>1, ChosenIs DEF DueLeft, ComposeTypes
  <2>2. c \in DueLeft
    BY <1>2, <2>1, FirstIs
  <2> QED
    BY <2>2 DEF DueLeft
<1>4. /\ ComposeTypes' /\ ChosenOnce' /\ TokensAddUp' /\ WithinBudget'
      /\ Len(selected') = Len(selected) + 1
      /\ selected' = Append(selected, [id |-> c, reason |-> "ReplayDue"])
      /\ Chosen' = Chosen \cup {c} /\ Rest' = Rest \ {c} /\ Replayed' = Replayed \cup {c}
      /\ offered' = offered /\ request' = request /\ omitted' = omitted
  <2>1. selected' = Append(selected, [id |-> c, reason |-> "ReplayDue"])
    BY <1>2 DEF Push
  <2> QED
    BY <1>1, <1>2, <1>3, <2>1, PushAdds
<1>5. PhaseOfMode' /\ SearchSoFar' /\ ReplayStopped' /\ Stopped'
  BY <1>2, <1>4 DEF PhaseOfMode, SearchSoFar, ReplayStopped, Stopped
<1>6. \A i \in DOMAIN selected' : selected'[i].reason = "ReplayDue"
  <2>1. \A i \in DOMAIN selected : selected[i].reason = "ReplayDue"
    BY <1>1, <1>2 DEF ReplaySoFar
  <2>2. /\ \A i \in DOMAIN selected : i \in DOMAIN selected' /\ selected'[i] = selected[i]
        /\ selected'[Len(selected')] = [id |-> c, reason |-> "ReplayDue"]
    BY <1>1, <1>2, <1>3, PushAdds
  <2>3. DOMAIN selected = 1 .. Len(selected) /\ Len(selected) \in Nat
        /\ DOMAIN selected' = 1 .. Len(selected')
    BY <1>1, <1>4, ChosenIs DEF ComposeTypes
  <2>4. \A i \in DOMAIN selected' : i \in DOMAIN selected \/ i = Len(selected')
    BY <1>4, <2>3
  <2> QED
    BY <2>1, <2>2, <2>4
<1>7. Replayed' = Chosen'
  <2>1. {j \in DOMAIN selected' : selected'[j].reason = "ReplayDue"} = DOMAIN selected'
    BY <1>6
  <2> QED
    BY <2>1 DEF Replayed, Chosen
<1>8. ReplaySoFar'
  <2>1. Cardinality(Chosen') = Len(selected')
    <3>1. c \notin Chosen /\ IsFiniteSet(Chosen) /\ Cardinality(Chosen) = Len(selected)
      BY <1>1, <1>3, ChosenIs, ChosenCount DEF Rest
    <3>2. Cardinality(Chosen \cup {c}) = Cardinality(Chosen) + 1
      BY <3>1, FS_AddElement
    <3> QED
      BY <1>4, <3>1, <3>2
  <2>2. Len(selected') <= ReplaySlots
    BY <1>1, <1>2, <1>4, ChosenIs, ReplaySlotsIs
  <2>3. ReplaySlots' = ReplaySlots
    BY <1>4, OfferReads
  <2>4. Cardinality(Replayed') <= ReplaySlots'
    BY <1>7, <2>1, <2>2, <2>3
  <2> QED
    BY <1>6, <2>4 DEF ReplaySoFar
<1>9. FillSoFar'
  BY <1>7 DEF FillSoFar
<1>10. Explained'
  BY <1>1, <1>2, <1>4 DEF Explained, Nothing
<1> QED
  BY <1>4, <1>5, <1>8, <1>9, <1>10 DEF ComposeInv

LEMMA ReplayEndsKeeps ==
  ASSUME ComposeInv, ReplayEnds
  PROVE  ComposeInv'
<1>1. /\ ComposeTypes /\ ChosenOnce /\ TokensAddUp /\ WithinBudget /\ PhaseOfMode
      /\ ReplaySoFar /\ FillSoFar /\ Explained
  BY DEF ComposeInv
<1>2. /\ phase = "replay" /\ ~Replayable /\ phase' = "fill" /\ request.mode = "WorkingSet"
      /\ offered' = offered /\ request' = request /\ selected' = selected
      /\ tokens' = tokens /\ omitted' = omitted
  BY <1>1 DEF ReplayEnds, PhaseOfMode
<1>3. Chosen' = Chosen /\ Rest' = Rest /\ Replayed' = Replayed
  BY <1>2 DEF Chosen, Rest, Replayed
<1>4. ComposeTypes' /\ ChosenOnce' /\ TokensAddUp' /\ WithinBudget' /\ PhaseOfMode'
  <2>1. Costs' = Costs
    BY <1>2, OfferReads
  <2>2. TokensAddUp'
    BY <1>1, <1>2, <1>3, <2>1 DEF TokensAddUp, SumOver, FoldFunctionOnSet, MapThenFoldSet
  <2> QED
    BY <1>1, <1>2, <2>2 DEF ComposeTypes, ChosenOnce, WithinBudget, PhaseOfMode
<1>5. SearchSoFar' /\ Stopped' /\ Explained'
  BY <1>1, <1>2 DEF SearchSoFar, Stopped, Explained, Nothing
<1>6. ReplaySoFar'
  BY <1>1, <1>2, <1>3, OfferReads DEF ReplaySoFar
<1>7. FillSoFar'
  <2>1. \A c, d : Before(c, d)' <=> Before(c, d)
    BY <1>2, OfferReads
  <2> QED
    BY <1>1, <1>2, <1>3, <2>1 DEF FillSoFar, IsFinite
<1>8. ReplayStopped'
  <2>1. /\ Replayed = Chosen /\ Cardinality(Replayed) = Len(selected)
        /\ Len(selected) <= ReplaySlots
    <3>1. {j \in DOMAIN selected : selected[j].reason = "ReplayDue"} = DOMAIN selected
      BY <1>1, <1>2 DEF ReplaySoFar
    <3>2. Replayed = Chosen
      BY <3>1 DEF Replayed, Chosen
    <3> QED
      BY <1>1, <1>2, <3>2, ChosenCount DEF ReplaySoFar
  <2>2. DueNext = DueLeft
    BY <2>1 DEF DueNext, DueLeft, Rest
  <2>3. ASSUME NEW c \in DueNext, Leads(c, DueNext)
        PROVE  \/ Cardinality(Replayed) = ReplaySlots
               \/ /\ request.tokens # Unlimited
                  /\ SumOver(Costs, Replayed) + offered[c].tokens > request.tokens
    <3>1. DueLeft # {} /\ DueLeft \in SUBSET DOMAIN offered /\ offered \in Offers
      BY <1>1, <2>2, <2>3, ChosenIs DEF DueLeft, ComposeTypes
    <3> PICK f : f = First(DueLeft)
      OBVIOUS
    <3>2. f \in DueLeft /\ \A d \in DueLeft \ {f} : Before(f, d)
      BY <3>1, FirstIs
    <3>3. f = c
      <4>1. f # c => Before(f, c) /\ Before(c, f)
        BY <2>2, <2>3, <3>2 DEF Leads
      <4> QED
        BY <3>1, <3>2, <2>3, <2>2, <4>1, RankOrders
    <3>4. Len(selected) \in Nat /\ ReplaySlots \in Nat /\ ReplaySlots <= Slots
          /\ (request.items # Unlimited => Slots = request.items /\ Slots \in Nat)
      BY <1>1, ChosenIs, ReplaySlotsIs
    <3>5. CASE Len(selected) >= ReplaySlots
      BY <2>1, <3>4, <3>5
    <3>6. CASE Len(selected) < ReplaySlots
      <4>1. ~Fits(c)
        BY <1>2, <3>1, <3>3, <3>6 DEF Replayable
      <4>2. request.items # Unlimited => Len(selected) + 1 <= request.items
        BY <3>4, <3>6
      <4>3. request.tokens # Unlimited /\ ~(tokens + offered[c].tokens <= request.tokens)
        BY <4>1, <4>2 DEF Fits
      <4>4. tokens \in Nat /\ offered[c].tokens \in Nat
            /\ (request.tokens # Unlimited => request.tokens \in Nat)
        BY <1>1, <2>3, <2>2, <3>1, OfferIs DEF ComposeTypes
      <4>5. tokens = SumOver(Costs, Replayed)
        BY <1>1, <2>1 DEF TokensAddUp
      <4> QED
        BY <4>3, <4>4, <4>5
    <3> QED
      BY <3>4, <3>5, <3>6
  <2>4. DueNext' = DueNext
    BY <1>2, <1>3, OfferReads DEF DueNext
  <2>5. \A c : Leads(c, DueNext)' <=> Leads(c, DueNext)
    BY <1>2, <2>4, OfferReads DEF Leads
  <2>6. ReplaySlots' = ReplaySlots /\ Costs' = Costs
    BY <1>2, OfferReads
  <2>7. SumOver(Costs, Replayed)' = SumOver(Costs, Replayed)
    BY <1>3, <2>6 DEF SumOver, FoldFunctionOnSet, MapThenFoldSet
  <2> QED
    BY <1>2, <1>3, <2>3, <2>4, <2>5, <2>6, <2>7 DEF ReplayStopped
<1> QED
  BY <1>4, <1>5, <1>6, <1>7, <1>8 DEF ComposeInv

LEMMA FillKeeps ==
  ASSUME ComposeInv, Fill
  PROVE  ComposeInv'
<1> PICK c : c = Best(Fillable)
  OBVIOUS
<1> PICK r : r = FillReason(c)
  OBVIOUS
<1>1. /\ ComposeTypes /\ ChosenOnce /\ TokensAddUp /\ WithinBudget /\ PhaseOfMode
      /\ ReplaySoFar /\ ReplayStopped /\ FillSoFar /\ Explained
  BY DEF ComposeInv
<1>2. /\ phase = "fill" /\ phase' = phase /\ Fillable # {}
      /\ Push(c, r) /\ request.mode = "WorkingSet"
  BY <1>1 DEF Fill, PhaseOfMode
<1>3. r \in {"HighValue", "ReplayDue", "DiversityCut"} /\ r # "ReplayDue"
  BY DEF FillReason
<1>4. /\ c \in Fillable /\ c \in Rest /\ Fits(c)
      /\ \A d \in Fillable \ {c} : Beats(c, d) \/ (Equals(c, d) /\ Before(c, d))
  <2>1. Fillable \in SUBSET DOMAIN offered
    BY <1>1, ChosenIs DEF Fillable
  <2>2. /\ c \in Fillable
        /\ \A d \in Fillable \ {c} : Beats(c, d) \/ (Equals(c, d) /\ Before(c, d))
    BY <1>1, <1>2, <2>1, BestIs
  <2> QED
    BY <2>2 DEF Fillable
<1>5. /\ ComposeTypes' /\ ChosenOnce' /\ TokensAddUp' /\ WithinBudget'
      /\ Chosen' = Chosen \cup {c} /\ Rest' = Rest \ {c} /\ Replayed' = Replayed
      /\ offered' = offered /\ request' = request /\ omitted' = omitted
  BY <1>1, <1>2, <1>3, <1>4, PushAdds
<1>6. /\ \A x, d : Before(x, d)' <=> Before(x, d)
      /\ \A x : ReplayDue(x)' <=> ReplayDue(x)
      /\ Costs' = Costs /\ ReplaySlots' = ReplaySlots
  BY <1>5, OfferReads
<1>7. PhaseOfMode' /\ SearchSoFar' /\ Stopped' /\ Explained'
  BY <1>1, <1>2, <1>5 DEF PhaseOfMode, SearchSoFar, Stopped, Explained, Nothing
<1>8. ReplaySoFar'
  BY <1>1, <1>2, <1>5, <1>6 DEF ReplaySoFar
<1>9. ReplayStopped'
  <2>1. DueNext' = DueNext
    BY <1>5, <1>6 DEF DueNext
  <2>2. \A x : Leads(x, DueNext)' <=> Leads(x, DueNext)
    BY <2>1, <1>6 DEF Leads
  <2>3. SumOver(Costs, Replayed)' = SumOver(Costs, Replayed)
    BY <1>5, <1>6 DEF SumOver, FoldFunctionOnSet, MapThenFoldSet
  <2> QED
    BY <1>1, <1>2, <1>5, <1>6, <2>1, <2>2, <2>3 DEF ReplayStopped
<1>10. FillSoFar'
  <2>1. ASSUME NEW x \in Rest, IsFinite(x), Before(x, c),
               offered[x].words = offered[c].words, offered[x].tokens <= offered[c].tokens,
               x # c
        PROVE  FALSE
    <3>1. x \in DOMAIN offered /\ c \in DOMAIN offered /\ offered \in Offers
      BY <1>1, <1>4, ChosenIs DEF ComposeTypes
    <3>2. offered[x].tokens \in Nat /\ offered[c].tokens \in Nat /\ tokens \in Nat
          /\ (request.tokens # Unlimited => request.tokens \in Nat)
      BY <1>1, <3>1, OfferIs DEF ComposeTypes
    <3>3. Fits(x)
      BY <1>4, <2>1, <3>2 DEF Fits
    <3>4. x \in Fillable
      BY <2>1, <3>3 DEF Fillable
    <3>5. Beats(c, x) \/ (Equals(c, x) /\ Before(c, x))
      BY <1>4, <2>1, <3>4
    <3> QED
      BY <1>1, <2>1, <3>1, <3>5, SameWordsByRank
  <2>2. \A x \in Rest, d \in Chosen \ Replayed :
          ~ /\ IsFinite(x) /\ Before(x, d)
            /\ offered[x].words = offered[d].words
            /\ offered[x].tokens <= offered[d].tokens
    BY <1>1, <1>2 DEF FillSoFar
  <2>3. \A x \in Rest \ {c}, d \in (Chosen \cup {c}) \ Replayed :
          ~ /\ IsFinite(x) /\ Before(x, d)
            /\ offered[x].words = offered[d].words
            /\ offered[x].tokens <= offered[d].tokens
    BY <2>1, <2>2
  <2> QED
    BY <1>5, <1>6, <2>3 DEF FillSoFar, IsFinite
<1> QED
  BY <1>5, <1>7, <1>8, <1>9, <1>10 DEF ComposeInv

LEMMA FinishKeeps ==
  ASSUME ComposeInv, Finish
  PROVE  ComposeInv'
<1>1. /\ ComposeTypes /\ ChosenOnce /\ TokensAddUp /\ WithinBudget /\ PhaseOfMode
      /\ SearchSoFar /\ ReplaySoFar /\ ReplayStopped /\ FillSoFar
  BY DEF ComposeInv
<1>2. /\ phase' = "done" /\ omitted' = Omissions
      /\ offered' = offered /\ request' = request /\ selected' = selected
      /\ tokens' = tokens
      /\ (phase = "search" /\ ~Searchable) \/ (phase = "fill" /\ Fillable = {})
  BY DEF Finish
<1>3. Chosen' = Chosen /\ Rest' = Rest /\ Replayed' = Replayed
  BY <1>2 DEF Chosen, Rest, Replayed
<1>4. ComposeTypes' /\ ChosenOnce' /\ TokensAddUp' /\ WithinBudget' /\ PhaseOfMode'
  <2>1. Costs' = Costs
    BY <1>2, OfferReads
  <2>2. TokensAddUp'
    BY <1>1, <1>2, <1>3, <2>1 DEF TokensAddUp, SumOver, FoldFunctionOnSet, MapThenFoldSet
  <2> QED
    BY <1>1, <1>2, <2>2 DEF ComposeTypes, ChosenOnce, WithinBudget, PhaseOfMode
<1>5. \A c, d : Before(c, d)' <=> Before(c, d)
  BY <1>2, OfferReads
<1>6. SearchSoFar' /\ FillSoFar'
  BY <1>1, <1>2, <1>3, <1>5 DEF SearchSoFar, FillSoFar, IsFinite
<1>7. ReplaySoFar'
  BY <1>1, <1>2, <1>3, OfferReads DEF ReplaySoFar
<1>8. ReplayStopped'
  <2>1. request.mode = "WorkingSet" => phase = "fill"
    BY <1>1, <1>2 DEF PhaseOfMode
  <2>2. DueNext' = DueNext
    BY <1>2, <1>3, OfferReads DEF DueNext
  <2>3. \A c : Leads(c, DueNext)' <=> Leads(c, DueNext)
    BY <1>5, <2>2 DEF Leads
  <2>4. ReplaySlots' = ReplaySlots /\ Costs' = Costs
    BY <1>2, OfferReads
  <2>5. SumOver(Costs, Replayed)' = SumOver(Costs, Replayed)
    BY <1>3, <2>4 DEF SumOver, FoldFunctionOnSet, MapThenFoldSet
  <2> QED
    BY <1>1, <1>2, <1>3, <2>1, <2>2, <2>3, <2>4, <2>5 DEF ReplayStopped
<1>9. Stopped'
  <2>1. request.mode = "Search" => \A c \in Rest : Leads(c, Rest) => ~Fits(c)
    <3> SUFFICES ASSUME request.mode = "Search", NEW c \in Rest, Leads(c, Rest)
                 PROVE  ~Fits(c)
      OBVIOUS
    <3>1. Rest \in SUBSET DOMAIN offered /\ Rest # {} /\ offered \in Offers
      BY <1>1, ChosenIs DEF ComposeTypes
    <3> PICK f : f = First(Rest)
      OBVIOUS
    <3>2. f \in Rest /\ \A d \in Rest \ {f} : Before(f, d)
      BY <3>1, FirstIs
    <3>3. f = c
      <4>1. f # c => Before(f, c) /\ Before(c, f)
        BY <3>2 DEF Leads
      <4> QED
        BY <3>1, <3>2, <4>1, RankOrders
    <3>4. ~Searchable
      BY <1>1, <1>2 DEF PhaseOfMode
    <3> QED
      BY <3>1, <3>3, <3>4 DEF Searchable
  <2>2. request.mode = "WorkingSet" => Fillable = {}
    BY <1>1, <1>2 DEF PhaseOfMode
  <2>3. /\ \A c : Fits(c)' <=> Fits(c)
        /\ \A c : Leads(c, Rest)' <=> Leads(c, Rest)
    BY <1>2, <1>3, <1>5 DEF Fits, Leads
  <2>4. Fillable' = Fillable
    BY <1>2, <1>3, <2>3 DEF Fillable, IsFinite
  <2> QED
    BY <1>2, <1>3, <2>1, <2>2, <2>3, <2>4 DEF Stopped
<1>10. Explained'
  <2> PICK o : o = Omissions
    OBVIOUS
  <2>1. Explains(o)
    BY <1>1, OmissionsExplain
  <2>2. Explains(omitted)'
    BY <1>2, <1>3, <1>5, <2>1 DEF Explains
  <2> QED
    BY <1>2, <2>2 DEF Explained
<1> QED
  BY <1>4, <1>6, <1>7, <1>8, <1>9, <1>10 DEF ComposeInv

LEMMA StutterKeeps ==
  ASSUME ComposeInv, UNCHANGED composeVars
  PROVE  ComposeInv'
<1>1. /\ offered' = offered /\ request' = request /\ phase' = phase
      /\ selected' = selected /\ tokens' = tokens /\ omitted' = omitted
  BY DEF composeVars
<1>2. Chosen' = Chosen /\ Rest' = Rest /\ Replayed' = Replayed
  BY <1>1 DEF Chosen, Rest, Replayed
<1>3. /\ \A c, d : Before(c, d)' <=> Before(c, d)
      /\ \A c : ReplayDue(c)' <=> ReplayDue(c)
      /\ Costs' = Costs /\ ReplaySlots' = ReplaySlots
  BY <1>1, OfferReads
<1>4. DueNext' = DueNext
  BY <1>1, <1>2, <1>3 DEF DueNext
<1>5. /\ \A c : Leads(c, DueNext)' <=> Leads(c, DueNext)
      /\ \A c : Leads(c, Rest)' <=> Leads(c, Rest)
      /\ \A c : Fits(c)' <=> Fits(c)
  BY <1>1, <1>2, <1>3, <1>4 DEF Leads, Fits
<1>6. Fillable' = Fillable
  BY <1>1, <1>2, <1>5 DEF Fillable, IsFinite
<1>7. /\ SumOver(Costs, Replayed)' = SumOver(Costs, Replayed)
      /\ SumOver(Costs, Chosen)' = SumOver(Costs, Chosen)
  BY <1>2, <1>3 DEF SumOver, FoldFunctionOnSet, MapThenFoldSet
<1>8. ComposeTypes' /\ ChosenOnce' /\ TokensAddUp' /\ WithinBudget' /\ PhaseOfMode'
  BY <1>1, <1>7 DEF ComposeInv, ComposeTypes, ChosenOnce, TokensAddUp, WithinBudget, PhaseOfMode
<1>9. SearchSoFar' /\ ReplaySoFar' /\ FillSoFar'
  BY <1>1, <1>2, <1>3 DEF ComposeInv, SearchSoFar, ReplaySoFar, FillSoFar, IsFinite
<1>10. ReplayStopped'
  BY <1>1, <1>2, <1>3, <1>4, <1>5, <1>7 DEF ComposeInv, ReplayStopped
<1>11. Stopped'
  BY <1>1, <1>2, <1>5, <1>6 DEF ComposeInv, Stopped
<1>12. Explained'
  <2> PICK o : o = omitted
    OBVIOUS
  <2>1. IF phase = "done" THEN Explains(o) ELSE o = Nothing
    BY DEF ComposeInv, Explained
  <2>2. Explains(o)' <=> Explains(o)
    BY <1>1, <1>2, <1>3 DEF Explains
  <2>3. omitted' = o /\ phase' = phase /\ Nothing' = Nothing
    BY <1>1 DEF Nothing
  <2>4. (phase = "done" => Explains(omitted)') /\ (phase # "done" => omitted' = Nothing')
    <3>1. phase = "done" => Explains(omitted)'
      BY <2>1, <2>3, <1>1, <1>2, <1>3, SMTT(30) DEF Explains
    <3> QED
      BY <2>1, <2>3, <3>1
  <2> QED
    BY <2>3, <2>4 DEF Explained
<1> QED
  BY <1>8, <1>9, <1>10, <1>11, <1>12 DEF ComposeInv

LEMMA ComposeStepKeeps ==
  ASSUME ComposeInv, [ComposeNext]_composeVars
  PROVE  ComposeInv'
<1>1. CASE SearchNext
  BY <1>1, SearchNextKeeps
<1>2. CASE ReplayNext
  BY <1>2, ReplayNextKeeps
<1>3. CASE ReplayEnds
  BY <1>3, ReplayEndsKeeps
<1>4. CASE Fill
  BY <1>4, FillKeeps
<1>5. CASE Finish
  BY <1>5, FinishKeeps
<1>6. CASE UNCHANGED composeVars
  BY <1>6, StutterKeeps
<1> QED
  BY <1>1, <1>2, <1>3, <1>4, <1>5, <1>6 DEF ComposeNext

(* The engine's check reads the tokens as the sum over what is chosen.     *)
LEMMA TokensAreTheSum ==
  ASSUME ComposeTypes, NEW S \in SUBSET DOMAIN offered
  PROVE  FoldFunction(+, 0, [c \in S |-> offered[c].tokens]) = SumOver(Costs, S)
<1> PICK f : f = [c \in S |-> offered[c].tokens]
  OBVIOUS
<1>1. IsFiniteSet(S) /\ \A c \in S : f[c] = Costs[c]
  BY OfferIs, FS_Subset DEF ComposeTypes, Costs
<1>2. SumOver(f, S) = SumOver(Costs, S)
  BY <1>1, SumSame
<1>3. FoldFunction(+, 0, f) = SumOver(f, DOMAIN f)
  BY Zenon DEF FoldFunction, SumOver
<1>4. DOMAIN f = S
  OBVIOUS
<1>5. FoldFunction(+, 0, f) = SumOver(f, S)
  BY <1>3, <1>4, Zenon
<1>6. FoldFunction(+, 0, f) = FoldFunction(+, 0, [c \in S |-> offered[c].tokens])
  BY Zenon
<1> QED
  BY <1>2, <1>5, <1>6, Zenon

LEMMA InvIsAccepted ==
  ASSUME ComposeInv
  PROVE  CompositionIsAccepted
<1>1. /\ ComposeTypes /\ ChosenOnce /\ TokensAddUp /\ WithinBudget /\ Explained
  BY DEF ComposeInv
<1>2. OmissionsAreTheNearest
  BY <1>1 DEF OmissionsAreTheNearest, Done, Explained, Explains
<1>3. omitted.total \in Nat /\ Len(omitted.listed) <= OmittedCap /\ OmittedCap \in Nat
      /\ \A k \in DOMAIN omitted.listed : omitted.listed[k] \in DOMAIN offered
  <2>1. OmittedCap \in Nat /\ Rest \subseteq DOMAIN offered
    BY <1>1, OfferIs, ChosenIs DEF ComposeTypes
  <2>2. CASE phase = "done"
    BY <1>1, <2>1, <2>2 DEF Explained, Explains
  <2>3. CASE phase # "done"
    <3>1. omitted = [listed |-> <<>>, total |-> 0]
      BY <1>1, <2>3 DEF Explained, Nothing
    <3>2. omitted.listed = <<>> /\ omitted.total = 0
      BY <3>1
    <3>3. Len(<<>>) = 0 /\ DOMAIN <<>> = {}
      OBVIOUS
    <3> QED
      BY <2>1, <3>2, <3>3
  <2> QED
    BY <2>2, <2>3
<1>4. ComposeTypeOK
  <2>1. DOMAIN selected = 1 .. Len(selected)
        /\ \A i \in DOMAIN selected :
             selected[i] \in [id : DOMAIN offered,
                              reason : {"HighValue", "ReplayDue", "DiversityCut"}]
    <3> PICK E : E = [id : DOMAIN offered, reason : {"HighValue", "ReplayDue", "DiversityCut"}]
      OBVIOUS
    <3>1. selected \in Seq(E)
      BY <1>1 DEF ComposeTypes
    <3>2. DOMAIN selected = 1 .. Len(selected) /\ \A i \in DOMAIN selected : selected[i] \in E
      BY ONLY <3>1
    <3> QED
      BY <3>2
  <2> QED
    BY <1>1, <1>3, <2>1 DEF ComposeTypeOK, ComposeTypes
<1>5. Accepted
  <2>1. Chosen \in SUBSET DOMAIN offered
    BY <1>1, ChosenIs
  <2>2. tokens = FoldFunction(+, 0, [c \in Chosen |-> offered[c].tokens])
    BY <1>1, <2>1, TokensAreTheSum DEF TokensAddUp
  <2>3. IsInjective([i \in DOMAIN selected |-> selected[i].id])
    BY <1>1 DEF ChosenOnce, IsInjective
  <2> QED
    BY <1>1, <1>3, <2>1, <2>2, <2>3 DEF Accepted, WithinBudget
<1> QED
  BY <1>2, <1>4, <1>5 DEF CompositionIsAccepted, WorkingSetIsAccepted

LEMMA InvChoosesTheBest ==
  ASSUME ComposeInv
  PROVE  TheBestThatFitsIsChosen
<1>1. /\ ComposeTypes /\ SearchSoFar /\ FillSoFar /\ Stopped
      /\ Chosen \subseteq DOMAIN offered /\ Rest \subseteq DOMAIN offered
      /\ offered \in Offers /\ request.mode \in {"Search", "WorkingSet"}
  BY ChosenIs DEF ComposeInv, ComposeTypes
<1>2. NothingThatFitsIsLeftOut
  BY <1>1 DEF NothingThatFitsIsLeftOut, Done, Stopped, Fillable
<1>3. SearchIsAPrefix
  <2> SUFFICES ASSUME phase = "done", request.mode = "Search"
               PROVE  /\ \A c \in Chosen, d \in Rest : Before(c, d)
                      /\ Rest # {} => ~Fits(First(Rest))
    BY DEF SearchIsAPrefix, Done
  <2>1. \A c \in Chosen, d \in Rest : Before(c, d)
    BY <1>1 DEF SearchSoFar
  <2>2. ASSUME Rest # {} PROVE ~Fits(First(Rest))
    <3> PICK f : f = First(Rest)
      OBVIOUS
    <3>1. f \in Rest /\ \A d \in Rest \ {f} : Before(f, d)
      BY <1>1, <2>2, FirstIs
    <3> QED
      BY <1>1, <3>1 DEF Stopped, Leads
  <2> QED
    BY <2>1, <2>2
<1>4. NoneIsPreferredToItsBetter
  <2> SUFFICES ASSUME phase = "done", NEW c \in Rest, NEW d \in Chosen \ Replayed,
                      IsFinite(c), Before(c, d), offered[c].words = offered[d].words,
                      offered[c].tokens <= offered[d].tokens
               PROVE  FALSE
    BY DEF NoneIsPreferredToItsBetter, Done
  <2>1. CASE request.mode = "Search"
    <3>1. Before(d, c)
      BY <1>1, <2>1 DEF SearchSoFar
    <3> QED
      BY <1>1, <3>1, RankOrders
  <2>2. CASE request.mode = "WorkingSet"
    BY <1>1, <2>2 DEF FillSoFar
  <2> QED
    BY <1>1, <2>1, <2>2
<1> QED
  BY <1>2, <1>3, <1>4 DEF TheBestThatFitsIsChosen

LEMMA InvReserves ==
  ASSUME ComposeInv
  PROVE  ReplayIsReserved
<1>1. /\ ComposeTypes /\ ReplaySoFar /\ ReplayStopped /\ offered \in Offers
      /\ Replayed \subseteq Chosen /\ Chosen \subseteq DOMAIN offered
      /\ Cardinality(Replayed) \in Nat
  BY ChosenIs DEF ComposeInv, ComposeTypes
<1> SUFFICES ASSUME phase = "done", request.mode = "WorkingSet"
             PROVE  ReplayIsReserved
  BY DEF ReplayIsReserved, Done
<1>2. Cardinality(Replayed) * 100 <= request.quota * Slots
  <2>1. Cardinality(Replayed) <= ReplaySlots
    BY <1>1 DEF ReplaySoFar
  <2>2. ReplaySlots \in Nat /\ ReplaySlots * 100 <= request.quota * Slots /\ Slots \in Nat
        /\ request.quota \in Nat
    BY <1>1, ReplaySlotsIs DEF ComposeTypes
  <2> PICK x : x = request.quota * Slots
    OBVIOUS
  <2>3. x \in Nat /\ ReplaySlots * 100 <= x
    BY <2>2
  <2> QED
    BY <1>1, <2>1, <2>2, <2>3
<1>3. ASSUME DueNext # {}
      PROVE  \/ Cardinality(Replayed) = ReplaySlots
             \/ /\ request.tokens # Unlimited
                /\ FoldFunction(+, 0, [c \in Replayed |-> offered[c].tokens])
                     + offered[First(DueNext)].tokens > request.tokens
  <2> PICK f : f = First(DueNext)
    OBVIOUS
  <2>1. f \in DueNext /\ \A d \in DueNext \ {f} : Before(f, d)
    BY <1>1, <1>3, FirstIs DEF DueNext
  <2>2. \/ Cardinality(Replayed) = ReplaySlots
        \/ /\ request.tokens # Unlimited
           /\ SumOver(Costs, Replayed) + offered[f].tokens > request.tokens
    BY <1>1, <2>1 DEF ReplayStopped, Leads
  <2>3. FoldFunction(+, 0, [c \in Replayed |-> offered[c].tokens]) = SumOver(Costs, Replayed)
    BY <1>1, TokensAreTheSum
  <2> QED
    BY <2>2, <2>3
<1> QED
  BY <1>2, <1>3 DEF ReplayIsReserved, DueNext, Slots, Done

(* What a composition keeps holds in every state of it.                    *)
LEMMA ComposeInvAlways == ComposeSpec => []ComposeInv
<1>1. ComposeInit => ComposeInv
  BY ComposeStarts
<1>2. ComposeInv /\ [ComposeNext]_composeVars => ComposeInv'
  BY ComposeStepKeeps
<1> QED
  BY <1>1, <1>2, PTL DEF ComposeSpec

(* Whatever the policy composes of an offer, of any size and under any     *)
(* budget, is at every step what the engine accepts, and in the end says   *)
(* of what it left out how much that is and what came nearest.             *)
THEOREM CompositionIsAcceptedAlways == ComposeSpec => []CompositionIsAccepted
BY ComposeInvAlways, InvIsAccepted, PTL

(* The room goes to the best that fits: a search answers with the longest  *)
(* prefix of the ranking that fits, a working set leaves out nothing       *)
(* finite that still would, and nothing is passed over for what says the   *)
(* same, costs no less and ranks lower.                                    *)
THEOREM TheBestThatFitsIsChosenAlways == ComposeSpec => []TheBestThatFitsIsChosen
BY ComposeInvAlways, InvChoosesTheBest, PTL

(* The reservation for replay is taken up to its quota, and yields only to *)
(* a due candidate too large for what replay had left.                     *)
THEOREM ReplayIsReservedAlways == ComposeSpec => []ReplayIsReserved
BY ComposeInvAlways, InvReserves, PTL

-----------------------------------------------------------------------------
(* The decisions on stored rows.  What is kept between the steps: the rows *)
(* and the counters that cover them, what each step of a run has decided   *)
(* so far, and, in a second run, what the first one has settled.           *)

RowsOK ==
  /\ IsFiniteSet(DOMAIN batch) /\ DOMAIN batch \subseteq Int
  /\ \A i \in DOMAIN batch : IsRow(batch[i])
Limit == Nat \cup {NoLimit}
CountersOK ==
  /\ capacity \in [items : Limit, bytes : Limit, usedItems : Nat, usedBytes : Nat]
  /\ capacity.usedItems >= Cardinality(DOMAIN batch)
  /\ capacity.usedBytes >= Bytes(batch, DOMAIN batch)
DecidedOK ==
  /\ stage \in {"start", "admitted", "expire", "reclaim", "regrant", "release", "merge",
                "apply", "done"}
  /\ config \in Configs
  /\ decided \in [expiries : SUBSET DOMAIN batch, reclaims : SUBSET DOMAIN batch,
                  regrants : SUBSET DOMAIN batch, releases : SUBSET DOMAIN batch,
                  merges : Seq((DOMAIN batch) \X (DOMAIN batch))]

Last(c, S) == c \in S /\ \A d \in S \ {c} : Cheaper(d, c)
Over(S) == WouldExceed(0, 0, Freed(capacity, S))
Evictable == {i \in DOMAIN batch : IsEvictable(batch[i])}

ExpiredSoFar ==
  decided.expiries =
    IF stage \in {"reclaim", "regrant", "release", "merge", "apply"} THEN Expiries ELSE {}
ReclaimedSoFar ==
  /\ stage \notin {"regrant", "release", "merge", "apply"} => decided.reclaims = {}
  /\ decided.reclaims \subseteq Evictable \ decided.expiries
  /\ decided.reclaims # {} => Over(decided.expiries)
  /\ \A d \in decided.reclaims : Last(d, decided.reclaims) => Over(Removed \ {d})
  /\ stage \in {"regrant", "release", "merge", "apply"} /\ Over(Removed) =>
       decided.reclaims = Evictable \ decided.expiries
RegrantedSoFar ==
  /\ stage \notin {"release", "merge", "apply"} => decided.regrants = {}
  /\ decided.regrants \subseteq Survivors \cap Evictable
  /\ decided.regrants # {} => Removed # {}
  /\ config.fragile > 50 => \A i \in decided.regrants : Survivors = {i}
ReleasedSoFar ==
  decided.releases = IF stage \in {"merge", "apply"} THEN Releases ELSE {}
Sides(n) == {decided.merges[n][1], decided.merges[n][2]}
MergedSoFar ==
  /\ stage # "apply" => decided.merges = <<>>
  /\ \A n \in DOMAIN decided.merges :
       LET gone == decided.merges[n][1]
           kept == decided.merges[n][2]
       IN  /\ gone \in Survivors /\ kept \in Survivors /\ gone # kept
           /\ MayGo(gone, kept)
           /\ Overlap(kept, gone) > Overlap(gone, kept) => ~MayGo(kept, gone)
  /\ \A m, n \in DOMAIN decided.merges : m # n => Sides(m) \cap Sides(n) = {}

FitsWithout(S) == ~WouldExceed(1, admission.candidate.bytes, Freed(capacity, S))
AdmissionSoFar ==
  /\ admission.evictions \subseteq Offered
  /\ admission.action \in {"Retain", "RetainProtected"} => FitsWithout(admission.evictions)
  /\ \A d \in admission.evictions :
       Last(d, admission.evictions) => ~FitsWithout(admission.evictions \ {d})
  /\ admission.action = "Reject" =>
       \/ BestScore(admission.candidate.near) >= DuplicateThreshold
       \/ ~FitsWithout(Offered)
  /\ admission.action = "Merge" =>
       admission.into \in DOMAIN admission.candidate.near /\ admission.evictions = {}
  /\ config.fragile > 50 /\ admission.action = "RetainProtected" =>
       DOMAIN admission.candidate.near = {}
  /\ stage # "admitted" => admission = NoAdmission

Settled ==
  runs # <<>> /\ stage # "done" =>
    /\ \A i \in DOMAIN batch :
         batch[i].protection = "elapsed" => config.window = 0 /\ i \in runs[1].regrants
    /\ \A i \in Expiries : ~Unpinned(batch[i])
    /\ Over(Expiries) => Evictable \subseteq Expiries

(* What a tenant may set.                                                  *)
LEMMA ConfigIs ==
  ASSUME config \in Configs
  PROVE  config.fragile \in Int /\ config.window \in Nat
BY DecisionsAssumption

DecisionsInv ==
  /\ RowsOK /\ CountersOK /\ DecidedOK
  /\ ExpiredSoFar /\ ReclaimedSoFar /\ RegrantedSoFar /\ ReleasedSoFar /\ MergedSoFar
  /\ AdmissionSoFar /\ Settled

Lower == {p \in (DOMAIN batch) \X (DOMAIN batch) : Cheaper(p[1], p[2])}
RowBytes == [i \in DOMAIN batch |-> batch[i].bytes]

LEMMA RowIs ==
  ASSUME NEW row, IsRow(row)
  PROVE  /\ row.created \in Int /\ IsFiniteSet(row.words)
         /\ row.bytes \in Nat /\ row.bytes >= 64
         /\ row.protection \in Protections /\ row.elapsed \in BOOLEAN
         /\ row.value \in Nat /\ row.fragility \in Nat
BY DEF IsRow, FixedOverhead

LEMMA RowsAre ==
  ASSUME RowsOK
  PROVE  /\ IsFiniteSet(DOMAIN batch) /\ DOMAIN batch \subseteq Int
         /\ Cardinality(DOMAIN batch) \in Nat
         /\ \A i \in DOMAIN batch : RowBytes[i] = batch[i].bytes /\ RowBytes[i] \in Nat
<1>1. IsFiniteSet(DOMAIN batch) /\ DOMAIN batch \subseteq Int
  BY DEF RowsOK
<1>2. \A i \in DOMAIN batch : batch[i].bytes \in Nat
  BY RowIs DEF RowsOK
<1> QED
  BY <1>1, <1>2, FS_CardinalityType DEF RowBytes

(* What eviction costs is a strict total order of the page.                *)
LEMMA CheaperOrders ==
  ASSUME RowsOK
  PROVE  /\ Orders(Lower, DOMAIN batch)
         /\ \A i, j \in DOMAIN batch : <<i, j>> \in Lower <=> Cheaper(i, j)
         /\ \A i, j \in DOMAIN batch : ~(Cheaper(i, j) /\ Cheaper(j, i))
<1>1. /\ DOMAIN batch \subseteq Int
      /\ \A i \in DOMAIN batch : batch[i].created \in Int /\ Cost(i) \in Int
  <2>1. \A i \in DOMAIN batch :
          batch[i].created \in Int /\ batch[i].value \in Nat /\ batch[i].fragility \in Nat
    BY RowIs DEF RowsOK
  <2> QED
    BY <2>1 DEF RowsOK, Cost
<1>2. \A i, j \in DOMAIN batch : <<i, j>> \in Lower <=> Cheaper(i, j)
  BY DEF Lower
<1>3. \A i \in DOMAIN batch : ~Cheaper(i, i)
  BY <1>1 DEF Cheaper
<1>4. \A i, j, k \in DOMAIN batch : Cheaper(i, j) /\ Cheaper(j, k) => Cheaper(i, k)
  BY <1>1 DEF Cheaper
<1>5. \A i, j \in DOMAIN batch : i = j \/ Cheaper(i, j) \/ Cheaper(j, i)
  BY <1>1 DEF Cheaper
<1>6. \A i, j \in DOMAIN batch : ~(Cheaper(i, j) /\ Cheaper(j, i))
  BY <1>3, <1>4
<1> HIDE DEF Lower
<1>7. Orders(Lower, DOMAIN batch)
  BY <1>2, <1>3, <1>4, <1>5 DEF Orders
<1> QED
  BY <1>2, <1>6, <1>7

LEMMA RankedIs ==
  ASSUME RowsOK, NEW S \in SUBSET DOMAIN batch
  PROVE  /\ IsFiniteSet(S) /\ Orders(Lower, S) /\ Places(Lower, S, Ranked(S))
         /\ Cardinality(S) \in Nat /\ Len(Ranked(S)) = Cardinality(S)
<1>1. IsFiniteSet(S) /\ Orders(Lower, S)
  BY RowsAre, CheaperOrders, OrdersPart, FS_Subset
<1> PICK n : n = Cardinality(S)
  OBVIOUS
<1>2. n \in Nat
  BY <1>1, FS_CardinalityType
<1>3. ASSUME NEW c \in S PROVE {d \in S : Cheaper(d, c)} = Ahead(Lower, S, c)
  BY CheaperOrders DEF Ahead
<1> PICK q : q = Ranked(S)
  OBVIOUS
<1>4. q = [k \in 1 .. n |-> CHOOSE c \in S : Cardinality({d \in S : Cheaper(d, c)}) = k - 1]
  BY DEF Ranked
<1>5. ASSUME NEW k \in 1 .. n
      PROVE  q[k] \in S /\ Cardinality(Ahead(Lower, S, q[k])) = k - 1
  <2>1. k - 1 \in 0 .. (Cardinality(S) - 1)
    BY <1>2
  <2>2. PICK c \in S : Cardinality(Ahead(Lower, S, c)) = k - 1
    BY <1>1, <2>1, RankTakenByOne
  <2>3. Cardinality({d \in S : Cheaper(d, c)}) = k - 1
    BY <1>3, <2>2
  <2>4. q[k] \in S /\ Cardinality({d \in S : Cheaper(d, q[k])}) = k - 1
    BY <1>4, <2>3
  <2> QED
    BY <1>3, <2>4
<1>6. q = [k \in 1 .. n |-> q[k]]
  BY <1>4
<1>7. Places(Lower, S, q)
  BY <1>5, <1>6 DEF Places
<1>8. Len(q) = n
  BY <1>2, <1>6
<1> QED
  BY <1>1, <1>2, <1>7, <1>8

(* The last of a ranking is what it ranks every other below.               *)
LEMMA RankedLast ==
  ASSUME RowsOK, NEW S \in SUBSET DOMAIN batch, S # {}
  PROVE  Last(Ranked(S)[Cardinality(S)], S)
<1> PICK n, q : n = Cardinality(S) /\ q = Ranked(S)
  OBVIOUS
<1>1. IsFiniteSet(S) /\ Orders(Lower, S) /\ Places(Lower, S, q) /\ n \in Nat
  BY RankedIs
<1>2. Ranks(Lower, S, q, n)
  BY <1>1, RankingIs
<1>3. n # 0
  BY <1>1, FS_EmptySet
<1>4. n \in 1 .. n /\ q[n] \in S
  BY <1>1, <1>2, <1>3 DEF Ranks
<1>5. ASSUME NEW d \in S \ {q[n]} PROVE Cheaper(d, q[n])
  <2>1. PICK k \in 1 .. n : q[k] = d
    BY <1>2 DEF Ranks
  <2>2. k < n
    BY <1>1, <2>1
  <2>3. <<d, q[n]>> \in Lower
    BY <1>2, <1>4, <2>1, <2>2 DEF Ranks
  <2> QED
    BY <1>4, <2>3, CheaperOrders
<1>6. Last(q[n], S)
  BY <1>4, <1>5 DEF Last
<1> QED
  BY <1>6

(* A prefix of a ranking, and what is left of it without its last.         *)
LEMMA PrefixIs ==
  ASSUME RowsOK, NEW S \in SUBSET DOMAIN batch, NEW q, q = Ranked(S),
         NEW k \in 0 .. Cardinality(S)
  PROVE  /\ Prefix(q, k) \subseteq S /\ IsFiniteSet(Prefix(q, k))
         /\ Cardinality(Prefix(q, k)) = k
         /\ k = 0 => Prefix(q, k) = {}
         /\ k = Cardinality(S) => Prefix(q, k) = S
         /\ k > 0 => \A d \in Prefix(q, k) :
              Last(d, Prefix(q, k)) => Prefix(q, k) \ {d} = Prefix(q, k - 1)
<1> PICK n, P : n = Cardinality(S) /\ P = Prefix(q, k)
  OBVIOUS
<1>1. IsFiniteSet(S) /\ Orders(Lower, S) /\ Places(Lower, S, q) /\ n \in Nat
  BY RankedIs
<1>2. Ranks(Lower, S, q, n)
  BY <1>1, RankingIs
<1>3. k \in 0 .. Cardinality(S) /\ P = {q[j] : j \in 1 .. k} /\ k \in Nat /\ k <= n
  BY <1>1 DEF Prefix
<1>4. P \subseteq S /\ IsFiniteSet(P) /\ Cardinality(P) = k
  BY ONLY <1>1, <1>3, RankingPrefix
<1>5. k = 0 => P = {}
  BY <1>3
<1>6. k = n => P = S
  BY <1>1, <1>4, FS_Subset
<1>7. ASSUME k > 0, NEW d \in P, Last(d, P) PROVE P \ {d} = Prefix(q, k - 1)
  <2>1. k \in 1 .. n /\ q[k] \in P
    BY <1>3, <1>7
  <2>2. d = q[k]
    <3> SUFFICES ASSUME d # q[k] PROVE FALSE
      OBVIOUS
    <3>1. Cheaper(q[k], d)
      BY <1>7, <2>1 DEF Last
    <3>2. PICK j \in 1 .. k : q[j] = d
      BY <1>3, <1>7
    <3>3. j \in 1 .. n /\ j < k
      BY <1>1, <1>3, <2>1, <3>2
    <3>4. <<d, q[k]>> \in Lower
      BY <1>2, <2>1, <3>2, <3>3 DEF Ranks
    <3>5. Cheaper(d, q[k]) /\ d \in DOMAIN batch /\ q[k] \in DOMAIN batch
      BY <1>4, <2>1, <3>4, CheaperOrders
    <3> QED
      BY <3>1, <3>5, CheaperOrders
  <2>3. \A j \in 1 .. k : q[j] = q[k] => j = k
    <3>1. \A j \in 1 .. k : j \in 1 .. n
      BY <1>1, <1>3
    <3> QED
      BY <1>2, <2>1, <3>1 DEF Ranks
  <2>4. \A j : j \in 1 .. (k - 1) <=> j \in 1 .. k /\ j # k
    BY <1>3
  <2>5. Prefix(q, k - 1) = {q[j] : j \in 1 .. (k - 1)}
    BY DEF Prefix
  <2> QED
    BY <1>3, <2>2, <2>3, <2>4, <2>5
<1>8. /\ P \subseteq S /\ IsFiniteSet(P) /\ Cardinality(P) = k
      /\ k = 0 => P = {}
      /\ k = n => P = S
      /\ k > 0 => \A d \in P : Last(d, P) => P \ {d} = Prefix(q, k - 1)
  BY <1>4, <1>5, <1>6, <1>7
<1> QED
  BY <1>8

(* What evicting a set of rows leaves used.                                *)
LEMMA BytesAre ==
  ASSUME RowsOK, NEW S \in SUBSET DOMAIN batch
  PROVE  /\ Bytes(batch, S) = SumOver(RowBytes, S) /\ Bytes(batch, S) \in Nat
         /\ Bytes(batch, S) <= Bytes(batch, DOMAIN batch)
         /\ IsFiniteSet(S) /\ Cardinality(S) \in Nat
         /\ Cardinality(S) <= Cardinality(DOMAIN batch)
<1>1. IsFiniteSet(S) /\ \A i \in DOMAIN batch : RowBytes[i] \in Nat
  BY RowsAre, FS_Subset
<1>2. ASSUME NEW T \in SUBSET DOMAIN batch PROVE Bytes(batch, T) = SumOver(RowBytes, T)
  <2> PICK f : f = [i \in T |-> batch[i].bytes]
    OBVIOUS
  <2>1. IsFiniteSet(T) /\ \A i \in T : f[i] = RowBytes[i]
    BY RowsAre, FS_Subset DEF RowBytes
  <2>2. SumOver(f, T) = SumOver(RowBytes, T)
    BY <2>1, SumSame
  <2> QED
    BY <2>2 DEF Bytes
<1>3. /\ SumOver(RowBytes, DOMAIN batch) \in Nat /\ SumOver(RowBytes, S) \in Nat
      /\ SumOver(RowBytes, DOMAIN batch \ S) \in Nat
      /\ SumOver(RowBytes, DOMAIN batch) =
           SumOver(RowBytes, S) + SumOver(RowBytes, DOMAIN batch \ S)
  <2> PICK D, f : D = DOMAIN batch /\ f = RowBytes
    OBVIOUS
  <2>1. IsFiniteSet(D) /\ (\A y \in D : f[y] \in Nat) /\ S \subseteq D
    BY <1>1, RowsAre
  <2>2. /\ SumOver(f, D) \in Nat /\ SumOver(f, S) \in Nat /\ SumOver(f, D \ S) \in Nat
        /\ SumOver(f, D) = SumOver(f, S) + SumOver(f, D \ S)
    BY ONLY <2>1, SumGrows
  <2> QED
    BY <2>2
<1>4. SumOver(RowBytes, S) <= SumOver(RowBytes, DOMAIN batch)
  <2> PICK a, b, c : /\ a = SumOver(RowBytes, DOMAIN batch) /\ b = SumOver(RowBytes, S)
                     /\ c = SumOver(RowBytes, DOMAIN batch \ S)
    OBVIOUS
  <2>1. a \in Nat /\ b \in Nat /\ c \in Nat /\ a = b + c
    BY <1>3
  <2>2. b <= a
    BY <2>1
  <2> QED
    BY <2>2
<1>5. Cardinality(S) <= Cardinality(DOMAIN batch) /\ Cardinality(S) \in Nat
  BY <1>1, RowsAre, FS_Subset, FS_CardinalityType
<1> QED
  BY <1>1, <1>2, <1>3, <1>4, <1>5

(* A disjoint union weighs what its parts do.                              *)
LEMMA BytesOfBoth ==
  ASSUME RowsOK, NEW S \in SUBSET DOMAIN batch, NEW T \in SUBSET DOMAIN batch, S \cap T = {}
  PROVE  /\ Bytes(batch, S \cup T) = Bytes(batch, S) + Bytes(batch, T)
         /\ Cardinality(S \cup T) = Cardinality(S) + Cardinality(T)
<1> PICK U : U = S \cup T
  OBVIOUS
<1>1. U \in SUBSET DOMAIN batch /\ IsFiniteSet(S) /\ IsFiniteSet(T)
      /\ \A i \in S \cup T : RowBytes[i] \in Int
  BY BytesAre, RowsAre
<1>2. SumOver(RowBytes, S \cup T) = SumOver(RowBytes, S) + SumOver(RowBytes, T)
  BY <1>1, SumUnion
<1>3. SumOver(RowBytes, U) = SumOver(RowBytes, S) + SumOver(RowBytes, T)
  BY <1>2, Zenon
<1>4. Bytes(batch, U) = Bytes(batch, S) + Bytes(batch, T)
  BY <1>1, <1>3, BytesAre
<1>5. Cardinality(U) = Cardinality(S) + Cardinality(T) - Cardinality(S \cap T)
  BY <1>1, FS_Union, Zenon
<1>6. Cardinality(S \cap T) = 0
  BY FS_EmptySet
<1>7. Cardinality(U) = Cardinality(S) + Cardinality(T)
  BY <1>1, <1>5, <1>6, BytesAre
<1> QED
  BY <1>4, <1>7

Exceeds(items, bytes, S) ==
  \/ capacity.items # NoLimit /\ (capacity.usedItems - Cardinality(S)) + items > capacity.items
  \/ capacity.bytes # NoLimit /\ (capacity.usedBytes - Bytes(batch, S)) + bytes > capacity.bytes

LEMMA FreedIs ==
  ASSUME RowsOK, CountersOK, NEW S \in SUBSET DOMAIN batch
  PROVE  /\ Freed(capacity, S) =
              [capacity EXCEPT !.usedItems = capacity.usedItems - Cardinality(S),
                               !.usedBytes = capacity.usedBytes - Bytes(batch, S)]
         /\ Freed(capacity, S) \in [items : Limit, bytes : Limit, usedItems : Nat, usedBytes : Nat]
         /\ Freed(capacity, S).items = capacity.items
         /\ Freed(capacity, S).bytes = capacity.bytes
         /\ Freed(capacity, S).usedItems = capacity.usedItems - Cardinality(S)
         /\ Freed(capacity, S).usedBytes = capacity.usedBytes - Bytes(batch, S)
<1> PICK n, b : n = Cardinality(S) /\ b = Bytes(batch, S)
  OBVIOUS
<1>1. /\ n \in Nat /\ b \in Nat /\ n <= Cardinality(DOMAIN batch)
      /\ b <= Bytes(batch, DOMAIN batch) /\ Cardinality(DOMAIN batch) \in Nat
      /\ Bytes(batch, DOMAIN batch) \in Nat
  BY BytesAre, RowsAre
<1>2. /\ capacity \in [items : Limit, bytes : Limit, usedItems : Nat, usedBytes : Nat]
      /\ capacity.usedItems \in Nat /\ capacity.usedBytes \in Nat
      /\ capacity.usedItems >= n /\ capacity.usedBytes >= b
  BY <1>1 DEF CountersOK
<1>3. /\ Less(capacity.usedItems, n) = capacity.usedItems - n
      /\ Less(capacity.usedBytes, b) = capacity.usedBytes - b
      /\ capacity.usedItems - n \in Nat /\ capacity.usedBytes - b \in Nat
  BY <1>1, <1>2 DEF Less
<1>4. Freed(capacity, S) = [capacity EXCEPT !.usedItems = capacity.usedItems - n,
                                            !.usedBytes = capacity.usedBytes - b]
  BY <1>3 DEF Freed
<1> QED
  BY <1>2, <1>3, <1>4

LEMMA ExceedsIs ==
  ASSUME RowsOK, CountersOK, NEW S \in SUBSET DOMAIN batch, NEW items, NEW bytes
  PROVE  WouldExceed(items, bytes, Freed(capacity, S)) <=> Exceeds(items, bytes, S)
BY FreedIs DEF WouldExceed, Exceeds

(* Freeing two sets one after the other frees both.                        *)
LEMMA FreedTwice ==
  ASSUME RowsOK, CountersOK, NEW S \in SUBSET DOMAIN batch, NEW T \in SUBSET DOMAIN batch,
         S \cap T = {}, NEW items, NEW bytes
  PROVE  WouldExceed(items, bytes, Freed(Freed(capacity, S), T)) <=>
           Exceeds(items, bytes, S \cup T)
<1> PICK U, c : U = S \cup T /\ c = Freed(capacity, S)
  OBVIOUS
<1>1. U \in SUBSET DOMAIN batch
  OBVIOUS
<1>2. /\ Bytes(batch, U) = Bytes(batch, S) + Bytes(batch, T)
      /\ Cardinality(U) = Cardinality(S) + Cardinality(T)
  BY BytesOfBoth
<1> PICK n, m, b, d : /\ n = Cardinality(S) /\ m = Cardinality(T)
                      /\ b = Bytes(batch, S) /\ d = Bytes(batch, T)
  OBVIOUS
<1>3. /\ c \in [items : Limit, bytes : Limit, usedItems : Nat, usedBytes : Nat]
      /\ c.items = capacity.items /\ c.bytes = capacity.bytes
      /\ c.usedItems = capacity.usedItems - n /\ c.usedBytes = capacity.usedBytes - b
  BY FreedIs
<1>4. /\ n \in Nat /\ m \in Nat /\ b \in Nat /\ d \in Nat
      /\ n + m <= Cardinality(DOMAIN batch) /\ b + d <= Bytes(batch, DOMAIN batch)
      /\ Cardinality(DOMAIN batch) \in Nat /\ Bytes(batch, DOMAIN batch) \in Nat
  BY <1>1, <1>2, BytesAre, RowsAre
<1>5. /\ capacity.usedItems \in Nat /\ capacity.usedBytes \in Nat
      /\ capacity.usedItems >= n + m /\ capacity.usedBytes >= b + d
  BY <1>4 DEF CountersOK
<1>6. /\ Less(c.usedItems, m) = capacity.usedItems - (n + m)
      /\ Less(c.usedBytes, d) = capacity.usedBytes - (b + d)
  BY <1>3, <1>4, <1>5 DEF Less
<1>7. /\ Freed(c, T).items = capacity.items /\ Freed(c, T).bytes = capacity.bytes
      /\ Freed(c, T).usedItems = capacity.usedItems - Cardinality(U)
      /\ Freed(c, T).usedBytes = capacity.usedBytes - Bytes(batch, U)
  <2>1. Freed(c, T) = [c EXCEPT !.usedItems = Less(@, m), !.usedBytes = Less(@, d)]
    BY DEF Freed
  <2> QED
    BY <1>2, <1>3, <1>6, <2>1
<1>8. WouldExceed(items, bytes, Freed(c, T)) <=> Exceeds(items, bytes, U)
  BY <1>7 DEF WouldExceed, Exceeds
<1> QED
  BY <1>8

(* As few evictions as make room, or all of them.                          *)
LEMMA NeededIs ==
  ASSUME NEW state, NEW ranked, Len(ranked) \in Nat, NEW items, NEW bytes,
         NEW needed, needed = EvictionsNeeded(state, ranked, items, bytes)
  PROVE  /\ needed \in 0 .. Len(ranked)
         /\ \/ ~WouldExceed(items, bytes, Freed(state, Prefix(ranked, needed)))
            \/ needed = Len(ranked)
         /\ needed > 0 => WouldExceed(items, bytes, Freed(state, Prefix(ranked, needed - 1)))
<1> PICK n, E : /\ n = Len(ranked)
                /\ E = {k \in 0 .. n : ~WouldExceed(items, bytes, Freed(state, Prefix(ranked, k)))}
  OBVIOUS
<1>1. needed = IF E = {} THEN n ELSE Min(E)
  BY DEF EvictionsNeeded
<1>2. CASE E = {}
  <2>1. needed = n
    BY <1>1, <1>2
  <2>2. needed > 0 => needed - 1 \in 0 .. n /\ needed - 1 \notin E
    BY <1>2, <2>1
  <2> QED
    BY <2>1, <2>2
<1>3. CASE E # {}
  <2>1. E \subseteq Nat
    OBVIOUS
  <2>2. \E m \in E : \A k \in E : m <= k
    BY <1>3, <2>1, Least
  <2>3. Min(E) \in E /\ \A k \in E : Min(E) <= k
    BY <2>2 DEF Min
  <2>4. needed \in E /\ \A k \in E : needed <= k
    BY <1>1, <1>3, <2>3
  <2>5. needed > 0 => needed - 1 \in 0 .. n /\ needed - 1 \notin E
    BY <2>1, <2>4
  <2> QED
    BY <2>4, <2>5
<1> QED
  BY <1>2, <1>3

-----------------------------------------------------------------------------
(* An admission.                                                           *)

LEMMA FreedNothing ==
  ASSUME RowsOK, CountersOK, NEW items, NEW bytes
  PROVE  WouldExceed(items, bytes, Freed(capacity, {})) <=> WouldExceed(items, bytes, capacity)
<1> PICK E : E = {}
  OBVIOUS
<1>1. E \in SUBSET DOMAIN batch
  OBVIOUS
<1>2. Cardinality(E) = 0 /\ Bytes(batch, E) = 0
  <2>1. SumOver(RowBytes, E) = 0
    BY SumEmpty, Zenon
  <2>2. Bytes(batch, E) = SumOver(RowBytes, E)
    BY <1>1, BytesAre
  <2> QED
    BY <2>1, <2>2, FS_EmptySet
<1>3. /\ Freed(capacity, E).items = capacity.items /\ Freed(capacity, E).bytes = capacity.bytes
      /\ Freed(capacity, E).usedItems = capacity.usedItems - 0
      /\ Freed(capacity, E).usedBytes = capacity.usedBytes - 0
  BY <1>1, <1>2, FreedIs
<1>4. capacity.usedItems \in Nat /\ capacity.usedBytes \in Nat
  BY DEF CountersOK
<1>5. /\ Freed(capacity, E).usedItems = capacity.usedItems
      /\ Freed(capacity, E).usedBytes = capacity.usedBytes
  BY <1>3, <1>4
<1>6. WouldExceed(items, bytes, Freed(capacity, E)) <=> WouldExceed(items, bytes, capacity)
  BY <1>3, <1>5 DEF WouldExceed
<1> QED
  BY <1>6

LEMMA OfferedIs ==
  Offered \in SUBSET DOMAIN batch /\ \A i \in Offered : IsEvictable(batch[i])
BY DEF Offered

LEMMA MakeRoomIs ==
  ASSUME RowsOK, CountersOK, NEW candidate, NEW kept \in {"Retain", "RetainProtected"},
         NEW d, d = MakeRoom(candidate, kept)
  PROVE  /\ d.candidate = candidate /\ d.action \in {kept, "Reject"}
         /\ d.evictions \subseteq Offered
         /\ d.action = kept => ~WouldExceed(1, candidate.bytes, Freed(capacity, d.evictions))
         /\ \A x \in d.evictions : Last(x, d.evictions) =>
              WouldExceed(1, candidate.bytes, Freed(capacity, d.evictions \ {x}))
         /\ d.action = "Reject" => WouldExceed(1, candidate.bytes, Freed(capacity, Offered))
<1> PICK q, m, b : /\ q = Ranked(Offered) /\ b = candidate.bytes
                   /\ m = IF WouldExceed(1, b, capacity)
                          THEN EvictionsNeeded(capacity, q, 1, b) ELSE 0
  OBVIOUS
<1> PICK P : P = Prefix(q, m)
  OBVIOUS
<1>1. d = IF WouldExceed(1, b, Freed(capacity, P))
          THEN Decision(candidate, "Reject", 0, {}) ELSE Decision(candidate, kept, 0, P)
  BY DEF MakeRoom
<1>2. /\ d.candidate = candidate
      /\ WouldExceed(1, b, Freed(capacity, P)) => d.action = "Reject" /\ d.evictions = {}
      /\ ~WouldExceed(1, b, Freed(capacity, P)) => d.action = kept /\ d.evictions = P
  BY <1>1 DEF Decision
<1> PICK n : n = Cardinality(Offered)
  OBVIOUS
<1>3. Offered \in SUBSET DOMAIN batch /\ n \in Nat /\ Len(q) = n
  BY OfferedIs, RankedIs
<1>4. CASE ~WouldExceed(1, b, capacity)
  <2>1. m = 0 /\ m \in 0 .. n
    BY <1>3, <1>4
  <2>2. P = {}
    BY <1>3, <2>1, PrefixIs
  <2>3. ~WouldExceed(1, b, Freed(capacity, {}))
    BY <1>4, FreedNothing
  <2> QED
    BY <1>2, <2>2, <2>3
<1>5. CASE WouldExceed(1, b, capacity)
  <2>1. m = EvictionsNeeded(capacity, q, 1, b)
    BY <1>5
  <2>2. /\ m \in 0 .. n
        /\ ~WouldExceed(1, b, Freed(capacity, P)) \/ m = n
        /\ m > 0 => WouldExceed(1, b, Freed(capacity, Prefix(q, m - 1)))
    BY <1>3, <2>1, NeededIs
  <2>3. /\ P \subseteq Offered
        /\ m = 0 => P = {}
        /\ m = n => P = Offered
        /\ m > 0 => \A x \in P : Last(x, P) => P \ {x} = Prefix(q, m - 1)
    BY <1>3, <2>2, PrefixIs
  <2>4. ASSUME NEW x \in P, Last(x, P)
        PROVE  WouldExceed(1, b, Freed(capacity, P \ {x}))
    <3>1. m > 0
      BY <2>2, <2>3
    <3> QED
      BY <2>2, <2>3, <2>4, <3>1
  <2>5. WouldExceed(1, b, Freed(capacity, P)) => WouldExceed(1, b, Freed(capacity, Offered))
    BY <2>2, <2>3
  <2> QED
    BY <1>2, <2>3, <2>4, <2>5
<1> QED
  BY <1>4, <1>5

(* Some k of a finite set have, between them, at least k times its mean.   *)
LEMMA AboveMean ==
  ASSUME NEW near, NEW D, IsFiniteSet(D), \A i \in D : near[i] \in -100 .. 100,
         NEW k \in Nat, k <= Cardinality(D)
  PROVE  \E S \in SUBSET D : /\ Cardinality(S) = k
                             /\ Cardinality(D) * SumOver(near, S) >= k * SumOver(near, D)
<1> DEFINE C == {T \in SUBSET D : /\ k <= Cardinality(T)
                                  /\ ~ \E S \in SUBSET T :
                                         /\ Cardinality(S) = k
                                         /\ Cardinality(T) * SumOver(near, S)
                                              >= k * SumOver(near, T)}
<1>1. SUFFICES ASSUME C # {} PROVE FALSE
  OBVIOUS
<1>2. PICK T \in C : \A U \in C : ~(U \subseteq T /\ U # T)
  <2>1. C \subseteq SUBSET D
    OBVIOUS
  <2> HIDE DEF C
  <2> QED
    BY <1>1, <2>1, Smallest
<1>3. /\ T \in SUBSET D /\ k <= Cardinality(T)
      /\ \A S \in SUBSET T : Cardinality(S) = k =>
           ~(Cardinality(T) * SumOver(near, S) >= k * SumOver(near, T))
  OBVIOUS
<1>4. \A U \in SUBSET T : IsFiniteSet(U) /\ Cardinality(U) \in Nat /\ SumOver(near, U) \in Int
  <2> SUFFICES ASSUME NEW U \in SUBSET T
               PROVE  IsFiniteSet(U) /\ Cardinality(U) \in Nat /\ SumOver(near, U) \in Int
    OBVIOUS
  <2>1. U \in SUBSET D /\ IsFiniteSet(U) /\ \A i \in U : near[i] \in Int
    BY <1>3, FS_Subset
  <2> QED
    BY <2>1, SumIsInt, FS_CardinalityType
<1> PICK n, s : n = Cardinality(T) /\ s = SumOver(near, T)
  OBVIOUS
<1>5. n \in Nat /\ s \in Int /\ IsFiniteSet(T) /\ k <= n
  BY <1>3, <1>4
<1>6. n # k
  <2> SUFFICES ASSUME n = k PROVE FALSE
    OBVIOUS
  <2>1. ~(n * s >= k * s)
    BY <1>3
  <2> QED
    BY <1>5, <2>1
<1>7. T # {}
  <2> SUFFICES ASSUME T = {} PROVE FALSE
    OBVIOUS
  <2>1. Cardinality(T) = 0
    BY FS_EmptySet
  <2> QED
    BY <1>5, <1>6, <2>1
<1>8. PICK m \in T : \A i \in T : near[m] <= near[i]
  <2> PICK V : V = {near[i] + 100 : i \in T}
    OBVIOUS
  <2>1. \A i \in T : near[i] \in Int /\ near[i] + 100 \in Nat
    BY <1>3
  <2>2. V \subseteq Nat /\ V # {}
    BY <1>7, <2>1
  <2>3. PICK v \in V : \A w \in V : v <= w
    BY ONLY <2>2, Least
  <2>4. PICK i \in T : v = near[i] + 100
    BY <2>3
  <2>5. \A j \in T : near[i] + 100 <= near[j] + 100
    BY <2>3, <2>4
  <2> QED
    BY <2>1, <2>5
<1> PICK U, x : U = T \ {m} /\ x = near[m]
  OBVIOUS
<1>9. Cardinality(U) = n - 1 /\ k <= n - 1 /\ U \in SUBSET D /\ U \in SUBSET T /\ U # T
  <2>1. Cardinality(U) = n - 1
    BY <1>5, FS_RemoveElement
  <2> QED
    BY <1>3, <1>5, <1>6, <2>1
<1>10. PICK S \in SUBSET U : /\ Cardinality(S) = k
                             /\ Cardinality(U) * SumOver(near, S) >= k * SumOver(near, U)
  <2>1. U \notin C
    BY <1>2, <1>9
  <2> QED
    BY <1>9, <2>1
<1> PICK a, u : a = SumOver(near, S) /\ u = SumOver(near, U)
  OBVIOUS
<1> HIDE DEF C
<1>11. a \in Int /\ u \in Int /\ x \in Int /\ s = x + u
  <2>1. S \in SUBSET T /\ \A i \in T : near[i] \in Int
    BY <1>3, <1>9
  <2>2. SumOver(near, T) = near[m] + SumOver(near, T \ {m})
    BY <1>5, <2>1, SumSplit
  <2> QED
    BY <1>3, <1>4, <1>8, <1>9, <2>1, <2>2
<1>12. x * k <= a
  <2> PICK f : f = [i \in S |-> x]
    OBVIOUS
  <2>1. IsFiniteSet(S) /\ \A i \in S : f[i] = x /\ f[i] \in Int /\ near[i] \in Int /\ f[i] <= near[i]
    <3>1. S \in SUBSET T
      BY <1>9
    <3> QED
      BY <1>3, <1>4, <1>8, <1>11, <3>1
  <2>2. SumOver(f, S) = x * Cardinality(S)
    BY <1>11, <2>1, SumConstant
  <2>3. SumOver(f, S) <= SumOver(near, S)
    BY <2>1, SumBounded
  <2> QED
    BY <1>10, <2>2, <2>3
<1>13. (n - 1) * a >= k * u
  BY <1>9, <1>10
<1>14. n * a >= k * s
  <2>1. n * a = (n - 1) * a + a
    BY <1>5, <1>11
  <2>2. k * s = k * x + k * u
    BY <1>11
  <2>3. k * x = x * k
    BY <1>11
  <2> PICK p, q, r, t : p = (n - 1) * a /\ q = k * u /\ r = k * x /\ t = k * s
    OBVIOUS
  <2>4. p \in Int /\ q \in Int /\ r \in Int /\ p >= q /\ r <= a
    BY <1>5, <1>11, <1>12, <1>13, <2>3
  <2>5. t <= p + a
    BY <1>11, <2>2, <2>4
  <2> QED
    BY <2>1, <2>5
<1>15. S \in SUBSET T /\ Cardinality(S) = k
  BY <1>9, <1>10
<1> QED
  BY <1>3, <1>14, <1>15

LEMMA MaxIs ==
  ASSUME NEW V, V \subseteq Int, V # {}, NEW n \in Int, \A v \in V : v <= n
  PROVE  Max(V) \in V /\ \A v \in V : v <= Max(V)
<1> PICK C : C = {n - v : v \in V}
  OBVIOUS
<1>1. C \subseteq Nat /\ C # {}
  <2>1. \A v \in V : n - v \in Nat
    OBVIOUS
  <2>2. PICK v \in V : TRUE
    OBVIOUS
  <2>3. n - v \in C
    BY <2>2
  <2> QED
    BY <2>1, <2>3
<1>2. PICK m \in C : \A k \in C : m <= k
  BY ONLY <1>1, Least
<1>3. PICK v \in V : m = n - v
  BY <1>2
<1>4. \A w \in V : v >= w
  BY <1>2, <1>3
<1>5. Max(V) \in V /\ \A w \in V : Max(V) >= w
  BY <1>4 DEF Max
<1> QED
  BY <1>5

LEMMA TimesLeq ==
  ASSUME NEW n \in Nat, n # 0, NEW x \in Int, NEW y \in Int, n * x >= n * y
  PROVE  x >= y
<1> SUFFICES ASSUME y >= x + 1 PROVE FALSE
  OBVIOUS
<1>1. n * y >= n * (x + 1)
  OBVIOUS
<1>2. n * (x + 1) = n * x + n
  OBVIOUS
<1> QED
  BY <1>1, <1>2

LEMMA TimesLess ==
  ASSUME NEW n \in Nat, n # 0, NEW x \in Int, NEW y \in Int, n * x < n * y
  PROVE  x < y
<1> SUFFICES ASSUME x >= y PROVE FALSE
  OBVIOUS
<1>1. n * x >= n * y
  OBVIOUS
<1> QED
  BY <1>1

(* The mean of the three nearest is no less than the mean of all.          *)
LEMMA TopMeanIs ==
  ASSUME NEW near, IsFiniteSet(DOMAIN near), DOMAIN near # {},
         \A i \in DOMAIN near : near[i] \in -100 .. 100
  PROVE  /\ TopMean(near) \in Int /\ MeanSimilarity(near) \in Int
         /\ MeanSimilarity(near) <= TopMean(near)
<1> PICK D, n, s : D = DOMAIN near /\ n = Cardinality(D) /\ s = SumOver(near, D)
  OBVIOUS
<1>1. IsFiniteSet(D) /\ n \in Nat /\ n # 0 /\ s \in Int /\ \A i \in D : near[i] \in Int
  <2>1. IsFiniteSet(D) /\ n \in Nat /\ n # 0
    BY FS_CardinalityType, FS_EmptySet
  <2>2. \A i \in D : near[i] \in Int
    OBVIOUS
  <2> QED
    BY <2>1, <2>2, SumIsInt
<1> PICK k : k = Min({3, n})
  OBVIOUS
<1>2. k \in Nat /\ k >= 1 /\ k <= n
  <2>1. \E x \in {3, n} : \A y \in {3, n} : x <= y
    BY <1>1
  <2>2. k \in {3, n} /\ \A y \in {3, n} : k <= y
    BY <2>1 DEF Min
  <2> QED
    BY <1>1, <2>2
<1> PICK V : V = {SumOver(near, S) : S \in kSubset(k, D)}
  OBVIOUS
<1>3. TopMean(near) = Max(V) \div k
  BY DEF TopMean
<1>4. \A S \in kSubset(k, D) : SumOver(near, S) \in Int /\ SumOver(near, S) <= 100 * k
  <2> SUFFICES ASSUME NEW S \in kSubset(k, D)
               PROVE  SumOver(near, S) \in Int /\ SumOver(near, S) <= 100 * k
    OBVIOUS
  <2>1. S \in SUBSET D /\ Cardinality(S) = k
    BY DEF kSubset
  <2> PICK f : f = [i \in S |-> 100]
    OBVIOUS
  <2>2. IsFiniteSet(S) /\ \A i \in S : f[i] = 100 /\ f[i] \in Int /\ near[i] \in Int
                                        /\ near[i] <= f[i]
    BY <1>1, <2>1, FS_Subset
  <2>3. SumOver(f, S) = 100 * Cardinality(S)
    BY <2>2, SumConstant
  <2>4. SumOver(near, S) <= SumOver(f, S)
    BY <2>2, SumBounded
  <2> QED
    BY <2>1, <2>2, <2>3, <2>4, SumIsInt
<1>5. PICK S \in SUBSET D : Cardinality(S) = k /\ n * SumOver(near, S) >= k * s
  BY <1>1, <1>2, AboveMean
<1>6. S \in kSubset(k, D)
  BY <1>5 DEF kSubset
<1> PICK b : b = 100 * k
  OBVIOUS
<1>7. V \subseteq Int /\ V # {} /\ b \in Int /\ \A v \in V : v <= b
  <2>1. V # {}
    BY <1>6
  <2>2. ASSUME NEW v \in V PROVE v \in Int /\ v <= b
    <3>1. PICK T \in kSubset(k, D) : v = SumOver(near, T)
      OBVIOUS
    <3> QED
      BY <1>4, <3>1
  <2> QED
    <3>1. b \in Int
      BY <1>2
    <3> QED
      BY ONLY <2>1, <2>2, <3>1
<1> PICK m, a : m = Max(V) /\ a = SumOver(near, S)
  OBVIOUS
<1>8. m \in V /\ \A v \in V : v <= m
  BY ONLY <1>7, m = Max(V), MaxIs
<1>9. m \in Int /\ a \in Int /\ a <= m
  <2>1. a \in V
    BY <1>6
  <2>2. m \in Int /\ a \in Int /\ a <= m
    BY ONLY <1>7, <1>8, <2>1
  <2> QED
    BY <2>2
<1> PICK d, e : d = m \div k /\ e = s \div n
  OBVIOUS
<1>10. d \in Int /\ k * d <= m /\ m < k * (d + 1)
  BY <1>2, <1>9
<1>11. e \in Int /\ n * e <= s
  BY <1>1
<1>12. e <= d
  <2>1. n * m >= n * a /\ n * a >= k * s /\ n * m \in Int /\ n * a \in Int /\ k * s \in Int
    BY <1>1, <1>2, <1>5, <1>9
  <2>2. k * s >= k * (n * e)
    BY <1>1, <1>2, <1>11
  <2>3. k * (n * e) = n * (k * e) /\ k * (n * e) \in Int /\ k * e \in Int
    BY <1>1, <1>2, <1>11
  <2>4. n * m >= n * (k * e)
    BY <2>1, <2>2, <2>3
  <2>5. m >= k * e
    <3> PICK y : y = k * e
      OBVIOUS
    <3>1. y \in Int /\ n * m >= n * y
      BY <2>3, <2>4
    <3>2. m >= y
      BY <1>1, <1>9, <3>1, TimesLeq
    <3> QED
      BY <3>2
  <2>6. k * e < k * (d + 1)
    <3> PICK y, z : y = k * e /\ z = k * (d + 1)
      OBVIOUS
    <3>1. y \in Int /\ z \in Int /\ m >= y /\ m < z
      BY <1>2, <1>10, <2>3, <2>5
    <3> QED
      BY <1>9, <3>1
  <2>7. e < d + 1
    <3> PICK z : z = d + 1
      OBVIOUS
    <3>1. z \in Int /\ k * e < k * z
      BY <1>10, <2>6
    <3>2. e < z
      BY <1>2, <1>11, <3>1, TimesLess
    <3> QED
      BY <3>2
  <2> QED
    BY <1>10, <1>11, <2>7
<1>13. MeanSimilarity(near) = e
  BY DEF MeanSimilarity
<1> QED
  BY <1>3, <1>10, <1>11, <1>12, <1>13

(* With something near, nothing is sparser than a baseline its own nearest *)
(* reach.                                                                  *)
LEMMA FragilityIs ==
  ASSUME NEW near, DOMAIN near # {}, TopMean(near) \in Int,
         NEW baseline \in Int, baseline <= TopMean(near)
  PROVE  Fragility(near, baseline) \in Int /\ Fragility(near, baseline) <= 50
<1> PICK t, c : t = Clamped(TopMean(near)) /\ c = Clamped(baseline)
  OBVIOUS
<1>1. t \in Nat /\ t <= 100 /\ c \in Nat /\ c <= t
  BY DEF Clamped
<1>2. Fragility(near, baseline) =
        IF t > c THEN 50 - (50 * (t - c)) \div (100 - c) ELSE 50
  BY <1>1 DEF Fragility
<1>3. CASE t > c
  <2> PICK x, y, z : x = 50 * (t - c) /\ y = 100 - c /\ z = x \div y
    OBVIOUS
  <2>1. x \in Nat /\ y \in Nat /\ y > 0
    BY <1>1, <1>3
  <2>2. z \in Nat
    BY <2>1
  <2>3. Fragility(near, baseline) = 50 - z
    BY <1>2, <1>3
  <2> QED
    BY <2>2, <2>3
<1> QED
  BY <1>1, <1>2, <1>3

(* The near duplicate a candidate is merged into is one of those near it.  *)
LEMMA NearestIs ==
  ASSUME NEW near, IsFiniteSet(DOMAIN near), DOMAIN near # {}, DOMAIN near \subseteq Int,
         \A i \in DOMAIN near : near[i] \in Int
  PROVE  NearestDuplicate(near) \in DOMAIN near
<1> PICK D : D = DOMAIN near
  OBVIOUS
<1> DEFINE R == {p \in D \X D : near[p[1]] > near[p[2]]
                               \/ (near[p[1]] = near[p[2]] /\ p[1] < p[2])}
<1>1. \A i, j \in D : <<i, j>> \in R <=> near[i] > near[j] \/ (near[i] = near[j] /\ i < j)
  OBVIOUS
<1>2. \A i \in D : i \in Int /\ near[i] \in Int
  OBVIOUS
<1> HIDE DEF R
<1>3. \A i, j, k \in D : <<i, j>> \in R /\ <<j, k>> \in R => <<i, k>> \in R
  BY <1>1, <1>2
<1>4. Orders(R, D)
  BY <1>1, <1>2, <1>3 DEF Orders
<1>5. PICK i \in D : \A j \in D \ {i} : <<i, j>> \in R
  BY <1>4, FirstExists
<1>6. ASSUME NEW j \in D PROVE near[i] > near[j] \/ (near[i] = near[j] /\ i <= j)
  <2>1. CASE j = i
    BY <1>2, <2>1
  <2>2. CASE j # i
    <3>1. near[i] > near[j] \/ (near[i] = near[j] /\ i < j)
      BY <1>1, <1>5, <2>2
    <3> QED
      BY <1>2, <3>1
  <2> QED
    BY <2>1, <2>2
<1> QED
  BY <1>6 DEF NearestDuplicate

LEMMA CandidateIs ==
  ASSUME NEW candidate \in Candidates
  PROVE  /\ candidate.bytes \in Nat /\ IsFiniteSet(DOMAIN candidate.near)
         /\ \A i \in DOMAIN candidate.near : candidate.near[i] \in -100 .. 100
         /\ \A i \in DOMAIN candidate.near : candidate.near[i] \in Int
BY DecisionsAssumption

(* What an admission decides.                                              *)
LEMMA AdmitIs ==
  ASSUME RowsOK, CountersOK, config \in Configs, NEW candidate \in Candidates,
         DOMAIN candidate.near \subseteq DOMAIN batch, NEW d, d = Admit(candidate)
  PROVE  /\ d.candidate = candidate /\ d.evictions \subseteq Offered
         /\ d.action \in {"Retain", "RetainProtected"} =>
              ~WouldExceed(1, candidate.bytes, Freed(capacity, d.evictions))
         /\ \A x \in d.evictions : Last(x, d.evictions) =>
              WouldExceed(1, candidate.bytes, Freed(capacity, d.evictions \ {x}))
         /\ d.action = "Reject" =>
              \/ BestScore(candidate.near) >= DuplicateThreshold
              \/ WouldExceed(1, candidate.bytes, Freed(capacity, Offered))
         /\ d.action = "Merge" => d.into \in DOMAIN candidate.near /\ d.evictions = {}
         /\ config.fragile > 50 /\ d.action = "RetainProtected" => DOMAIN candidate.near = {}
<1> PICK near, best, b : /\ near = candidate.near /\ best = BestScore(candidate.near)
                         /\ b = candidate.bytes
  OBVIOUS
<1> PICK floored : floored = {i \in DOMAIN near : near[i] >= NearDuplicateFloor}
  OBVIOUS
<1> PICK kept : kept = IF Fragility(near, MeanSimilarity(near)) >= config.fragile
                       THEN "RetainProtected" ELSE "Retain"
  OBVIOUS
<1>1. d = CASE Classify(best) = "NearDuplicate" -> Decision(candidate, "Reject", 0, {})
            [] Classify(best) = "Mergeable" /\ floored # {} ->
                 Decision(candidate, "Merge", NearestDuplicate(Restrict(near, floored)), {})
            [] OTHER -> MakeRoom(candidate, kept)
  BY Zenon DEF Admit
<1>2. CASE Classify(best) = "NearDuplicate"
  <2>1. d = Decision(candidate, "Reject", 0, {})
    BY <1>1, <1>2
  <2>2. best >= DuplicateThreshold
    BY <1>2 DEF Classify
  <2> QED
    BY <2>1, <2>2 DEF Decision
<1>3. CASE Classify(best) = "Mergeable" /\ floored # {}
  <2> PICK r, into : r = Restrict(near, floored) /\ into = NearestDuplicate(r)
    OBVIOUS
  <2>1. d = Decision(candidate, "Merge", into, {})
    BY <1>1, <1>3
  <2>2. r = [i \in floored |-> near[i]]
    BY Zenon DEF Restrict
  <2>3. /\ DOMAIN r = floored /\ floored \subseteq DOMAIN near /\ DOMAIN near \subseteq Int
        /\ \A i \in floored : r[i] \in Int
    BY <2>2, CandidateIs DEF RowsOK
  <2>4. IsFiniteSet(floored)
    BY <2>3, CandidateIs, FS_Subset
  <2>5. into \in floored
    BY <1>3, <2>3, <2>4, NearestIs
  <2> QED
    BY <2>1, <2>3, <2>5 DEF Decision
<1>4. CASE Classify(best) # "NearDuplicate" /\ ~(Classify(best) = "Mergeable" /\ floored # {})
  <2>1. d = MakeRoom(candidate, kept)
    BY <1>1, <1>4
  <2>2. kept \in {"Retain", "RetainProtected"}
    OBVIOUS
  <2>3. /\ d.candidate = candidate /\ d.action \in {kept, "Reject"}
        /\ d.evictions \subseteq Offered
        /\ d.action = kept => ~WouldExceed(1, b, Freed(capacity, d.evictions))
        /\ \A x \in d.evictions : Last(x, d.evictions) =>
             WouldExceed(1, b, Freed(capacity, d.evictions \ {x}))
        /\ d.action = "Reject" => WouldExceed(1, b, Freed(capacity, Offered))
    BY <2>1, <2>2, MakeRoomIs
  <2>4. config.fragile > 50 /\ kept = "RetainProtected" => DOMAIN near = {}
    <3> SUFFICES ASSUME config.fragile > 50, DOMAIN near # {}, kept = "RetainProtected" PROVE FALSE
      OBVIOUS
    <3> PICK m, f : m = MeanSimilarity(near) /\ f = Fragility(near, m)
      OBVIOUS
    <3>1. IsFiniteSet(DOMAIN near) /\ \A i \in DOMAIN near : near[i] \in -100 .. 100
      BY CandidateIs
    <3>2. TopMean(near) \in Int /\ m \in Int /\ m <= TopMean(near)
      BY <3>1, TopMeanIs
    <3>3. f \in Int /\ f <= 50
      BY <3>2, FragilityIs
    <3>4. f >= config.fragile
      OBVIOUS
    <3> QED
      BY <3>3, <3>4, ConfigIs
  <2> QED
    BY <2>2, <2>3, <2>4
<1> QED
  BY <1>2, <1>3, <1>4

(* What is read of a page that does not change.                            *)
LEMMA PageReads ==
  ASSUME UNCHANGED <<batch, capacity>>
  PROVE  /\ Evictable' = Evictable /\ Expiries' = Expiries /\ Offered' = Offered
         /\ \A i, j : Cheaper(i, j)' <=> Cheaper(i, j)
         /\ \A i, j : Overlap(i, j)' = Overlap(i, j)
         /\ \A i, S : Last(i, S)' <=> Last(i, S)
         /\ \A S : Over(S)' <=> Over(S)
<1>1. batch' = batch /\ capacity' = capacity
  OBVIOUS
<1>2. Evictable' = Evictable
  BY <1>1 DEF Evictable, IsEvictable
<1>3. Expiries' = Expiries
  BY <1>1 DEF Expiries, MustForget
<1>4. Offered' = Offered
  BY <1>1 DEF Offered, IsBounded, IsEvictable
<1>5. \A i, j : Cheaper(i, j)' <=> Cheaper(i, j)
  BY <1>1 DEF Cheaper, Cost
<1>6. \A i, j : Overlap(i, j)' = Overlap(i, j)
  BY <1>1 DEF Overlap
<1>7. \A i, S : Last(i, S)' <=> Last(i, S)
  BY <1>1 DEF Last, Cheaper, Cost
<1>8. ASSUME NEW S PROVE Over(S)' <=> Over(S)
  BY <1>1 DEF Over, WouldExceed, Freed, Bytes, SumOver, FoldFunctionOnSet, MapThenFoldSet
<1> QED
  BY <1>2, <1>3, <1>4, <1>5, <1>6, <1>7, <1>8

Reclaiming == {"regrant", "release", "merge", "apply"}

LEMMA PageStays ==
  ASSUME RowsOK, CountersOK, UNCHANGED <<batch, capacity>>
  PROVE  RowsOK' /\ CountersOK'
<1>1. batch' = batch /\ capacity' = capacity
  OBVIOUS
<1>2. RowsOK'
  BY <1>1 DEF RowsOK, IsRow
<1>3. Bytes(batch, DOMAIN batch)' = Bytes(batch, DOMAIN batch)
  BY <1>1 DEF Bytes, SumOver, FoldFunctionOnSet, MapThenFoldSet
<1>4. CountersOK'
  BY <1>1, <1>3 DEF CountersOK
<1> QED
  BY <1>2, <1>4

LEMMA NoAdmissionYet ==
  ASSUME admission' = NoAdmission
  PROVE  AdmissionSoFar'
<1>1. /\ admission'.evictions = {} /\ admission'.action = "None"
      /\ admission' = NoAdmission'
  BY DEF NoAdmission
<1> QED
  BY <1>1 DEF AdmissionSoFar

LEMMA AdmissionStays ==
  ASSUME AdmissionSoFar, UNCHANGED <<batch, capacity, admission, stage>>, config' = config
  PROVE  AdmissionSoFar'
<1>1. /\ batch' = batch /\ capacity' = capacity /\ admission' = admission /\ stage' = stage
      /\ NoAdmission' = NoAdmission
  BY DEF NoAdmission
<1>2. /\ Offered' = Offered
      /\ \A i, S : Last(i, S)' <=> Last(i, S)
  BY PageReads
<1>3. /\ FitsWithout(admission.evictions)' <=> FitsWithout(admission.evictions)
      /\ FitsWithout(Offered)' <=> FitsWithout(Offered)
  BY <1>1, <1>2 DEF FitsWithout, WouldExceed, Freed, Less, Bytes, SumOver, FoldFunctionOnSet,
                    MapThenFoldSet
<1>4. (\A d \in admission.evictions :
         Last(d, admission.evictions) => ~FitsWithout(admission.evictions \ {d}))'
        <=> \A d \in admission.evictions :
              Last(d, admission.evictions) => ~FitsWithout(admission.evictions \ {d})
  BY <1>1 DEF FitsWithout, WouldExceed, Freed, Less, Bytes, SumOver, FoldFunctionOnSet,
              MapThenFoldSet, Last, Cheaper, Cost
<1>5. BestScore(admission.candidate.near)' = BestScore(admission.candidate.near)
  BY <1>1 DEF BestScore
<1> QED
  BY <1>1, <1>2, <1>3, <1>4, <1>5 DEF AdmissionSoFar

LEMMA SettledStays ==
  ASSUME Settled, UNCHANGED <<batch, capacity, runs>>, config' = config, stage # "done" \/ stage' = "done"
  PROVE  Settled'
<1>1. batch' = batch /\ capacity' = capacity /\ runs' = runs
  OBVIOUS
<1>2. Evictable' = Evictable /\ Expiries' = Expiries
  BY PageReads
<1>3. Over(Expiries)' <=> Over(Expiries)
  BY <1>1, <1>2 DEF Over, WouldExceed, Freed, Less, Bytes, SumOver, FoldFunctionOnSet,
                    MapThenFoldSet
<1> QED
  BY <1>1, <1>2, <1>3 DEF Settled, Unpinned

(* What no step has decided yet.                                           *)
LEMMA NoReclaimsYet ==
  ASSUME decided'.reclaims = {}, stage' \notin Reclaiming
  PROVE  ReclaimedSoFar'
BY DEF ReclaimedSoFar, Reclaiming

LEMMA NoRegrantsYet ==
  ASSUME decided'.regrants = {}
  PROVE  RegrantedSoFar'
BY DEF RegrantedSoFar

LEMMA NoMergesYet ==
  ASSUME decided'.merges = <<>>
  PROVE  MergedSoFar'
BY DEF MergedSoFar

(* What an earlier step has decided and the later ones leave alone.        *)
LEMMA ReclaimedStays ==
  ASSUME ReclaimedSoFar, UNCHANGED <<batch, capacity>>,
         decided'.expiries = decided.expiries, decided'.reclaims = decided.reclaims,
         stage' \in Reclaiming <=> stage \in Reclaiming
  PROVE  ReclaimedSoFar'
<1> PICK S : S = Removed
  OBVIOUS
<1>1. /\ batch' = batch /\ capacity' = capacity /\ Removed' = S
      /\ decided'.expiries = decided.expiries /\ decided'.reclaims = decided.reclaims
  BY DEF Removed
<1>2. Evictable' = Evictable /\ (Over(decided.expiries)' <=> Over(decided.expiries))
  BY <1>1, PageReads DEF Over, WouldExceed, Freed, Less, Bytes, SumOver, FoldFunctionOnSet,
                         MapThenFoldSet
<1>3. Over(Removed)' <=> Over(Removed)
  BY <1>1 DEF Over, WouldExceed, Freed, Less, Bytes, SumOver, FoldFunctionOnSet,
              MapThenFoldSet
<1>4. (\A d \in decided.reclaims : Last(d, decided.reclaims) => Over(Removed \ {d}))'
        <=> \A d \in decided.reclaims : Last(d, decided.reclaims) => Over(Removed \ {d})
  BY <1>1 DEF Over, WouldExceed, Freed, Less, Bytes, SumOver, FoldFunctionOnSet,
              MapThenFoldSet, Last, Cheaper, Cost
<1> QED
  BY <1>1, <1>2, <1>3, <1>4 DEF ReclaimedSoFar, Reclaiming

LEMMA RegrantedStays ==
  ASSUME RegrantedSoFar, UNCHANGED <<batch, capacity>>,
         decided'.expiries = decided.expiries, decided'.reclaims = decided.reclaims,
         decided'.regrants = decided.regrants, config' = config,
         stage' \in {"release", "merge", "apply"} <=> stage \in {"release", "merge", "apply"}
  PROVE  RegrantedSoFar'
<1>1. /\ batch' = batch /\ Removed' = Removed /\ Survivors' = Survivors
      /\ Evictable' = Evictable
  BY PageReads DEF Removed, Survivors
<1> QED
  BY <1>1 DEF RegrantedSoFar

LEMMA MergedStays ==
  ASSUME MergedSoFar, UNCHANGED <<batch, capacity, decided, stage>>
  PROVE  MergedSoFar'
<1> PICK m : m = decided.merges
  OBVIOUS
<1>1. batch' = batch /\ decided' = decided /\ stage' = stage /\ decided'.merges = m
  OBVIOUS
<1>2. Survivors' = Survivors /\ SpokenFor' = SpokenFor
  BY <1>1 DEF Survivors, SpokenFor, Removed
<1>3. stage # "apply" => decided.merges = <<>>
  BY DEF MergedSoFar
<1>4. (\A n \in DOMAIN decided.merges :
         /\ decided.merges[n][1] \in Survivors /\ decided.merges[n][2] \in Survivors
         /\ decided.merges[n][1] # decided.merges[n][2])'
  BY <1>1, <1>2 DEF MergedSoFar
<1>5. (\A n \in DOMAIN decided.merges : MayGo(decided.merges[n][1], decided.merges[n][2]))'
  <2>1. \A n \in DOMAIN m : MayGo(m[n][1], m[n][2])
    BY DEF MergedSoFar
  <2> QED
    BY <1>1, <1>2, <2>1 DEF MayGo, IsEvictable, Overlap
<1>6. (\A n \in DOMAIN decided.merges :
         Overlap(decided.merges[n][2], decided.merges[n][1])
           > Overlap(decided.merges[n][1], decided.merges[n][2])
             => ~MayGo(decided.merges[n][2], decided.merges[n][1]))'
  <2>1. \A n \in DOMAIN m :
          Overlap(m[n][2], m[n][1]) > Overlap(m[n][1], m[n][2]) => ~MayGo(m[n][2], m[n][1])
    BY DEF MergedSoFar
  <2> QED
    BY <1>1, <1>2, <2>1 DEF MayGo, IsEvictable, Overlap
<1>7. (\A k, n \in DOMAIN decided.merges : k # n => Sides(k) \cap Sides(n) = {})'
  BY <1>1 DEF MergedSoFar, Sides
<1> QED
  BY <1>1, <1>3, <1>4, <1>5, <1>6, <1>7 DEF MergedSoFar

-----------------------------------------------------------------------------
(* The steps of a run, one by one.                                         *)

LEMMA DecisionsStart ==
  ASSUME DecisionsInit
  PROVE  DecisionsInv
<1>1. batch \in Batches /\ config \in Configs /\ stage = "start" /\ decided = Undecided
      /\ admission = NoAdmission /\ runs = <<>>
  BY DEF DecisionsInit
<1>2. RowsOK
  BY <1>1, DecisionsAssumption DEF RowsOK
<1>3. CountersOK
  <2>1. PICK c \in Capacities :
          capacity = [items |-> c.items, bytes |-> c.bytes,
                      usedItems |-> Cardinality(DOMAIN batch) + c.others,
                      usedBytes |-> Bytes(batch, DOMAIN batch) + c.others * FixedOverhead]
    BY DEF DecisionsInit
  <2>2. c.items \in Limit /\ c.bytes \in Limit /\ c.others \in Nat
    BY DecisionsAssumption DEF Limit
  <2> PICK n, b, o : /\ n = Cardinality(DOMAIN batch) /\ b = Bytes(batch, DOMAIN batch)
                     /\ o = c.others
    OBVIOUS
  <2>3. n \in Nat /\ b \in Nat /\ o \in Nat /\ o * FixedOverhead \in Nat
    BY <1>2, <2>2, BytesAre, RowsAre DEF FixedOverhead
  <2>4. /\ capacity.items = c.items /\ capacity.bytes = c.bytes
        /\ capacity.usedItems = n + o /\ capacity.usedBytes = b + o * FixedOverhead
        /\ capacity = [items |-> c.items, bytes |-> c.bytes, usedItems |-> n + o,
                       usedBytes |-> b + o * FixedOverhead]
    BY <2>1
  <2>5. /\ n + o \in Nat /\ n + o >= n
        /\ b + o * FixedOverhead \in Nat /\ b + o * FixedOverhead >= b
    BY <2>3
  <2> QED
    BY <2>2, <2>4, <2>5 DEF CountersOK
<1>4. DecidedOK /\ ExpiredSoFar /\ ReclaimedSoFar /\ RegrantedSoFar /\ ReleasedSoFar /\ MergedSoFar
  <2>1. /\ decided.expiries = {} /\ decided.reclaims = {} /\ decided.regrants = {}
        /\ decided.releases = {} /\ decided.merges = <<>>
    BY <1>1 DEF Undecided
  <2>2. DecidedOK
    BY <1>1 DEF DecidedOK, Undecided
  <2> QED
    BY <1>1, <2>1, <2>2 DEF ExpiredSoFar, ReclaimedSoFar, RegrantedSoFar, ReleasedSoFar, MergedSoFar
<1>5. AdmissionSoFar /\ Settled
  BY <1>1 DEF AdmissionSoFar, Settled, NoAdmission
<1> QED
  BY <1>2, <1>3, <1>4, <1>5 DEF DecisionsInv

LEMMA AdmissionKeeps ==
  ASSUME DecisionsInv, NEW candidate \in Candidates, Admission(candidate)
  PROVE  DecisionsInv'
<1>1. /\ stage = "start" /\ DOMAIN candidate.near \subseteq DOMAIN batch
      /\ admission' = Admit(candidate) /\ stage' = "admitted"
      /\ batch' = batch /\ capacity' = capacity /\ decided' = decided /\ runs' = runs
      /\ UNCHANGED <<batch, capacity>> /\ config' = config
  BY DEF Admission
<1>2. RowsOK' /\ CountersOK' /\ Settled'
  BY <1>1, PageStays, SettledStays DEF DecisionsInv
<1>3. DecidedOK' /\ ExpiredSoFar' /\ ReleasedSoFar'
  BY <1>1 DEF DecisionsInv, DecidedOK, ExpiredSoFar, ReleasedSoFar
<1>4. ReclaimedSoFar' /\ RegrantedSoFar' /\ MergedSoFar'
  <2>1. decided.reclaims = {} /\ decided.regrants = {} /\ decided.merges = <<>>
    BY <1>1 DEF DecisionsInv, ReclaimedSoFar, RegrantedSoFar, MergedSoFar
  <2> QED
    BY <1>1, <2>1, NoReclaimsYet, NoRegrantsYet, NoMergesYet DEF Reclaiming
<1>5. AdmissionSoFar'
  <2> PICK d : d = Admit(candidate)
    OBVIOUS
  <2>1. /\ d.candidate = candidate /\ d.evictions \subseteq Offered
        /\ d.action \in {"Retain", "RetainProtected"} =>
             ~WouldExceed(1, candidate.bytes, Freed(capacity, d.evictions))
        /\ \A x \in d.evictions : Last(x, d.evictions) =>
             WouldExceed(1, candidate.bytes, Freed(capacity, d.evictions \ {x}))
        /\ d.action = "Reject" =>
             \/ BestScore(candidate.near) >= DuplicateThreshold
             \/ WouldExceed(1, candidate.bytes, Freed(capacity, Offered))
        /\ d.action = "Merge" => d.into \in DOMAIN candidate.near /\ d.evictions = {}
        /\ config.fragile > 50 /\ d.action = "RetainProtected" => DOMAIN candidate.near = {}
    BY <1>1, AdmitIs DEF DecisionsInv, DecidedOK
  <2>2. Offered' = Offered /\ admission' = d
    BY <1>1, PageReads
  <2>3. /\ FitsWithout(admission.evictions)' <=>
             ~WouldExceed(1, candidate.bytes, Freed(capacity, d.evictions))
        /\ FitsWithout(Offered)' <=> ~WouldExceed(1, candidate.bytes, Freed(capacity, Offered))
    BY <1>1, <2>1, <2>2 DEF FitsWithout, WouldExceed, Freed, Less, Bytes, SumOver,
                            FoldFunctionOnSet, MapThenFoldSet
  <2>4. (\A x \in admission.evictions :
           Last(x, admission.evictions) => ~FitsWithout(admission.evictions \ {x}))'
          <=> \A x \in d.evictions : Last(x, d.evictions) =>
                WouldExceed(1, candidate.bytes, Freed(capacity, d.evictions \ {x}))
    BY <1>1, <2>1, <2>2 DEF FitsWithout, WouldExceed, Freed, Less, Bytes, SumOver,
                            FoldFunctionOnSet, MapThenFoldSet, Last, Cheaper, Cost
  <2>5. BestScore(admission.candidate.near)' = BestScore(candidate.near)
    BY <2>1, <2>2 DEF BestScore
  <2> QED
    BY <1>1, <2>1, <2>2, <2>3, <2>4, <2>5 DEF AdmissionSoFar
<1> QED
  BY <1>2, <1>3, <1>4, <1>5 DEF DecisionsInv

LEMMA StartKeeps ==
  ASSUME DecisionsInv, Start
  PROVE  DecisionsInv'
<1>1. /\ stage = "start" /\ stage' = "expire" /\ admission' = admission
      /\ batch' = batch /\ capacity' = capacity /\ decided' = decided /\ runs' = runs
      /\ UNCHANGED <<batch, capacity>> /\ config' = config
  BY DEF Start
<1>2. RowsOK' /\ CountersOK' /\ Settled'
  BY <1>1, PageStays, SettledStays DEF DecisionsInv
<1>3. DecidedOK' /\ ExpiredSoFar' /\ ReleasedSoFar'
  BY <1>1 DEF DecisionsInv, DecidedOK, ExpiredSoFar, ReleasedSoFar
<1>4. ReclaimedSoFar' /\ RegrantedSoFar' /\ MergedSoFar'
  <2>1. decided.reclaims = {} /\ decided.regrants = {} /\ decided.merges = <<>>
    BY <1>1 DEF DecisionsInv, ReclaimedSoFar, RegrantedSoFar, MergedSoFar
  <2> QED
    BY <1>1, <2>1, NoReclaimsYet, NoRegrantsYet, NoMergesYet DEF Reclaiming
<1>5. AdmissionSoFar'
  BY <1>1, NoAdmissionYet DEF DecisionsInv, AdmissionSoFar
<1> QED
  BY <1>2, <1>3, <1>4, <1>5 DEF DecisionsInv

LEMMA ExpireKeeps ==
  ASSUME DecisionsInv, Expire
  PROVE  DecisionsInv'
<1>1. /\ stage = "expire" /\ stage' = "reclaim" /\ admission' = admission
      /\ batch' = batch /\ capacity' = capacity /\ runs' = runs
      /\ decided' = [decided EXCEPT !.expiries = Expiries]
      /\ UNCHANGED <<batch, capacity>> /\ config' = config
  BY DEF Expire, Step
<1>2. RowsOK' /\ CountersOK' /\ Settled' /\ Expiries' = Expiries
  BY <1>1, PageStays, SettledStays, PageReads DEF DecisionsInv
<1>3. /\ Expiries \subseteq DOMAIN batch
      /\ decided \in [expiries : SUBSET DOMAIN batch, reclaims : SUBSET DOMAIN batch,
                      regrants : SUBSET DOMAIN batch, releases : SUBSET DOMAIN batch,
                      merges : Seq((DOMAIN batch) \X (DOMAIN batch))]
  BY DEF DecisionsInv, DecidedOK, Expiries
<1>4. /\ decided'.expiries = Expiries /\ decided'.reclaims = decided.reclaims
      /\ decided'.regrants = decided.regrants /\ decided'.releases = decided.releases
      /\ decided'.merges = decided.merges
  BY <1>1, <1>3
<1>5. DecidedOK' /\ ExpiredSoFar' /\ ReleasedSoFar'
  BY <1>1, <1>2, <1>3, <1>4 DEF DecisionsInv, DecidedOK, ExpiredSoFar, ReleasedSoFar
<1>6. ReclaimedSoFar' /\ RegrantedSoFar' /\ MergedSoFar'
  <2>1. decided.reclaims = {} /\ decided.regrants = {} /\ decided.merges = <<>>
    BY <1>1 DEF DecisionsInv, ReclaimedSoFar, RegrantedSoFar, MergedSoFar
  <2> QED
    BY <1>1, <1>4, <2>1, NoReclaimsYet, NoRegrantsYet, NoMergesYet DEF Reclaiming
<1>7. AdmissionSoFar'
  BY <1>1, NoAdmissionYet DEF DecisionsInv, AdmissionSoFar
<1> QED
  BY <1>2, <1>5, <1>6, <1>7 DEF DecisionsInv

(* The rows that go to make room, after those that go for their age.       *)
LEMMA ReclaimsAre ==
  ASSUME RowsOK, CountersOK, NEW E \in SUBSET DOMAIN batch, E = decided.expiries,
         NEW P, P = Reclaims
  PROVE  /\ P \subseteq Evictable \ E
         /\ P # {} => Over(E)
         /\ \A d \in P : Last(d, P) => Over((E \cup P) \ {d})
         /\ Over(E \cup P) => P = Evictable \ E
<1> PICK pool, left, q, m, n : /\ pool = Evictable \ E /\ left = Freed(capacity, E)
                               /\ q = Ranked(pool) /\ m = EvictionsNeeded(left, q, 0, 0)
                               /\ n = Cardinality(pool)
  OBVIOUS
<1>1. P = IF ~IsBounded \/ ~WouldExceed(0, 0, left) THEN {} ELSE Prefix(q, m)
  <2>1. {i \in DOMAIN batch \ decided.expiries : IsEvictable(batch[i])} = pool
    BY DEF Evictable
  <2> QED
    BY <2>1 DEF Reclaims
<1>2. pool \in SUBSET DOMAIN batch /\ n \in Nat /\ Len(q) = n
  BY RankedIs DEF Evictable
<1>3. WouldExceed(0, 0, left) <=> Over(E)
  BY DEF Over
<1>4. ASSUME NEW T, T \in SUBSET pool
      PROVE  WouldExceed(0, 0, Freed(left, T)) <=> Over(E \cup T)
  <2>1. T \in SUBSET DOMAIN batch /\ E \cap T = {} /\ E \cup T \in SUBSET DOMAIN batch
    BY <1>2, <1>4
  <2>2. WouldExceed(0, 0, Freed(left, T)) <=> Exceeds(0, 0, E \cup T)
    BY <2>1, FreedTwice
  <2>3. Over(E \cup T) <=> Exceeds(0, 0, E \cup T)
    BY <2>1, ExceedsIs DEF Over
  <2> QED
    BY <2>2, <2>3
<1>5. CASE ~IsBounded
  <2>1. P = {}
    BY <1>1, <1>5
  <2>2. ~Over(E \cup P)
    <3>1. E \cup P \in SUBSET DOMAIN batch
      BY <2>1
    <3>2. ~Exceeds(0, 0, E \cup P)
      BY <1>5 DEF Exceeds, IsBounded
    <3> QED
      BY <3>1, <3>2, ExceedsIs DEF Over
  <2> QED
    BY <2>1, <2>2
<1>6. CASE ~WouldExceed(0, 0, left)
  <2>1. P = {}
    BY <1>1, <1>6
  <2>2. E \cup P = E
    BY <2>1
  <2>3. ~Over(E \cup P)
    BY <1>3, <1>6, <2>2
  <2> QED
    BY <2>1, <2>3
<1>7. CASE IsBounded /\ WouldExceed(0, 0, left)
  <2>1. P = Prefix(q, m)
    BY <1>1, <1>7
  <2>2. /\ m \in 0 .. n
        /\ ~WouldExceed(0, 0, Freed(left, P)) \/ m = n
        /\ m > 0 => WouldExceed(0, 0, Freed(left, Prefix(q, m - 1)))
    BY <1>2, <2>1, NeededIs
  <2>3. /\ P \subseteq pool
        /\ m = 0 => P = {}
        /\ m = n => P = pool
        /\ m > 0 => \A d \in P : Last(d, P) => P \ {d} = Prefix(q, m - 1)
    <3>1. m \in 0 .. Cardinality(pool) /\ q = Ranked(pool)
      BY <2>2
    <3>2. /\ Prefix(q, m) \subseteq pool
          /\ m = 0 => Prefix(q, m) = {}
          /\ m = Cardinality(pool) => Prefix(q, m) = pool
          /\ m > 0 => \A d \in Prefix(q, m) :
               Last(d, Prefix(q, m)) => Prefix(q, m) \ {d} = Prefix(q, m - 1)
      BY ONLY RowsOK, <1>2, <3>1, PrefixIs
    <3> QED
      BY <2>1, <3>2
  <2>4. Over(E \cup P) => P = pool
    BY <1>4, <2>2, <2>3
  <2>5. ASSUME NEW d \in P, Last(d, P) PROVE Over((E \cup P) \ {d})
    <3>1. m > 0
      BY <2>2, <2>3
    <3> PICK T : T = P \ {d}
      OBVIOUS
    <3>2. T = Prefix(q, m - 1) /\ T \in SUBSET pool
      BY <2>3, <2>5, <3>1
    <3>3. Over(E \cup T)
      BY <1>4, <2>2, <3>1, <3>2
    <3>4. (E \cup P) \ {d} = E \cup T
      BY <2>3
    <3> QED
      BY <3>3, <3>4
  <2>6. Over(E)
    BY <1>3, <1>7
  <2> QED
    BY <2>3, <2>4, <2>5, <2>6
<1> QED
  BY <1>5, <1>6, <1>7

LEMMA ReclaimKeeps ==
  ASSUME DecisionsInv, Reclaim
  PROVE  DecisionsInv'
<1>1. /\ stage = "reclaim" /\ stage' = "regrant" /\ admission' = admission
      /\ batch' = batch /\ capacity' = capacity /\ runs' = runs
      /\ decided' = [decided EXCEPT !.reclaims = Reclaims]
      /\ UNCHANGED <<batch, capacity>> /\ config' = config
  BY DEF Reclaim, Step
<1>2. RowsOK' /\ CountersOK' /\ Settled' /\ Expiries' = Expiries /\ Evictable' = Evictable
  BY <1>1, PageStays, SettledStays, PageReads DEF DecisionsInv
<1>3. /\ decided \in [expiries : SUBSET DOMAIN batch, reclaims : SUBSET DOMAIN batch,
                      regrants : SUBSET DOMAIN batch, releases : SUBSET DOMAIN batch,
                      merges : Seq((DOMAIN batch) \X (DOMAIN batch))]
      /\ decided.expiries \in SUBSET DOMAIN batch
  BY DEF DecisionsInv, DecidedOK
<1> PICK E, P : E = decided.expiries /\ P = Reclaims
  OBVIOUS
<1>4. /\ P \subseteq Evictable \ E
      /\ P # {} => Over(E)
      /\ \A d \in P : Last(d, P) => Over((E \cup P) \ {d})
      /\ Over(E \cup P) => P = Evictable \ E
  BY <1>3, ReclaimsAre DEF DecisionsInv
<1>5. P \subseteq DOMAIN batch
  BY <1>4 DEF Evictable
<1>6. /\ decided'.expiries = E /\ decided'.reclaims = P
      /\ decided'.regrants = decided.regrants /\ decided'.releases = decided.releases
      /\ decided'.merges = decided.merges
  BY <1>1, <1>3
<1>7. DecidedOK' /\ ExpiredSoFar' /\ ReleasedSoFar'
  BY <1>1, <1>2, <1>3, <1>5, <1>6 DEF DecisionsInv, DecidedOK, ExpiredSoFar, ReleasedSoFar
<1>8. ReclaimedSoFar'
  <2>1. /\ Over(Removed)' <=> Over(E \cup P)
        /\ Over(decided.expiries)' <=> Over(E)
    BY <1>1, <1>6 DEF Removed, Over, WouldExceed, Freed, Less, Bytes, SumOver, FoldFunctionOnSet,
                      MapThenFoldSet
  <2>2. (\A d \in decided.reclaims : Last(d, decided.reclaims) => Over(Removed \ {d}))'
          <=> \A d \in P : Last(d, P) => Over((E \cup P) \ {d})
    BY <1>1, <1>6 DEF Removed, Over, WouldExceed, Freed, Less, Bytes, SumOver, FoldFunctionOnSet,
                      MapThenFoldSet, Last, Cheaper, Cost
  <2> QED
    BY <1>1, <1>2, <1>4, <1>6, <2>1, <2>2 DEF ReclaimedSoFar
<1>9. RegrantedSoFar' /\ MergedSoFar'
  <2>1. decided.regrants = {} /\ decided.merges = <<>>
    BY <1>1 DEF DecisionsInv, RegrantedSoFar, MergedSoFar
  <2> QED
    BY <1>6, <2>1, NoRegrantsYet, NoMergesYet
<1>10. AdmissionSoFar'
  BY <1>1, NoAdmissionYet DEF DecisionsInv, AdmissionSoFar
<1> QED
  BY <1>2, <1>7, <1>8, <1>9, <1>10 DEF DecisionsInv

(* How much of the one row the other says, in percent.                     *)
LEMMA OverlapIs ==
  ASSUME RowsOK, NEW i \in DOMAIN batch, NEW j
  PROVE  Overlap(i, j) \in 0 .. 100
<1> PICK W, V : W = batch[i].words /\ V = W \cap batch[j].words
  OBVIOUS
<1>1. IsFiniteSet(W) /\ IsFiniteSet(V) /\ V \subseteq W
  <2>1. IsFiniteSet(W)
    BY RowIs DEF RowsOK
  <2> QED
    BY <2>1, FS_Subset
<1>2. Overlap(i, j) = IF W = {} THEN 0 ELSE (100 * Cardinality(V)) \div Cardinality(W)
  BY DEF Overlap
<1>3. CASE W # {}
  <2> PICK n, m, d : n = Cardinality(W) /\ m = Cardinality(V) /\ d = (100 * m) \div n
    OBVIOUS
  <2>1. n \in Nat /\ m \in Nat /\ m <= n /\ n # 0
    BY <1>1, <1>3, FS_Subset, FS_CardinalityType, FS_EmptySet
  <2>2. d \in Nat /\ n * d <= 100 * m
    BY <2>1
  <2>3. d <= 100
    <3> SUFFICES ASSUME d >= 101 PROVE FALSE
      BY <2>2
    <3>1. n * d >= n * 101
      BY <2>1, <2>2
    <3> QED
      BY <2>1, <2>2, <3>1
  <2> QED
    BY <1>2, <1>3, <2>2, <2>3
<1> QED
  BY <1>2, <1>3

(* Who has company is not fragile.                                         *)
LEMMA CompanyProtectsNot ==
  ASSUME RowsOK, config \in Configs, config.fragile > 50,
         NEW S \in SUBSET DOMAIN batch, NEW i \in DOMAIN batch, S \ {i} # {}
  PROVE  ~(Among(i, S) >= config.fragile)
<1> PICK near, f : near = [j \in S \ {i} |-> Overlap(i, j)] /\ f = Fragility(near, 0)
  OBVIOUS
<1>1. Among(i, S) = f
  BY DEF Among, PageBaseline
<1>2. DOMAIN near = S \ {i} /\ \A j \in DOMAIN near : near[j] \in 0 .. 100
  BY OverlapIs
<1>3. IsFiniteSet(DOMAIN near) /\ DOMAIN near # {}
  BY <1>2, RowsAre, FS_Subset
<1>4. TopMean(near) \in Int /\ 0 <= TopMean(near)
  <2> PICK D, n, s : D = DOMAIN near /\ n = Cardinality(D) /\ s = SumOver(near, D)
    OBVIOUS
  <2>1. n \in Nat /\ n # 0 /\ s \in Nat
    <3>1. IsFiniteSet(D) /\ D # {} /\ \A j \in D : near[j] \in Nat
      BY <1>2, <1>3
    <3> QED
      BY <3>1, SumIsNat, FS_CardinalityType, FS_EmptySet
  <2>2. MeanSimilarity(near) = s \div n
    BY <1>3 DEF MeanSimilarity
  <2>3. \A j \in DOMAIN near : near[j] \in -100 .. 100
    BY <1>2
  <2> QED
    BY <1>3, <2>1, <2>2, <2>3, TopMeanIs
<1>5. f \in Int /\ f <= 50
  BY <1>3, <1>4, FragilityIs
<1> QED
  BY <1>1, <1>5, ConfigIs

LEMMA RegrantKeeps ==
  ASSUME DecisionsInv, Regrant
  PROVE  DecisionsInv'
<1>1. /\ stage = "regrant" /\ stage' = "release" /\ admission' = admission
      /\ batch' = batch /\ capacity' = capacity /\ runs' = runs
      /\ decided' = [decided EXCEPT !.regrants = Regrants]
      /\ UNCHANGED <<batch, capacity>> /\ config' = config
  BY DEF Regrant, Step
<1>2. RowsOK' /\ CountersOK' /\ Settled' /\ Expiries' = Expiries /\ Evictable' = Evictable
  BY <1>1, PageStays, SettledStays, PageReads DEF DecisionsInv
<1>3. decided \in [expiries : SUBSET DOMAIN batch, reclaims : SUBSET DOMAIN batch,
                   regrants : SUBSET DOMAIN batch, releases : SUBSET DOMAIN batch,
                   merges : Seq((DOMAIN batch) \X (DOMAIN batch))]
  BY DEF DecisionsInv, DecidedOK
<1>4. /\ decided'.regrants = Regrants
      /\ decided'.expiries = decided.expiries /\ decided'.reclaims = decided.reclaims
      /\ decided'.releases = decided.releases /\ decided'.merges = decided.merges
  BY <1>1, <1>3
<1>5. /\ Regrants \subseteq Survivors \cap Evictable
      /\ Regrants # {} => Removed # {}
      /\ config.fragile > 50 => \A i \in Regrants : Survivors = {i}
  <2>1. Regrants \subseteq Survivors \cap Evictable
    BY DEF Regrants, Survivors, Evictable
  <2>2. Regrants # {} => Removed # {}
    BY DEF Regrants
  <2>3. ASSUME config.fragile > 50, NEW i \in Regrants PROVE Survivors = {i}
    <3>1. i \in Survivors /\ Among(i, Survivors) >= config.fragile
      BY DEF Regrants
    <3>2. Survivors \ {i} = {}
      BY <2>3, <3>1, CompanyProtectsNot DEF Survivors, DecisionsInv, DecidedOK
    <3> QED
      BY <3>1, <3>2
  <2> QED
    BY <2>1, <2>2, <2>3
<1>6. DecidedOK' /\ ExpiredSoFar' /\ ReleasedSoFar'
  <2>1. Regrants \subseteq DOMAIN batch
    BY <1>5 DEF Survivors
  <2> QED
    BY <1>1, <1>2, <1>3, <1>4, <2>1 DEF DecisionsInv, DecidedOK, ExpiredSoFar, ReleasedSoFar
<1>7. ReclaimedSoFar'
  BY <1>1, <1>4, ReclaimedStays DEF DecisionsInv, Reclaiming
<1>8. RegrantedSoFar'
  <2>1. Removed' = Removed /\ Survivors' = Survivors
    BY <1>1, <1>4 DEF Removed, Survivors
  <2> QED
    BY <1>1, <1>2, <1>4, <1>5, <2>1 DEF RegrantedSoFar
<1>9. MergedSoFar'
  <2>1. decided.merges = <<>>
    BY <1>1 DEF DecisionsInv, MergedSoFar
  <2> QED
    BY <1>4, <2>1, NoMergesYet
<1>10. AdmissionSoFar'
  BY <1>1, NoAdmissionYet DEF DecisionsInv, AdmissionSoFar
<1> QED
  BY <1>2, <1>6, <1>7, <1>8, <1>9, <1>10 DEF DecisionsInv

LEMMA ReleaseKeeps ==
  ASSUME DecisionsInv, Release
  PROVE  DecisionsInv'
<1>1. /\ stage = "release" /\ stage' = "merge" /\ admission' = admission
      /\ batch' = batch /\ capacity' = capacity /\ runs' = runs
      /\ decided' = [decided EXCEPT !.releases = Releases]
      /\ UNCHANGED <<batch, capacity>> /\ config' = config
  BY DEF Release, Step
<1>2. RowsOK' /\ CountersOK' /\ Settled' /\ Expiries' = Expiries
  BY <1>1, PageStays, SettledStays, PageReads DEF DecisionsInv
<1>3. decided \in [expiries : SUBSET DOMAIN batch, reclaims : SUBSET DOMAIN batch,
                   regrants : SUBSET DOMAIN batch, releases : SUBSET DOMAIN batch,
                   merges : Seq((DOMAIN batch) \X (DOMAIN batch))]
  BY DEF DecisionsInv, DecidedOK
<1>4. /\ decided'.releases = Releases
      /\ decided'.expiries = decided.expiries /\ decided'.reclaims = decided.reclaims
      /\ decided'.regrants = decided.regrants /\ decided'.merges = decided.merges
  BY <1>1, <1>3
<1>5. DecidedOK' /\ ExpiredSoFar'
  <2>1. Releases \subseteq DOMAIN batch
    BY DEF Releases, Survivors
  <2> QED
    BY <1>1, <1>2, <1>3, <1>4, <2>1 DEF DecisionsInv, DecidedOK, ExpiredSoFar
<1>6. ReleasedSoFar'
  <2>1. Releases' = Releases
    BY <1>1, <1>4 DEF Releases, Survivors, Removed
  <2> QED
    BY <1>1, <1>4, <2>1 DEF ReleasedSoFar
<1>7. ReclaimedSoFar'
  BY <1>1, <1>4, ReclaimedStays DEF DecisionsInv, Reclaiming
<1>8. RegrantedSoFar'
  BY <1>1, <1>4, RegrantedStays DEF DecisionsInv
<1>9. MergedSoFar'
  <2>1. decided.merges = <<>>
    BY <1>1 DEF DecisionsInv, MergedSoFar
  <2> QED
    BY <1>4, <2>1, NoMergesYet
<1>10. AdmissionSoFar'
  BY <1>1, NoAdmissionYet DEF DecisionsInv, AdmissionSoFar
<1> QED
  BY <1>2, <1>5, <1>6, <1>7, <1>8, <1>9, <1>10 DEF DecisionsInv

LEMMA RestKeeps ==
  ASSUME DecisionsInv, UNCHANGED decisionVars
  PROVE  DecisionsInv'
<1>1. /\ batch' = batch /\ capacity' = capacity /\ stage' = stage /\ decided' = decided
      /\ admission' = admission /\ runs' = runs
      /\ UNCHANGED <<batch, capacity>> /\ config' = config
  BY DEF decisionVars
<1>2. RowsOK' /\ CountersOK' /\ Settled' /\ Expiries' = Expiries
  BY <1>1, PageStays, SettledStays, PageReads DEF DecisionsInv
<1>3. DecidedOK' /\ ExpiredSoFar'
  BY <1>1, <1>2 DEF DecisionsInv, DecidedOK, ExpiredSoFar
<1>4. ReleasedSoFar'
  <2>1. Releases' = Releases
    BY <1>1 DEF Releases, Survivors, Removed
  <2> QED
    BY <1>1, <2>1 DEF DecisionsInv, ReleasedSoFar
<1>5. ReclaimedSoFar' /\ RegrantedSoFar' /\ MergedSoFar'
  BY <1>1, ReclaimedStays, RegrantedStays, MergedStays DEF DecisionsInv
<1>6. AdmissionSoFar'
  BY <1>1, AdmissionStays DEF DecisionsInv
<1> QED
  BY <1>2, <1>3, <1>4, <1>5, <1>6 DEF DecisionsInv

-----------------------------------------------------------------------------
(* Consolidation.                                                          *)

AllPairs == {p \in Survivors \X Survivors : Older(p[1], p[2])}
EarlierPair(p, q) == Older(p[1], q[1]) \/ (p[1] = q[1] /\ Older(p[2], q[2]))
PairOrder == {z \in AllPairs \X AllPairs : EarlierPair(z[1], z[2])}

LEMMA OlderOrders ==
  ASSUME RowsOK
  PROVE  /\ \A i \in DOMAIN batch : ~Older(i, i)
         /\ \A i, j, k \in DOMAIN batch : Older(i, j) /\ Older(j, k) => Older(i, k)
         /\ \A i, j \in DOMAIN batch : i = j \/ Older(i, j) \/ Older(j, i)
<1>1. \A i \in DOMAIN batch : i \in Int /\ batch[i].created \in Int
  BY RowIs DEF RowsOK
<1> QED
  BY <1>1 DEF Older

LEMMA PairsAre ==
  ASSUME RowsOK
  PROVE  /\ Len(Pairs) \in Nat
         /\ \A k \in 1 .. Len(Pairs) :
              /\ Pairs[k][1] \in Survivors /\ Pairs[k][2] \in Survivors
              /\ Older(Pairs[k][1], Pairs[k][2]) /\ Pairs[k][1] # Pairs[k][2]
<1>1. \A p \in AllPairs : /\ p = <<p[1], p[2]>> /\ p[1] \in Survivors /\ p[2] \in Survivors
                          /\ Older(p[1], p[2])
  BY DEF AllPairs
<1>2. \A i \in Survivors : i \in DOMAIN batch
  BY DEF Survivors
<1>3. IsFiniteSet(AllPairs)
  <2>1. IsFiniteSet(Survivors)
    BY <1>2, RowsAre, FS_Subset
  <2>2. IsFiniteSet(Survivors \X Survivors)
    BY <2>1, FS_Product
  <2> QED
    BY <2>2, FS_Subset DEF AllPairs
<1>4. \A p, q \in AllPairs : <<p, q>> \in PairOrder <=> EarlierPair(p, q)
  BY DEF PairOrder
<1>5. Orders(PairOrder, AllPairs)
  <2>1. \A p \in AllPairs : ~EarlierPair(p, p)
    BY <1>1, <1>2, OlderOrders DEF EarlierPair
  <2>2. ASSUME NEW p \in AllPairs, NEW q \in AllPairs, NEW r \in AllPairs,
               EarlierPair(p, q), EarlierPair(q, r)
        PROVE  EarlierPair(p, r)
    <3>1. /\ p[1] \in DOMAIN batch /\ p[2] \in DOMAIN batch /\ q[1] \in DOMAIN batch
          /\ q[2] \in DOMAIN batch /\ r[1] \in DOMAIN batch /\ r[2] \in DOMAIN batch
      BY <1>1, <1>2
    <3> QED
      BY <2>2, <3>1, OlderOrders DEF EarlierPair
  <2>3. ASSUME NEW p \in AllPairs, NEW q \in AllPairs
        PROVE  p = q \/ EarlierPair(p, q) \/ EarlierPair(q, p)
    <3>1. /\ p[1] \in DOMAIN batch /\ p[2] \in DOMAIN batch /\ q[1] \in DOMAIN batch
          /\ q[2] \in DOMAIN batch
      BY <1>1, <1>2
    <3>2. p[1] = q[1] \/ Older(p[1], q[1]) \/ Older(q[1], p[1])
      BY <3>1, OlderOrders
    <3>3. p[2] = q[2] \/ Older(p[2], q[2]) \/ Older(q[2], p[2])
      BY <3>1, OlderOrders
    <3>4. p[1] = q[1] /\ p[2] = q[2] => p = q
      BY <1>1
    <3> QED
      BY <3>2, <3>3, <3>4 DEF EarlierPair
  <2> QED
    BY <1>4, <2>1, <2>2, <2>3 DEF Orders
<1> PICK n, P : n = Cardinality(AllPairs) /\ P = Pairs
  OBVIOUS
<1>6. n \in Nat
  BY <1>3, FS_CardinalityType
<1>7. P = [k \in 1 .. n |->
             CHOOSE p \in AllPairs : Cardinality({q \in AllPairs : EarlierPair(q, p)}) = k - 1]
  BY DEF Pairs, AllPairs, EarlierPair
<1>8. ASSUME NEW k \in 1 .. n PROVE P[k] \in AllPairs
  <2>1. k - 1 \in 0 .. (Cardinality(AllPairs) - 1)
    BY <1>6
  <2>2. PICK p \in AllPairs : Cardinality(Ahead(PairOrder, AllPairs, p)) = k - 1
    BY <1>3, <1>5, <2>1, RankTakenByOne
  <2>3. Ahead(PairOrder, AllPairs, p) = {q \in AllPairs : EarlierPair(q, p)}
    BY <1>4 DEF Ahead
  <2>4. \E r \in AllPairs : Cardinality({q \in AllPairs : EarlierPair(q, r)}) = k - 1
    BY <2>2, <2>3
  <2>5. P[k] = CHOOSE r \in AllPairs : Cardinality({q \in AllPairs : EarlierPair(q, r)}) = k - 1
    BY <1>7
  <2> QED
    BY <2>4, <2>5
<1>9. Len(P) = n
  <2>1. P = [k \in 1 .. n |-> P[k]]
    BY <1>7
  <2> QED
    BY <1>6, <2>1
<1>10. ASSUME NEW k \in 1 .. n
       PROVE  /\ P[k][1] \in Survivors /\ P[k][2] \in Survivors
              /\ Older(P[k][1], P[k][2]) /\ P[k][1] # P[k][2]
  <2>1. /\ P[k][1] \in Survivors /\ P[k][2] \in Survivors /\ Older(P[k][1], P[k][2])
    BY <1>1, <1>8
  <2> QED
    BY <1>2, <2>1, OlderOrders
<1> QED
  BY <1>6, <1>9, <1>10

(* Of two rows the one goes of which the other says more, if it may.       *)
FoldsRight(w) ==
  /\ MayGo(w[1], w[2])
  /\ Overlap(w[2], w[1]) > Overlap(w[1], w[2]) => ~MayGo(w[2], w[1])

LEMMA FoldIs ==
  ASSUME RowsOK, NEW i \in Survivors, NEW j \in Survivors, Older(i, j), i # j
  PROVE  \/ Fold(i, j) = <<>>
         \/ \E w \in {<<i, j>>, <<j, i>>} : Fold(i, j) = <<w>> /\ FoldsRight(w)
<1> PICK ways : ways = {w \in {<<i, j>>, <<j, i>>} : MayGo(w[1], w[2])}
  OBVIOUS
<1> PICK c : c = CHOOSE w \in ways : \A v \in ways \ {w} : Preferred(w[1], w[2])
  OBVIOUS
<1>1. Fold(i, j) = IF ways = {} THEN <<>> ELSE <<c>>
  BY DEF Fold
<1>2. SUFFICES ASSUME ways # {}
               PROVE  c \in {<<i, j>>, <<j, i>>} /\ FoldsRight(c)
  BY <1>1
<1>3. Overlap(i, j) \in Int /\ Overlap(j, i) \in Int
  BY OverlapIs DEF Survivors
<1>4. Preferred(i, j) \/ Preferred(j, i)
  BY <1>3 DEF Preferred
<1>5. \E w \in ways : \A v \in ways \ {w} : Preferred(w[1], w[2])
  <2>1. CASE <<i, j>> \in ways /\ <<j, i>> \in ways
    <3>1. CASE Preferred(i, j)
      <4>1. Preferred(<<i, j>>[1], <<i, j>>[2])
        BY <3>1
      <4> QED
        BY <2>1, <4>1
    <3>2. CASE Preferred(j, i)
      <4>1. Preferred(<<j, i>>[1], <<j, i>>[2])
        BY <3>2
      <4> QED
        BY <2>1, <4>1
    <3> QED
      BY <1>4, <3>1, <3>2
  <2>2. CASE ~(<<i, j>> \in ways /\ <<j, i>> \in ways)
    <3>1. PICK w \in ways : TRUE
      BY <1>2
    <3>2. ways \ {w} = {}
      BY <2>2
    <3> QED
      BY <3>2
  <2> QED
    BY <2>1, <2>2
<1>6. c \in ways /\ \A v \in ways \ {c} : Preferred(c[1], c[2])
  BY <1>5
<1>7. c \in {<<i, j>>, <<j, i>>} /\ MayGo(c[1], c[2])
  BY <1>6
<1>8. PICK x, y : c = <<x, y>> /\ ((x = i /\ y = j) \/ (x = j /\ y = i))
  BY <1>7
<1>9. c[1] = x /\ c[2] = y /\ <<y, x>> # c /\ <<y, x>> \in {<<i, j>>, <<j, i>>}
  <2>1. c = <<x, y>> /\ x # y
    BY <1>8
  <2>2. <<y, x>> \in {<<i, j>>, <<j, i>>}
    BY ONLY <1>8
  <2> QED
    BY ONLY <2>1, <2>2
<1>10. ASSUME MayGo(y, x) PROVE ~(Overlap(y, x) > Overlap(x, y))
  <2> PICK z : z = <<y, x>>
    OBVIOUS
  <2>1. z[1] = y /\ z[2] = x
    OBVIOUS
  <2>2. z \in ways \ {c}
    BY <1>9, <1>10, <2>1
  <2>3. Preferred(x, y)
    BY <1>6, <1>9, <2>2
  <2>4. Overlap(x, y) \in Int /\ Overlap(y, x) \in Int
    BY <1>3, <1>8
  <2> QED
    BY <2>3, <2>4 DEF Preferred
<1> QED
  BY <1>7, <1>9, <1>10 DEF FoldsRight

(* The merges of a run so far, and one more pair considered.               *)
Claimed(m) == UNION {{m[n][1], m[n][2]} : n \in DOMAIN m}
Considered(m, p) ==
  IF p[1] \in Claimed(m) \/ p[2] \in Claimed(m) THEN m ELSE m \o Fold(p[1], p[2])
Merging(n, g) == g = [k \in 0 .. n |-> IF k = 0 THEN <<>> ELSE Considered(g[k - 1], Pairs[k])]
MergesRight(m) ==
  /\ m \in Seq(Survivors \X Survivors)
  /\ \A n \in DOMAIN m : m[n][1] # m[n][2] /\ FoldsRight(m[n])
  /\ \A k, n \in DOMAIN m : k # n => {m[k][1], m[k][2]} \cap {m[n][1], m[n][2]} = {}

LEMMA MergingExists ==
  ASSUME NEW n \in Nat
  PROVE  \E g : Merging(n, g)
<1> DEFINE C == {k \in Nat : ~\E g : Merging(k, g)}
<1>1. SUFFICES ASSUME C # {} PROVE FALSE
  OBVIOUS
<1>2. PICK m \in C : \A k \in C : m <= k
  <2>1. C \subseteq Nat
    OBVIOUS
  <2> HIDE DEF C
  <2> QED
    BY <1>1, <2>1, Least
<1>3. m \in Nat /\ ~\E g : Merging(m, g)
  OBVIOUS
<1>4. m # 0
  <2> SUFFICES ASSUME m = 0 PROVE FALSE
    OBVIOUS
  <2> PICK g : g = [k \in 0 .. 0 |-> <<>>]
    OBVIOUS
  <2>1. g = [k \in 0 .. 0 |-> IF k = 0 THEN <<>> ELSE Considered(g[k - 1], Pairs[k])]
    OBVIOUS
  <2> QED
    BY <1>3, <2>1 DEF Merging
<1>5. PICK g : Merging(m - 1, g)
  <2>1. m - 1 \in Nat /\ m - 1 \notin C
    BY <1>2, <1>3, <1>4
  <2> QED
    BY <2>1
<1> HIDE DEF C
<1> PICK h : h = [k \in 0 .. m |-> IF k = m THEN Considered(g[m - 1], Pairs[m]) ELSE g[k]]
  OBVIOUS
<1>6. ASSUME NEW k \in 0 .. m
      PROVE  h[k] = IF k = 0 THEN <<>> ELSE Considered(h[k - 1], Pairs[k])
  <2>1. k # 0 => h[k - 1] = g[k - 1]
    BY <1>3, <1>4
  <2>2. CASE k = m
    BY <1>3, <1>4, <2>1, <2>2
  <2>3. CASE k # m
    <3>1. k \in 0 .. (m - 1)
      BY <1>3, <2>3
    <3>2. g[k] = IF k = 0 THEN <<>> ELSE Considered(g[k - 1], Pairs[k])
      BY <1>5, <3>1 DEF Merging
    <3>3. h[k] = g[k]
      BY <2>3
    <3> QED
      BY <2>1, <3>2, <3>3
  <2> QED
    BY <2>2, <2>3
<1>7. h = [k \in 0 .. m |-> IF k = 0 THEN <<>> ELSE Considered(h[k - 1], Pairs[k])]
  BY <1>6
<1> QED
  BY <1>3, <1>7 DEF Merging

LEMMA ConsideredIs ==
  ASSUME RowsOK, NEW m, MergesRight(m), NEW p, p[1] \in Survivors, p[2] \in Survivors,
         Older(p[1], p[2]), p[1] # p[2]
  PROVE  MergesRight(Considered(m, p))
<1> PICK i, j : i = p[1] /\ j = p[2]
  OBVIOUS
<1> PICK E : E = Survivors \X Survivors
  OBVIOUS
<1>1. CASE i \in Claimed(m) \/ j \in Claimed(m)
  BY <1>1 DEF Considered
<1>2. CASE i \notin Claimed(m) /\ j \notin Claimed(m)
  <2>1. Considered(m, p) = m \o Fold(i, j)
    BY <1>2 DEF Considered
  <2>2. m \in Seq(E)
    BY DEF MergesRight
  <2>3. CASE Fold(i, j) = <<>>
    <3>1. m \o <<>> = m
      BY <2>2
    <3> QED
      BY <2>1, <2>3, <3>1
  <2>4. CASE Fold(i, j) # <<>>
    <3>1. PICK w \in {<<i, j>>, <<j, i>>} : Fold(i, j) = <<w>> /\ FoldsRight(w)
      BY <2>4, FoldIs
    <3>2. w \in E /\ {w[1], w[2]} = {i, j} /\ w[1] # w[2]
      BY <3>1
    <3> PICK u, l : u = m \o <<w>> /\ l = Len(m)
      OBVIOUS
    <3>3. /\ l \in Nat /\ u \in Seq(E) /\ DOMAIN m = 1 .. l /\ DOMAIN u = 1 .. (l + 1)
          /\ u[l + 1] = w /\ \A n \in 1 .. l : u[n] = m[n]
      BY ONLY <2>2, <3>2, u = m \o <<w>>, l = Len(m)
    <3>4. \A n \in 1 .. l : i \notin {m[n][1], m[n][2]} /\ j \notin {m[n][1], m[n][2]}
      BY <1>2, <3>3 DEF Claimed
    <3>5. \A n \in 1 .. (l + 1) : n \in 1 .. l \/ n = l + 1
      BY <3>3
    <3>6. \A n \in 1 .. l : m[n][1] # m[n][2] /\ FoldsRight(m[n])
      BY <3>3 DEF MergesRight
    <3>7. \A n \in DOMAIN u : u[n][1] # u[n][2] /\ FoldsRight(u[n])
      BY <3>1, <3>2, <3>3, <3>5, <3>6
    <3>8. \A k, n \in 1 .. l : k # n => {m[k][1], m[k][2]} \cap {m[n][1], m[n][2]} = {}
      BY <3>3 DEF MergesRight
    <3>9. ASSUME NEW k \in DOMAIN u, NEW n \in DOMAIN u, k # n
          PROVE  {u[k][1], u[k][2]} \cap {u[n][1], u[n][2]} = {}
      <4>1. CASE k \in 1 .. l /\ n \in 1 .. l
        BY <3>3, <3>8, <3>9, <4>1
      <4>2. CASE k \in 1 .. l /\ n = l + 1
        BY <3>2, <3>3, <3>4, <4>2
      <4>3. CASE k = l + 1 /\ n \in 1 .. l
        BY <3>2, <3>3, <3>4, <4>3
      <4> QED
        BY <3>3, <3>5, <3>9, <4>1, <4>2, <4>3
    <3>10. MergesRight(u)
      BY <3>3, <3>7, <3>9 DEF MergesRight
    <3> QED
      BY <2>1, <3>1, <3>10
  <2> QED
    BY <2>3, <2>4
<1> QED
  BY <1>1, <1>2

LEMMA ConsolidationsAre ==
  ASSUME RowsOK
  PROVE  MergesRight(Consolidations)
<1> PICK n : n = Len(Pairs)
  OBVIOUS
<1> PICK g : g = CHOOSE h : Merging(n, h)
  OBVIOUS
<1>1. n \in Nat
  BY PairsAre
<1>2. Merging(n, g)
  BY <1>1, MergingExists
<1>3. Consolidations = g[n]
  BY DEF Consolidations, Merging, Considered, Claimed
<1> DEFINE C == {k \in 0 .. n : ~MergesRight(g[k])}
<1>4. SUFFICES ASSUME C # {} PROVE FALSE
  <2>1. n \in 0 .. n
    BY <1>1
  <2> QED
    BY <1>3, <2>1
<1>5. PICK m \in C : \A k \in C : m <= k
  <2>1. C \subseteq Nat
    BY <1>1
  <2> HIDE DEF C
  <2> QED
    BY <1>4, <2>1, Least
<1>6. m \in 0 .. n /\ ~MergesRight(g[m])
  OBVIOUS
<1>7. g[m] = IF m = 0 THEN <<>> ELSE Considered(g[m - 1], Pairs[m])
  BY <1>2, <1>6 DEF Merging
<1>8. m # 0
  <2>1. MergesRight(<<>>)
    BY DEF MergesRight
  <2> QED
    BY <1>6, <1>7, <2>1
<1>9. m - 1 \in 0 .. n /\ m \in 1 .. n /\ m - 1 \notin C
  BY <1>1, <1>5, <1>6, <1>8
<1>10. MergesRight(g[m - 1])
  BY <1>9
<1> HIDE DEF C
<1>11. MergesRight(Considered(g[m - 1], Pairs[m]))
  BY <1>9, <1>10, PairsAre, ConsideredIs
<1> QED
  BY <1>6, <1>7, <1>8, <1>11

LEMMA ConsolidateKeeps ==
  ASSUME DecisionsInv, Consolidate
  PROVE  DecisionsInv'
<1>1. /\ stage = "merge" /\ stage' = "apply" /\ admission' = admission
      /\ batch' = batch /\ capacity' = capacity /\ runs' = runs
      /\ decided' = [decided EXCEPT !.merges = Consolidations]
      /\ UNCHANGED <<batch, capacity>> /\ config' = config
  BY DEF Consolidate, Step
<1>2. RowsOK' /\ CountersOK' /\ Settled' /\ Expiries' = Expiries
  BY <1>1, PageStays, SettledStays, PageReads DEF DecisionsInv
<1>3. decided \in [expiries : SUBSET DOMAIN batch, reclaims : SUBSET DOMAIN batch,
                   regrants : SUBSET DOMAIN batch, releases : SUBSET DOMAIN batch,
                   merges : Seq((DOMAIN batch) \X (DOMAIN batch))]
  BY DEF DecisionsInv, DecidedOK
<1> PICK m : m = Consolidations
  OBVIOUS
<1>4. MergesRight(m)
  BY ConsolidationsAre DEF DecisionsInv
<1>5. /\ decided'.merges = m
      /\ decided'.expiries = decided.expiries /\ decided'.reclaims = decided.reclaims
      /\ decided'.regrants = decided.regrants /\ decided'.releases = decided.releases
  BY <1>1, <1>3
<1>6. DecidedOK' /\ ExpiredSoFar'
  <2>1. m \in Seq((DOMAIN batch) \X (DOMAIN batch))
    <3>1. m \in Seq(Survivors \X Survivors) /\ Survivors \subseteq DOMAIN batch
      BY <1>4 DEF MergesRight, Survivors
    <3> PICK S, D : S = Survivors /\ D = DOMAIN batch
      OBVIOUS
    <3>2. m \in Seq(S \X S) /\ S \X S \subseteq D \X D
      BY <3>1
    <3> PICK U, V : U = S \X S /\ V = D \X D
      OBVIOUS
    <3>3. m \in Seq(U) /\ U \subseteq V
      BY <3>2
    <3>4. m \in Seq(V)
      BY ONLY <3>3
    <3> QED
      BY <3>4
  <2> QED
    BY <1>1, <1>2, <1>3, <1>5, <2>1 DEF DecisionsInv, DecidedOK, ExpiredSoFar
<1>7. ReleasedSoFar'
  <2>1. Releases' = Releases
    BY <1>1, <1>5 DEF Releases, Survivors, Removed
  <2> QED
    BY <1>1, <1>5, <2>1 DEF DecisionsInv, ReleasedSoFar
<1>8. ReclaimedSoFar' /\ RegrantedSoFar'
  BY <1>1, <1>5, ReclaimedStays, RegrantedStays DEF DecisionsInv, Reclaiming
<1>9. MergedSoFar'
  <2>1. Survivors' = Survivors /\ SpokenFor' = SpokenFor
    BY <1>1, <1>5 DEF Survivors, SpokenFor, Removed
  <2>2. ASSUME NEW n \in DOMAIN m
        PROVE  /\ m[n][1] \in Survivors /\ m[n][2] \in Survivors
               /\ m[n][1] # m[n][2] /\ FoldsRight(m[n])
    <3> PICK S : S = Survivors \X Survivors
      OBVIOUS
    <3>1. m \in Seq(S)
      BY <1>4 DEF MergesRight
    <3>2. m[n] \in S
      BY ONLY <3>1, n \in DOMAIN m
    <3> QED
      BY <1>4, <3>2 DEF MergesRight
  <2>3. \A k, n \in DOMAIN m : k # n => {m[k][1], m[k][2]} \cap {m[n][1], m[n][2]} = {}
    BY <1>4 DEF MergesRight
  <2>4. (\A n \in DOMAIN decided.merges :
           /\ decided.merges[n][1] \in Survivors /\ decided.merges[n][2] \in Survivors
           /\ decided.merges[n][1] # decided.merges[n][2])'
    BY <1>1, <1>5, <2>1, <2>2
  <2>5. (\A n \in DOMAIN decided.merges : MayGo(decided.merges[n][1], decided.merges[n][2]))'
    <3>1. \A n \in DOMAIN m : MayGo(m[n][1], m[n][2])
      BY <2>2 DEF FoldsRight
    <3>2. decided'.merges = m
      BY <1>5
    <3>3. \A i, j : (MayGo(i, j)' <=> MayGo(i, j)) /\ Overlap(i, j)' = Overlap(i, j)
      BY <1>1, <2>1 DEF MayGo, IsEvictable, Overlap
    <3> QED
      BY <3>1, <3>2, <3>3
  <2>6. (\A n \in DOMAIN decided.merges :
           Overlap(decided.merges[n][2], decided.merges[n][1])
             > Overlap(decided.merges[n][1], decided.merges[n][2])
               => ~MayGo(decided.merges[n][2], decided.merges[n][1]))'
    <3>1. \A n \in DOMAIN m :
            Overlap(m[n][2], m[n][1]) > Overlap(m[n][1], m[n][2]) => ~MayGo(m[n][2], m[n][1])
      BY <2>2 DEF FoldsRight
    <3>2. decided'.merges = m
      BY <1>5
    <3>3. \A i, j : (MayGo(i, j)' <=> MayGo(i, j)) /\ Overlap(i, j)' = Overlap(i, j)
      BY <1>1, <2>1 DEF MayGo, IsEvictable, Overlap
    <3> QED
      BY <3>1, <3>2, <3>3
  <2>7. (\A k, n \in DOMAIN decided.merges : k # n => Sides(k) \cap Sides(n) = {})'
    BY <1>5, <2>3 DEF Sides
  <2> QED
    BY <1>1, <2>4, <2>5, <2>6, <2>7 DEF MergedSoFar
<1>10. AdmissionSoFar'
  BY <1>1, NoAdmissionYet DEF DecisionsInv, AdmissionSoFar
<1> QED
  BY <1>2, <1>6, <1>7, <1>8, <1>9, <1>10 DEF DecisionsInv

-----------------------------------------------------------------------------
(* What the engine makes of the decisions.                                 *)

Apps == [j \in DOMAIN batch |-> Appended(j)]
Gained == [i \in DOMAIN batch |-> SumOver(Apps, Gains(i))]
Gone == Evicted \cup Absorbed

LEMMA AppsAre ==
  ASSUME RowsOK
  PROVE  \A j \in DOMAIN batch : /\ Apps[j] = Appended(j) /\ Apps[j] \in Nat
                                 /\ Apps[j] <= RowBytes[j] /\ Apps[j] >= 2
<1>1. \A j \in DOMAIN batch : batch[j].bytes \in Nat /\ batch[j].bytes >= 64
  BY RowIs DEF RowsOK
<1> QED
  BY <1>1 DEF Apps, Appended, FixedOverhead, Separator, RowBytes

(* Who is gone, and what of it is kept: no row is absorbed twice.          *)
LEMMA MergesAre ==
  ASSUME DecisionsInv
  PROVE  /\ Absorbed \subseteq Survivors
         /\ \A i : Gains(i) \subseteq Absorbed
         /\ \A i : Gains(i) # {} => i \in Survivors \ Absorbed
         /\ \A i, k : i # k => Gains(i) \cap Gains(k) = {}
<1> PICK m : m = decided.merges
  OBVIOUS
<1>1. /\ \A n \in DOMAIN m : m[n][1] \in Survivors /\ m[n][2] \in Survivors /\ m[n][1] # m[n][2]
      /\ \A k, n \in DOMAIN m : k # n => {m[k][1], m[k][2]} \cap {m[n][1], m[n][2]} = {}
  BY DEF DecisionsInv, MergedSoFar, Sides
<1>2. Absorbed = {m[n][1] : n \in DOMAIN m}
  BY DEF Absorbed
<1>3. \A i : Gains(i) = {m[n][1] : n \in {k \in DOMAIN m : m[k][2] = i}}
  BY DEF Gains
<1>4. Absorbed \subseteq Survivors /\ \A i : Gains(i) \subseteq Absorbed
  BY <1>1, <1>2, <1>3
<1>5. ASSUME NEW i, Gains(i) # {} PROVE i \in Survivors \ Absorbed
  <2>1. PICK n \in DOMAIN m : m[n][2] = i
    BY <1>3, <1>5
  <2>2. ASSUME i \in Absorbed PROVE FALSE
    <3>1. PICK k \in DOMAIN m : m[k][1] = i
      BY <1>2, <2>2
    <3>2. k # n
      BY <1>1, <2>1, <3>1
    <3> QED
      BY <1>1, <2>1, <3>1, <3>2
  <2> QED
    BY <1>1, <2>1, <2>2
<1>6. ASSUME NEW i, NEW k, i # k, NEW j \in Gains(i) \cap Gains(k) PROVE FALSE
  <2>1. PICK n \in DOMAIN m : m[n][2] = i /\ m[n][1] = j
    BY <1>3, <1>6
  <2>2. PICK l \in DOMAIN m : m[l][2] = k /\ m[l][1] = j
    BY <1>3, <1>6
  <2>3. n # l /\ j \in {m[n][1], m[n][2]} \cap {m[l][1], m[l][2]}
    BY <1>6, <2>1, <2>2
  <2> QED
    BY <1>1, <2>3
<1> QED
  BY <1>4, <1>5, <1>6

LEMMA GoneAre ==
  ASSUME DecisionsInv
  PROVE  /\ Gone \subseteq DOMAIN batch /\ Evicted \cap Absorbed = {}
         /\ Absorbed \subseteq DOMAIN batch /\ Evicted \subseteq Removed
         /\ Removed \subseteq DOMAIN batch
         /\ \A i \in DOMAIN batch \ Gone : i \in Survivors \/ ~Unpinned(batch[i])
<1>1. Removed \subseteq DOMAIN batch
  BY DEF DecisionsInv, DecidedOK, Removed
<1>2. Evicted \subseteq Removed /\ \A i \in Removed \ Evicted : ~Unpinned(batch[i])
  BY DEF Evicted
<1> QED
  BY <1>1, <1>2, MergesAre DEF Gone, Survivors

(* What the rows that stay gain weighs no more than what the absorbed      *)
(* ones append, and that less than they do.                                *)
LEMMA GainsWeigh ==
  ASSUME DecisionsInv
  PROVE  /\ \A i \in DOMAIN batch :
              /\ Gained[i] \in Nat
              /\ SumOver([j \in Gains(i) |-> Appended(j)], Gains(i)) = Gained[i]
              /\ Gains(i) = {} => Gained[i] = 0
         /\ SumOver([j \in Absorbed |-> Appended(j)], Absorbed) = SumOver(Apps, Absorbed)
         /\ SumOver(Apps, Absorbed) \in Nat
         /\ SumOver(Apps, Absorbed) <= Bytes(batch, Absorbed)
         /\ \A K \in SUBSET DOMAIN batch :
              SumOver(Gained, K) \in Nat /\ SumOver(Gained, K) <= SumOver(Apps, Absorbed)
<1>1. RowsOK /\ IsFiniteSet(Absorbed) /\ Absorbed \in SUBSET DOMAIN batch
  BY GoneAre, RowsAre, FS_Subset DEF DecisionsInv
<1>2. \A j \in DOMAIN batch : /\ Apps[j] = Appended(j) /\ Apps[j] \in Nat
                              /\ RowBytes[j] \in Nat /\ Apps[j] <= RowBytes[j]
  BY <1>1, AppsAre, RowsAre
<1>3. ASSUME NEW S \in SUBSET DOMAIN batch, NEW h, h = [j \in S |-> Appended(j)]
      PROVE  SumOver(h, S) = SumOver(Apps, S) /\ SumOver(Apps, S) \in Nat /\ IsFiniteSet(S)
  <2>1. IsFiniteSet(S)
    BY <1>1, BytesAre
  <2>2. \A j \in S : h[j] = Apps[j] /\ Apps[j] \in Nat
    BY <1>2, <1>3
  <2>3. SumOver(h, S) = SumOver(Apps, S)
    BY <2>1, <2>2, SumSame
  <2>4. SumOver(Apps, S) \in Nat
    BY <2>1, <2>2, SumIsNat
  <2> QED
    BY <2>1, <2>3, <2>4
<1>4. ASSUME NEW i \in DOMAIN batch
      PROVE  /\ Gained[i] = SumOver(Apps, Gains(i)) /\ Gained[i] \in Nat
             /\ SumOver([j \in Gains(i) |-> Appended(j)], Gains(i)) = Gained[i]
             /\ Gains(i) = {} => Gained[i] = 0
  <2>1. Gained[i] = SumOver(Apps, Gains(i))
    BY DEF Gained
  <2> PICK S, h : S = Gains(i) /\ h = [j \in S |-> Appended(j)]
    OBVIOUS
  <2>2. S \in SUBSET DOMAIN batch
    BY <1>1, MergesAre
  <2>3. SumOver(h, S) = SumOver(Apps, S) /\ SumOver(Apps, S) \in Nat
    BY <1>3, <2>2
  <2>4. S = {} => SumOver(Apps, S) = 0
    BY SumEmpty, Zenon
  <2> QED
    BY <2>1, <2>3, <2>4
<1>5. /\ SumOver([j \in Absorbed |-> Appended(j)], Absorbed) = SumOver(Apps, Absorbed)
      /\ SumOver(Apps, Absorbed) \in Nat
  <2> PICK S, h : S = Absorbed /\ h = [j \in S |-> Appended(j)]
    OBVIOUS
  <2>1. SumOver(h, S) = SumOver(Apps, S) /\ SumOver(Apps, S) \in Nat
    BY <1>1, <1>3
  <2> QED
    BY <2>1
<1>6. SumOver(Apps, Absorbed) <= Bytes(batch, Absorbed)
  <2>1. \A j \in Absorbed : Apps[j] \in Int /\ RowBytes[j] \in Int /\ Apps[j] <= RowBytes[j]
    BY <1>1, <1>2
  <2>2. SumOver(Apps, Absorbed) <= SumOver(RowBytes, Absorbed)
    BY <1>1, <2>1, SumBounded
  <2>3. Bytes(batch, Absorbed) = SumOver(RowBytes, Absorbed)
    BY <1>1, BytesAre
  <2> QED
    BY <2>2, <2>3
<1>7. ASSUME NEW K \in SUBSET DOMAIN batch
      PROVE  SumOver(Gained, K) \in Nat /\ SumOver(Gained, K) <= SumOver(Apps, Absorbed)
  <2> PICK f, T, g, P : /\ f = Apps /\ T = Absorbed /\ g = Gained
                        /\ P = [i \in K |-> Gains(i)]
    OBVIOUS
  <2>1. IsFiniteSet(K) /\ IsFiniteSet(T) /\ \A x \in T : f[x] \in Nat
    BY <1>1, <1>2, BytesAre
  <2>2. \A i \in K : P[i] \subseteq T /\ g[i] = SumOver(f, P[i])
    BY <1>4, MergesAre
  <2>3. \A i, k \in K : i # k => P[i] \cap P[k] = {}
    BY MergesAre
  <2>4. SumOver(g, K) \in Nat /\ SumOver(g, K) <= SumOver(f, T)
    BY ONLY <2>1, <2>2, <2>3, SumOfParts
  <2> QED
    BY <2>4
<1> QED
  BY <1>4, <1>5, <1>6, <1>7

(* A row that stays is a row, with what it gained.                         *)
LEMMA RowAfterIs ==
  ASSUME DecisionsInv, NEW i \in DOMAIN batch
  PROVE  /\ IsRow(RowAfter(i)) /\ RowAfter(i).bytes = RowBytes[i] + Gained[i]
         /\ RowAfter(i).elapsed = batch[i].elapsed
         /\ RowAfter(i).protection = ProtectionAfter(i)
<1> PICK r, w, b, p : /\ r = batch[i]
                      /\ w = batch[i].words \cup UNION {batch[j].words : j \in Gains(i)}
                      /\ b = RowBytes[i] + Gained[i] /\ p = ProtectionAfter(i)
  OBVIOUS
<1>1. IsRow(r) /\ RowsOK
  BY DEF DecisionsInv, RowsOK
<1>2. /\ r \in [created : Int, words : {r.words}, bytes : Nat, protection : Protections,
                elapsed : BOOLEAN, value : Nat, fragility : Nat]
      /\ r.bytes = RowBytes[i] /\ r.bytes \in Nat /\ r.bytes >= 64
  BY <1>1 DEF IsRow, RowBytes, FixedOverhead
<1>3. Gained[i] \in Nat /\ SumOver([j \in Gains(i) |-> Appended(j)], Gains(i)) = Gained[i]
  BY GainsWeigh
<1>4. b \in Nat /\ b >= 64
  BY <1>2, <1>3
<1>5. p \in Protections
  BY <1>2 DEF ProtectionAfter, Granted, Protections
<1>6. IsFiniteSet(w)
  <2> PICK F : F = {batch[j].words : j \in Gains(i)}
    OBVIOUS
  <2>1. Gains(i) \in SUBSET DOMAIN batch
    BY MergesAre, GoneAre
  <2>2. IsFiniteSet(F)
    <3> PICK S, f : S = Gains(i) /\ f = [j \in S |-> batch[j].words]
      OBVIOUS
    <3>1. IsFiniteSet(S)
      BY <1>1, <2>1, BytesAre
    <3>2. f \in [S -> F] /\ \A W \in F : \E j \in S : f[j] = W
      OBVIOUS
    <3>3. f \in Surjection(S, F)
      BY <3>2 DEF Surjection
    <3> QED
      BY <3>1, <3>3, FS_Surjection
  <2>3. \A W \in F : IsFiniteSet(W)
    <3>1. \A j \in DOMAIN batch : IsFiniteSet(batch[j].words)
      BY RowIs, <1>1 DEF RowsOK
    <3> QED
      BY <2>1, <3>1
  <2>4. IsFiniteSet(UNION F)
    BY <2>2, <2>3, FS_UNION
  <2>5. IsFiniteSet(r.words)
    BY <1>1, RowIs
  <2> QED
    BY <2>4, <2>5, FS_Union
<1>7. RowAfter(i) = [r EXCEPT !.protection = p, !.words = w, !.bytes = b]
  BY <1>2, <1>3 DEF RowAfter
<1> PICK u : u = RowAfter(i)
  OBVIOUS
<1>8. /\ u \in [created : Int, words : {u.words}, bytes : Nat, protection : Protections,
                elapsed : BOOLEAN, value : Nat, fragility : Nat]
      /\ u.words = w /\ u.bytes = b /\ u.protection = p /\ u.elapsed = r.elapsed
  BY <1>2, <1>4, <1>5, <1>7
<1>9. IsRow(u)
  BY <1>4, <1>6, <1>8 DEF IsRow, FixedOverhead
<1> QED
  BY <1>8, <1>9

LEMMA BatchAfterIs ==
  ASSUME DecisionsInv, NEW B, B = BatchAfter, NEW K, K = DOMAIN batch \ Gone
  PROVE  /\ DOMAIN B = K /\ K \in SUBSET DOMAIN batch /\ IsFiniteSet(K)
         /\ \A i \in K : /\ IsRow(B[i]) /\ B[i].bytes = RowBytes[i] + Gained[i]
                         /\ B[i].elapsed = batch[i].elapsed
                         /\ B[i].protection = ProtectionAfter(i)
         /\ \A S \in SUBSET K :
              /\ Bytes(B, S) \in Nat
              /\ Bytes(B, S) = Bytes(batch, S) + SumOver(Gained, S)
<1>1. B = [i \in K |-> RowAfter(i)]
  BY DEF BatchAfter, Gone
<1>2. RowsOK /\ K \in SUBSET DOMAIN batch /\ IsFiniteSet(K)
  BY RowsAre, FS_Subset DEF DecisionsInv
<1>3. \A i \in K : /\ IsRow(B[i]) /\ B[i].bytes = RowBytes[i] + Gained[i]
                   /\ B[i].elapsed = batch[i].elapsed
                   /\ B[i].protection = ProtectionAfter(i)
  BY <1>1, <1>2, RowAfterIs
<1>4. ASSUME NEW S \in SUBSET K
      PROVE  Bytes(B, S) \in Nat /\ Bytes(B, S) = Bytes(batch, S) + SumOver(Gained, S)
  <2> PICK f, g, h : f = RowBytes /\ g = Gained /\ h = [i \in S |-> B[i].bytes]
    OBVIOUS
  <2>1. S \in SUBSET DOMAIN batch /\ IsFiniteSet(S)
    BY <1>2, FS_Subset
  <2>2. \A i \in S : f[i] \in Nat /\ g[i] \in Nat /\ h[i] = f[i] + g[i]
    BY <1>2, <1>3, <2>1, RowsAre, GainsWeigh
  <2>3. \A i \in S : f[i] \in Int /\ g[i] \in Int /\ h[i] = f[i] + g[i]
    BY <2>2
  <2>4. SumOver(h, S) = SumOver(f, S) + SumOver(g, S)
    BY ONLY <2>1, <2>3, SumPlus
  <2>5. Bytes(B, S) = SumOver(h, S)
    BY DEF Bytes
  <2>6. Bytes(batch, S) = SumOver(f, S) /\ Bytes(batch, S) \in Nat /\ SumOver(g, S) \in Nat
    BY <1>2, <2>1, BytesAre, GainsWeigh
  <2> QED
    BY <2>4, <2>5, <2>6
<1> QED
  BY <1>1, <1>2, <1>3, <1>4

(* What is used after a run, and what of it the rows that stay use.        *)
LEMMA CapacityAfterIs ==
  ASSUME DecisionsInv, NEW c, c = CapacityAfter, NEW kept, kept = SumOver(Apps, Absorbed)
  PROVE  /\ c \in [items : Limit, bytes : Limit, usedItems : Nat, usedBytes : Nat]
         /\ c.items = capacity.items /\ c.bytes = capacity.bytes
         /\ c.usedItems = capacity.usedItems - Cardinality(Gone)
         /\ c.usedBytes = (capacity.usedBytes - Bytes(batch, Gone)) + kept
<1> PICK left : left = Freed(capacity, Gone)
  OBVIOUS
<1>1. /\ left \in [items : Limit, bytes : Limit, usedItems : Nat, usedBytes : Nat]
      /\ left.items = capacity.items /\ left.bytes = capacity.bytes
      /\ left.usedItems = capacity.usedItems - Cardinality(Gone)
      /\ left.usedBytes = capacity.usedBytes - Bytes(batch, Gone)
  BY GoneAre, FreedIs DEF DecisionsInv
<1>2. kept \in Nat /\ SumOver([j \in Absorbed |-> Appended(j)], Absorbed) = kept
  BY GainsWeigh
<1>3. c = [left EXCEPT !.usedBytes = left.usedBytes + kept]
  BY <1>2 DEF CapacityAfter, Gone
<1>4. left.usedBytes + kept \in Nat
  BY <1>1, <1>2
<1> QED
  BY <1>1, <1>3, <1>4

LEMMA CountersAfter ==
  ASSUME DecisionsInv, NEW B, B = BatchAfter, NEW c, c = CapacityAfter
  PROVE  c.usedItems >= Cardinality(DOMAIN B) /\ c.usedBytes >= Bytes(B, DOMAIN B)
<1> PICK K, kept : K = DOMAIN batch \ Gone /\ kept = SumOver(Apps, Absorbed)
  OBVIOUS
<1>1. /\ DOMAIN B = K /\ K \in SUBSET DOMAIN batch
      /\ Bytes(B, K) = Bytes(batch, K) + SumOver(Gained, K)
  BY BatchAfterIs
<1>2. /\ c.usedItems = capacity.usedItems - Cardinality(Gone)
      /\ c.usedBytes = (capacity.usedBytes - Bytes(batch, Gone)) + kept
  BY CapacityAfterIs
<1>3. /\ kept \in Nat /\ SumOver(Gained, K) \in Nat /\ SumOver(Gained, K) <= kept
  BY <1>1, GainsWeigh
<1>4. K \cap Gone = {} /\ K \cup Gone = DOMAIN batch /\ Gone \in SUBSET DOMAIN batch
  BY GoneAre
<1>5. RowsOK /\ CountersOK
  BY DEF DecisionsInv
<1>6. /\ Bytes(batch, K \cup Gone) = Bytes(batch, K) + Bytes(batch, Gone)
      /\ Cardinality(K \cup Gone) = Cardinality(K) + Cardinality(Gone)
  BY <1>1, <1>4, <1>5, BytesOfBoth
<1> PICK D, U : D = DOMAIN batch /\ U = K \cup Gone
  OBVIOUS
<1>7. Bytes(batch, D) = Bytes(batch, U) /\ Cardinality(D) = Cardinality(U)
  BY <1>4, Zenon
<1> PICK k, g, m, n, e : /\ k = Bytes(batch, K) /\ g = Bytes(batch, Gone)
                         /\ m = Cardinality(K) /\ n = Cardinality(Gone)
                         /\ e = SumOver(Gained, K)
  OBVIOUS
<1>8. k \in Nat /\ g \in Nat /\ m \in Nat /\ n \in Nat
  BY <1>1, <1>4, <1>5, BytesAre
<1>9. /\ capacity.usedItems \in Nat /\ capacity.usedItems >= m + n
      /\ capacity.usedBytes \in Nat /\ capacity.usedBytes >= k + g
  BY <1>5, <1>6, <1>7 DEF CountersOK
<1>10. capacity.usedItems - n >= m /\ (capacity.usedBytes - g) + kept >= k + e
  BY <1>3, <1>8, <1>9
<1> QED
  BY <1>1, <1>2, <1>10

(* What is over budget after a run was so with all removed that could be.  *)
LEMMA OverAfter ==
  ASSUME DecisionsInv, NEW B, B = BatchAfter, NEW c, c = CapacityAfter,
         NEW X \in SUBSET (DOMAIN batch \ Gone), Removed \subseteq Gone \cup X, ~Over(Removed),
         NEW left,
         left = [c EXCEPT !.usedItems = Less(c.usedItems, Cardinality(X)),
                          !.usedBytes = Less(c.usedBytes, Bytes(B, X))]
  PROVE  ~WouldExceed(0, 0, left)
<1> PICK kept, R : kept = SumOver(Apps, Absorbed) /\ R = Removed
  OBVIOUS
<1>1. /\ c \in [items : Limit, bytes : Limit, usedItems : Nat, usedBytes : Nat]
      /\ c.items = capacity.items /\ c.bytes = capacity.bytes
      /\ c.usedItems = capacity.usedItems - Cardinality(Gone)
      /\ c.usedBytes = (capacity.usedBytes - Bytes(batch, Gone)) + kept
  BY CapacityAfterIs
<1>2. RowsOK /\ CountersOK
  BY DEF DecisionsInv
<1>3. /\ X \in SUBSET DOMAIN batch /\ Gone \in SUBSET DOMAIN batch /\ Evicted \in SUBSET DOMAIN batch
      /\ Absorbed \in SUBSET DOMAIN batch /\ R \in SUBSET DOMAIN batch
      /\ Gone \cap X = {} /\ Evicted \cap Absorbed = {} /\ Evicted \cap X = {}
      /\ Absorbed \cap R = {}
  BY GoneAre, MergesAre DEF Gone, Survivors
<1>4. /\ Bytes(B, X) \in Nat /\ Bytes(B, X) = Bytes(batch, X) + SumOver(Gained, X)
      /\ SumOver(Gained, X) \in Nat
  <2> PICK K : K = DOMAIN batch \ Gone
    OBVIOUS
  <2>1. X \in SUBSET K
    OBVIOUS
  <2>2. Bytes(B, X) \in Nat /\ Bytes(B, X) = Bytes(batch, X) + SumOver(Gained, X)
    BY <2>1, BatchAfterIs
  <2>3. SumOver(Gained, X) \in Nat
    BY <1>3, GainsWeigh
  <2> QED
    BY <2>2, <2>3
<1>5. Cardinality(Gone \cup X) = Cardinality(Gone) + Cardinality(X)
  BY <1>2, <1>3, BytesOfBoth
<1>6. Bytes(batch, Evicted \cup X) = Bytes(batch, Evicted) + Bytes(batch, X)
  BY <1>2, <1>3, BytesOfBoth
<1>7. Bytes(batch, Gone) = Bytes(batch, Evicted) + Bytes(batch, Absorbed)
  <2>1. Bytes(batch, Evicted \cup Absorbed) = Bytes(batch, Evicted) + Bytes(batch, Absorbed)
    BY <1>2, <1>3, BytesOfBoth
  <2> QED
    BY <2>1, Zenon DEF Gone
<1>8. kept \in Nat /\ kept <= Bytes(batch, Absorbed)
  BY GainsWeigh
<1> PICK U, V : U = Gone \cup X /\ V = Evicted \cup X
  OBVIOUS
<1>9. R \subseteq U /\ R \subseteq V /\ U \in SUBSET DOMAIN batch /\ V \in SUBSET DOMAIN batch
  BY <1>3 DEF Gone
<1>10. Cardinality(R) \in Nat /\ Cardinality(R) <= Cardinality(U)
  <2>1. IsFiniteSet(U) /\ IsFiniteSet(R)
    BY <1>2, <1>3, <1>9, BytesAre
  <2> QED
    BY <1>9, <2>1, FS_Subset, FS_CardinalityType
<1>11. Bytes(batch, R) \in Nat /\ Bytes(batch, R) <= Bytes(batch, V)
  <2> PICK f : f = RowBytes
    OBVIOUS
  <2>1. IsFiniteSet(V) /\ (\A x \in V : f[x] \in Nat) /\ R \subseteq V
    BY <1>2, <1>9, BytesAre, RowsAre
  <2>2. SumOver(f, R) \in Nat /\ SumOver(f, R) <= SumOver(f, V)
    BY ONLY <2>1, SumOfPart
  <2>3. Bytes(batch, R) = SumOver(f, R) /\ Bytes(batch, V) = SumOver(f, V)
    BY <1>2, <1>3, <1>9, BytesAre
  <2> QED
    BY <2>2, <2>3
<1>12. ~Exceeds(0, 0, R)
  BY <1>2, <1>3, ExceedsIs DEF Over
<1> PICK g, x, r, ge, gb, a, xb, rb, e :
      /\ g = Cardinality(Gone) /\ x = Cardinality(X) /\ r = Cardinality(R)
      /\ ge = Bytes(batch, Evicted) /\ gb = Bytes(batch, Gone) /\ a = Bytes(batch, Absorbed)
      /\ xb = Bytes(batch, X) /\ rb = Bytes(batch, R) /\ e = SumOver(Gained, X)
  OBVIOUS
<1>13. /\ g \in Nat /\ x \in Nat /\ r \in Nat /\ r <= g + x
       /\ ge \in Nat /\ a \in Nat /\ xb \in Nat /\ rb \in Nat /\ e \in Nat
       /\ gb = ge + a /\ rb <= ge + xb /\ kept <= a /\ kept \in Nat
  <2>1. g \in Nat /\ x \in Nat /\ ge \in Nat /\ a \in Nat /\ xb \in Nat
    BY <1>2, <1>3, BytesAre
  <2> QED
    BY <1>4, <1>5, <1>6, <1>7, <1>8, <1>10, <1>11, <2>1
<1>14. capacity.usedItems \in Nat /\ capacity.usedBytes \in Nat /\ c.usedItems \in Nat /\ c.usedBytes \in Nat
  BY <1>1, <1>2 DEF CountersOK
<1>15. /\ left.items = capacity.items /\ left.bytes = capacity.bytes
       /\ left.usedItems = Less(c.usedItems, x)
       /\ left.usedBytes = Less(c.usedBytes, xb + e)
  BY <1>1, <1>4
<1>16. ASSUME capacity.items # NoLimit PROVE left.usedItems + 0 <= capacity.items
  <2>1. capacity.items \in Nat
    BY <1>2, <1>16 DEF CountersOK, Limit
  <2>2. capacity.usedItems - r <= capacity.items
    BY <1>12, <1>13, <1>14, <1>16, <2>1 DEF Exceeds
  <2>3. c.usedItems - x <= capacity.items
    BY <1>1, <1>13, <1>14, <2>1, <2>2
  <2> QED
    BY <1>13, <1>14, <1>15, <2>1, <2>3 DEF Less
<1>17. ASSUME capacity.bytes # NoLimit PROVE left.usedBytes + 0 <= capacity.bytes
  <2>1. capacity.bytes \in Nat
    BY <1>2, <1>17 DEF CountersOK, Limit
  <2>2. capacity.usedBytes - rb <= capacity.bytes
    BY <1>12, <1>13, <1>14, <1>17, <2>1 DEF Exceeds
  <2>3. c.usedBytes = (capacity.usedBytes - gb) + kept
    BY <1>1
  <2>4. c.usedBytes - (xb + e) <= capacity.bytes
    BY <1>13, <1>14, <2>1, <2>2, <2>3
  <2> QED
    BY <1>13, <1>14, <1>15, <2>1, <2>4 DEF Less
<1>18. (left.items # NoLimit => ~(left.usedItems + 0 > left.items))
  <2>1. left.usedItems \in Nat
    BY <1>13, <1>14, <1>15 DEF Less
  <2>2. capacity.items # NoLimit => capacity.items \in Nat
    BY <1>2 DEF CountersOK, Limit
  <2> QED
    BY <1>15, <1>16, <2>1, <2>2
<1>19. (left.bytes # NoLimit => ~(left.usedBytes + 0 > left.bytes))
  <2>1. left.usedBytes \in Nat
    BY <1>13, <1>14, <1>15 DEF Less
  <2>2. capacity.bytes # NoLimit => capacity.bytes \in Nat
    BY <1>2 DEF CountersOK, Limit
  <2> QED
    BY <1>15, <1>17, <2>1, <2>2
<1> QED
  BY <1>18, <1>19 DEF WouldExceed

(* What the first run leaves: no window elapsed, nothing expired but what  *)
(* is pinned, and over budget only with nothing left that may go.          *)
LEMMA ApplySettles ==
  ASSUME DecisionsInv, stage = "apply", runs = <<>>, NEW B, B = BatchAfter,
         NEW c, c = CapacityAfter, NEW X, X = {i \in DOMAIN B : MustForget(B[i])}
  PROVE  /\ \A i \in DOMAIN B :
              B[i].protection = "elapsed" => config.window = 0 /\ i \in decided.regrants
         /\ \A i \in X : ~Unpinned(B[i])
         /\ WouldExceed(0, 0, [c EXCEPT !.usedItems = Less(c.usedItems, Cardinality(X)),
                                        !.usedBytes = Less(c.usedBytes, Bytes(B, X))])
              => {i \in DOMAIN B : IsEvictable(B[i])} = {}
<1> PICK K : K = DOMAIN batch \ Gone
  OBVIOUS
<1>1. /\ DOMAIN B = K /\ K \in SUBSET DOMAIN batch
      /\ \A i \in K : B[i].elapsed = batch[i].elapsed /\ B[i].protection = ProtectionAfter(i)
  BY BatchAfterIs
<1>2. /\ decided.expiries = Expiries /\ decided.releases = Releases
      /\ decided.regrants \subseteq Survivors \cap Evictable
      /\ decided.reclaims \subseteq Evictable \ decided.expiries
      /\ Over(Removed) => decided.reclaims = Evictable \ decided.expiries
  BY DEF DecisionsInv, ExpiredSoFar, ReleasedSoFar, RegrantedSoFar, ReclaimedSoFar
<1>3. \A i \in K : i \in Survivors \/ batch[i].protection = "pinned"
  BY GoneAre DEF Unpinned
<1>4. \A i \in K : batch[i].protection \in Protections
  BY <1>1, RowIs DEF DecisionsInv, RowsOK
<1>5. ASSUME NEW i \in K, B[i].protection = "elapsed"
      PROVE  config.window = 0 /\ i \in decided.regrants
  <2>1. ProtectionAfter(i) = "elapsed"
    BY <1>1, <1>5
  <2>2. ASSUME i \notin decided.regrants PROVE FALSE
    <3>1. i \notin decided.releases /\ batch[i].protection = "elapsed"
      BY <2>1, <2>2 DEF ProtectionAfter
    <3>2. i \in Survivors
      BY <1>3, <3>1
    <3> QED
      BY <1>2, <2>2, <3>1, <3>2 DEF Releases
  <2>3. i \in decided.regrants
    BY <2>2
  <2> QED
    BY <2>1, <2>3 DEF ProtectionAfter, Granted
<1>6. ASSUME NEW i \in X PROVE ~Unpinned(B[i])
  <2>1. i \in K /\ batch[i].elapsed
    BY <1>1 DEF MustForget
  <2>2. i \in decided.expiries
    BY <1>1, <1>2, <2>1 DEF Expiries, MustForget
  <2>3. i \notin Survivors
    BY <2>2 DEF Survivors, Removed
  <2>4. batch[i].protection = "pinned"
    BY <1>3, <2>1, <2>3
  <2>5. i \notin decided.regrants /\ i \notin decided.releases
    BY <1>2, <2>3 DEF Releases
  <2>6. ProtectionAfter(i) = "pinned"
    BY <2>4, <2>5 DEF ProtectionAfter
  <2> QED
    BY <1>1, <2>1, <2>6 DEF Unpinned
<1> PICK left : left = [c EXCEPT !.usedItems = Less(c.usedItems, Cardinality(X)),
                                 !.usedBytes = Less(c.usedBytes, Bytes(B, X))]
  OBVIOUS
<1>7. ASSUME Over(Removed), NEW i \in K PROVE ~IsEvictable(B[i])
  <2> SUFFICES ASSUME IsEvictable(B[i]) PROVE FALSE
    OBVIOUS
  <2>1. ProtectionAfter(i) \in {"normal", "elapsed"}
    BY <1>1 DEF IsEvictable
  <2>2. batch[i].protection \in {"normal", "elapsed"}
    BY <1>2, <2>1 DEF ProtectionAfter, Releases, Evictable, IsEvictable
  <2>3. i \in Survivors /\ i \in Evictable
    BY <1>1, <1>3, <2>2 DEF Evictable, IsEvictable
  <2> QED
    BY <1>2, <1>7, <2>3 DEF Survivors, Removed
<1>8. ASSUME ~Over(Removed) PROVE ~WouldExceed(0, 0, left)
  <2>1. X \in SUBSET (DOMAIN batch \ Gone)
    BY <1>1
  <2>2. Removed \subseteq Gone \cup X
    <3> SUFFICES ASSUME NEW i \in Removed, i \notin Gone PROVE i \in X
      OBVIOUS
    <3>1. i \in DOMAIN batch /\ i \in K /\ batch[i].protection = "pinned"
      BY GoneAre DEF Gone, Evicted, Unpinned
    <3>2. i \in decided.expiries
      BY <1>2, <3>1 DEF Removed, Evictable, IsEvictable
    <3>3. batch[i].elapsed
      BY <1>2, <3>2 DEF Expiries, MustForget
    <3> QED
      BY <1>1, <3>1, <3>3 DEF MustForget
  <2> QED
    BY <1>8, <2>1, <2>2, OverAfter
<1> QED
  BY <1>1, <1>5, <1>6, <1>7, <1>8

LEMMA ApplyKeeps ==
  ASSUME DecisionsInv, Apply
  PROVE  DecisionsInv'
<1> PICK B, c, K : B = BatchAfter /\ c = CapacityAfter /\ K = DOMAIN batch \ Gone
  OBVIOUS
<1>1. /\ stage = "apply" /\ batch' = B /\ capacity' = c /\ decided' = Undecided
      /\ runs' = Append(runs, decided) /\ admission' = admission /\ config' = config
      /\ stage' = IF runs = <<>> THEN "expire" ELSE "done"
      /\ stage' \in {"expire", "done"}
  BY DEF Apply
<1>2. /\ DOMAIN B = K /\ K \in SUBSET DOMAIN batch /\ IsFiniteSet(K)
      /\ \A i \in K : IsRow(B[i])
  BY BatchAfterIs
<1>3. RowsOK'
  <2>1. K \subseteq Int
    BY <1>2, RowsAre DEF DecisionsInv
  <2> QED
    BY <1>1, <1>2, <2>1 DEF RowsOK, IsRow
<1>4. CountersOK'
  <2>1. c \in [items : Limit, bytes : Limit, usedItems : Nat, usedBytes : Nat]
    <3> PICK kept : kept = SumOver(Apps, Absorbed)
      OBVIOUS
    <3> QED
      BY CapacityAfterIs
  <2>2. c.usedItems >= Cardinality(DOMAIN B) /\ c.usedBytes >= Bytes(B, DOMAIN B)
    BY CountersAfter
  <2>3. Bytes(batch, DOMAIN batch)' = Bytes(B, DOMAIN B)
    BY <1>1 DEF Bytes, SumOver, FoldFunctionOnSet, MapThenFoldSet
  <2> QED
    BY <1>1, <2>1, <2>2, <2>3 DEF CountersOK, Limit
<1>5. /\ decided'.expiries = {} /\ decided'.reclaims = {} /\ decided'.regrants = {}
      /\ decided'.releases = {} /\ decided'.merges = <<>>
      /\ decided' = [expiries |-> {}, reclaims |-> {}, regrants |-> {}, releases |-> {},
                     merges |-> <<>>]
  BY <1>1 DEF Undecided
<1>6. DecidedOK'
  <2>1. config' \in Configs
    BY <1>1 DEF DecisionsInv, DecidedOK
  <2> QED
    BY <1>1, <1>5, <2>1 DEF DecidedOK
<1>7. ExpiredSoFar' /\ ReleasedSoFar'
  BY <1>1, <1>5 DEF ExpiredSoFar, ReleasedSoFar
<1>8. ReclaimedSoFar' /\ RegrantedSoFar' /\ MergedSoFar'
  BY <1>1, <1>5, NoReclaimsYet, NoRegrantsYet, NoMergesYet DEF Reclaiming
<1>9. AdmissionSoFar'
  BY <1>1, NoAdmissionYet DEF DecisionsInv, AdmissionSoFar
<1>10. Settled'
  <2>1. CASE stage' = "done"
    BY <2>1 DEF Settled
  <2>2. CASE stage' # "done"
    <3> PICK X : X = {i \in DOMAIN B : MustForget(B[i])}
      OBVIOUS
    <3>1. runs = <<>>
      BY <1>1, <2>2
    <3>2. /\ \A i \in DOMAIN B :
               B[i].protection = "elapsed" => config.window = 0 /\ i \in decided.regrants
          /\ \A i \in X : ~Unpinned(B[i])
          /\ WouldExceed(0, 0, [c EXCEPT !.usedItems = Less(c.usedItems, Cardinality(X)),
                                         !.usedBytes = Less(c.usedBytes, Bytes(B, X))])
               => {i \in DOMAIN B : IsEvictable(B[i])} = {}
      BY <1>1, <3>1, ApplySettles
    <3>3. Expiries' = X
      BY <1>1 DEF Expiries, MustForget
    <3>4. Evictable' = {i \in DOMAIN B : IsEvictable(B[i])}
      BY <1>1 DEF Evictable, IsEvictable
    <3>5. Over(Expiries)' <=>
            WouldExceed(0, 0, [c EXCEPT !.usedItems = Less(c.usedItems, Cardinality(X)),
                                        !.usedBytes = Less(c.usedBytes, Bytes(B, X))])
      BY <1>1, <3>3 DEF Over, WouldExceed, Freed, Less, Bytes, SumOver, FoldFunctionOnSet,
                        MapThenFoldSet
    <3>6. runs' = <<decided>> /\ runs'[1] = decided
      BY <1>1, <3>1
    <3> QED
      BY <1>1, <3>2, <3>3, <3>4, <3>5, <3>6 DEF Settled, Unpinned
  <2> QED
    BY <2>1, <2>2
<1> QED
  BY <1>3, <1>4, <1>6, <1>7, <1>8, <1>9, <1>10 DEF DecisionsInv

LEMMA DecisionsStepKeeps ==
  ASSUME DecisionsInv, [DecisionsNext]_decisionVars
  PROVE  DecisionsInv'
<1>1. ASSUME NEW candidate \in Candidates, Admission(candidate) PROVE DecisionsInv'
  BY <1>1, AdmissionKeeps
<1>2. CASE Start
  BY <1>2, StartKeeps
<1>3. CASE Expire
  BY <1>3, ExpireKeeps
<1>4. CASE Reclaim
  BY <1>4, ReclaimKeeps
<1>5. CASE Regrant
  BY <1>5, RegrantKeeps
<1>6. CASE Release
  BY <1>6, ReleaseKeeps
<1>7. CASE Consolidate
  BY <1>7, ConsolidateKeeps
<1>8. CASE Apply
  BY <1>8, ApplyKeeps
<1>9. CASE UNCHANGED decisionVars
  BY <1>9, RestKeeps
<1> QED
  BY <1>1, <1>2, <1>3, <1>4, <1>5, <1>6, <1>7, <1>8, <1>9 DEF DecisionsNext

LEMMA DecisionsInvAlways == DecisionsSpec => []DecisionsInv
<1>1. DecisionsInit => DecisionsInv
  BY DecisionsStart
<1>2. DecisionsInv /\ [DecisionsNext]_decisionVars => DecisionsInv'
  BY DecisionsStepKeeps
<1> QED
  BY <1>1, <1>2, PTL DEF DecisionsSpec

-----------------------------------------------------------------------------
(* What follows from the invariant.                                        *)

LEMMA InvIsSound ==
  ASSUME DecisionsInv
  PROVE  OrdersAreSound
<1>1. RowsOK /\ CountersOK /\ DecidedOK
  BY DEF DecisionsInv
<1> PICK m : m = decided.merges
  OBVIOUS
<1>2. ASSUME NEW n \in DOMAIN m, NEW i, NEW j, i = m[n][1], j = m[n][2]
      PROVE  /\ i \in Survivors /\ j \in Survivors /\ i # j
             /\ MayGo(i, j) /\ (Overlap(j, i) > Overlap(i, j) => ~MayGo(j, i))
  BY <1>2 DEF DecisionsInv, MergedSoFar
<1>3. DecisionsTypeOK
  <2>1. (\A i \in DOMAIN batch : batch[i].protection \in Protections) /\ config \in Configs
    BY <1>1, RowIs DEF RowsOK, DecidedOK
  <2>2. Removed \cup decided.regrants \cup decided.releases \subseteq DOMAIN batch
    BY <1>1 DEF DecidedOK, Removed
  <2>3. ASSUME NEW n \in DOMAIN m PROVE m[n] \in (DOMAIN batch) \X (DOMAIN batch)
    <3> PICK S : S = (DOMAIN batch) \X (DOMAIN batch)
      OBVIOUS
    <3>1. m \in Seq(S)
      BY <1>1 DEF DecidedOK
    <3>2. m[n] \in S
      BY ONLY <3>1, n \in DOMAIN m
    <3> QED
      BY <3>2
  <2> QED
    BY <1>1, <2>1, <2>2, <2>3 DEF DecisionsTypeOK, CountersOK
<1>4. AdmissionIsAccepted
  BY OfferedIs DEF DecisionsInv, AdmissionSoFar, AdmissionIsAccepted
<1>5. Absorbed \subseteq Survivors /\ Absorbed \cap SpokenFor = {}
  <2>1. Absorbed \subseteq Survivors
    BY MergesAre
  <2>2. ASSUME NEW i \in Absorbed PROVE i \notin SpokenFor
    <3>1. PICK n \in DOMAIN m : m[n][1] = i
      BY DEF Absorbed
    <3> QED
      BY <1>2, <3>1 DEF MayGo
  <2> QED
    BY <2>1, <2>2
<1>6. /\ decided.reclaims \subseteq Evictable \ decided.expiries
      /\ decided.regrants \subseteq Survivors \cap Evictable
      /\ decided.releases \subseteq Survivors \ decided.regrants
      /\ \A i \in decided.releases : batch[i].protection = "elapsed"
  BY DEF DecisionsInv, ReclaimedSoFar, RegrantedSoFar, ReleasedSoFar, Releases
<1>7. OneFatePerRow
  <2> PICK e, r, g, l, a : /\ e = decided.expiries /\ r = decided.reclaims /\ g = decided.regrants
                           /\ l = decided.releases /\ a = Absorbed
    OBVIOUS
  <2>1. /\ e \cap r = {} /\ e \cap g = {} /\ e \cap l = {} /\ e \cap a = {} /\ r \cap g = {}
        /\ r \cap l = {} /\ r \cap a = {} /\ g \cap l = {} /\ g \cap a = {} /\ l \cap a = {}
    BY <1>5, <1>6 DEF Survivors, Removed, SpokenFor
  <2> PICK fates : fates = <<e, r, g, l, a>>
    OBVIOUS
  <2>2. /\ DOMAIN fates = 1 .. 5 /\ fates[1] = e /\ fates[2] = r /\ fates[3] = g
        /\ fates[4] = l /\ fates[5] = a
    OBVIOUS
  <2>3. \A x \in 1 .. 5 : x = 1 \/ x = 2 \/ x = 3 \/ x = 4 \/ x = 5
    OBVIOUS
  <2>4. ASSUME NEW x \in DOMAIN fates, NEW n \in DOMAIN fates, x # n
        PROVE  fates[x] \cap fates[n] = {}
    BY <2>1, <2>2, <2>3, <2>4
  <2>5. \A k, n \in DOMAIN m : k # n => {m[k][1], m[k][2]} \cap {m[n][1], m[n][2]} = {}
    BY DEF DecisionsInv, MergedSoFar, Sides
  <2>6. \A n \in DOMAIN m : m[n][2] \notin Removed
    BY <1>2 DEF Survivors
  <2> QED
    BY <2>4, <2>5, <2>6 DEF OneFatePerRow
<1>8. ProtectionHolds
  <2> SUFFICES ASSUME NEW i \in DOMAIN batch, ~(batch[i].protection \in {"normal", "elapsed"})
               PROVE  i \notin decided.reclaims \cup Absorbed \cup decided.regrants \cup decided.releases
    BY DEF ProtectionHolds
  <2>1. i \notin Evictable
    BY DEF Evictable, IsEvictable
  <2>2. i \notin Absorbed
    <3> SUFFICES ASSUME i \in Absorbed PROVE FALSE
      OBVIOUS
    <3>1. PICK n \in DOMAIN m : m[n][1] = i
      BY DEF Absorbed
    <3> QED
      BY <1>2, <3>1 DEF MayGo, IsEvictable
  <2> QED
    BY <1>6, <2>1, <2>2
<1>9. TheBetterCoveredIsAbsorbed
  <2>1. \A n \in DOMAIN m :
          /\ Overlap(m[n][1], m[n][2]) >= MergeThreshold
          /\ Overlap(m[n][2], m[n][1]) > Overlap(m[n][1], m[n][2]) => ~MayGo(m[n][2], m[n][1])
    BY <1>2 DEF MayGo
  <2> QED
    BY <2>1 DEF TheBetterCoveredIsAbsorbed
<1> QED
  BY <1>3, <1>4, <1>7, <1>8, <1>9 DEF OrdersAreSound

LEMMA InvMakesRoom ==
  ASSUME DecisionsInv
  PROVE  AdmissionMakesRoomExactly
<1> PICK A, d : A = admission.evictions /\ d = Ranked(A)[Cardinality(A)]
  OBVIOUS
<1>1. A \in SUBSET DOMAIN batch
  BY OfferedIs DEF DecisionsInv, AdmissionSoFar
<1>2. ASSUME A # {} PROVE ~FitsWithout(A \ {d})
  <2>1. Last(d, A) /\ d \in A
    BY <1>1, <1>2, RankedLast DEF DecisionsInv, Last
  <2> QED
    BY <2>1 DEF DecisionsInv, AdmissionSoFar
<1>3. /\ admission.action \in {"Retain", "RetainProtected"} => FitsWithout(A)
      /\ admission.action = "Reject" =>
           \/ BestScore(admission.candidate.near) >= DuplicateThreshold
           \/ ~FitsWithout(Offered)
  BY DEF DecisionsInv, AdmissionSoFar
<1> QED
  BY <1>2, <1>3 DEF AdmissionMakesRoomExactly, FitsWithout

LEMMA InvIsFragileAlone ==
  ASSUME DecisionsInv
  PROVE  FragileMeansAlone
BY DEF DecisionsInv, AdmissionSoFar, RegrantedSoFar, FragileMeansAlone

LEMMA InvStopsAtTheBudget ==
  ASSUME DecisionsInv
  PROVE  ReclaimStopsAtTheBudget
<1> SUFFICES ASSUME stage = "apply" PROVE ReclaimStopsAtTheBudget
  BY DEF ReclaimStopsAtTheBudget, Decided
<1> PICK R, d : R = decided.reclaims /\ d = Ranked(R)[Cardinality(R)]
  OBVIOUS
<1>1. /\ \A x \in R : Last(x, R) => Over(Removed \ {x})
      /\ Over(Removed) => R = Evictable \ decided.expiries
      /\ R \subseteq Evictable
  BY DEF DecisionsInv, ReclaimedSoFar
<1>2. ASSUME R # {} PROVE Over(Removed \ {d})
  <2>1. R \in SUBSET DOMAIN batch
    BY <1>1 DEF Evictable
  <2>2. Last(d, R) /\ d \in R
    BY <1>2, <2>1, RankedLast DEF DecisionsInv, Last
  <2> QED
    BY <1>1, <2>2
<1>3. ASSUME Over(Removed), NEW i \in Survivors PROVE ~IsEvictable(batch[i])
  BY <1>1, <1>3 DEF Survivors, Removed, Evictable
<1> QED
  BY <1>2, <1>3 DEF ReclaimStopsAtTheBudget, Over

LEMMA InvSettles ==
  ASSUME DecisionsInv
  PROVE  SecondRunSettles
<1> SUFFICES ASSUME stage = "apply", runs # <<>>
             PROVE  /\ config.window > 0 => decided.releases = {}
                    /\ decided.releases \subseteq runs[1].regrants
                    /\ decided.reclaims = {}
                    /\ \A i \in decided.expiries : ~Unpinned(batch[i])
                    /\ decided.expiries = {} => decided.regrants = {}
  BY DEF SecondRunSettles, Decided
<1>1. /\ \A i \in DOMAIN batch :
           batch[i].protection = "elapsed" => config.window = 0 /\ i \in runs[1].regrants
      /\ \A i \in Expiries : ~Unpinned(batch[i])
      /\ Over(Expiries) => Evictable \subseteq Expiries
  BY DEF DecisionsInv, Settled
<1>2. decided.expiries = Expiries /\ decided.releases = Releases
  BY DEF DecisionsInv, ExpiredSoFar, ReleasedSoFar
<1>3. \A i \in decided.releases : config.window = 0 /\ i \in runs[1].regrants
  BY <1>1, <1>2 DEF Releases, Survivors
<1>4. decided.reclaims = {}
  BY <1>1, <1>2 DEF DecisionsInv, ReclaimedSoFar
<1>5. ASSUME decided.expiries = {} PROVE decided.regrants = {}
  BY <1>4, <1>5 DEF DecisionsInv, RegrantedSoFar, Removed
<1> QED
  BY <1>1, <1>2, <1>3, <1>4, <1>5

(* In every behaviour the orders of an admission or a run can all be       *)
(* carried out: no row is the subject of two of them, none touches what is *)
(* protected, and of two merged rows the better covered goes.              *)
THEOREM OrdersAreSoundAlways == DecisionsSpec => []OrdersAreSound
<1>1. DecisionsInv => OrdersAreSound
  BY InvIsSound
<1> QED
  BY <1>1, DecisionsInvAlways, PTL

(* In every behaviour an admission evicts what makes it fit and no more,   *)
(* and turns a candidate away for want of room only when there is none.    *)
THEOREM AdmissionMakesRoomExactlyAlways == DecisionsSpec => []AdmissionMakesRoomExactly
<1>1. DecisionsInv => AdmissionMakesRoomExactly
  BY InvMakesRoom
<1> QED
  BY <1>1, DecisionsInvAlways, PTL

(* In every behaviour a threshold above one half, whatever it is, protects *)
(* as fragile only what has nothing near it.                               *)
THEOREM FragileMeansAloneAlways == DecisionsSpec => []FragileMeansAlone
<1>1. DecisionsInv => FragileMeansAlone
  BY InvIsFragileAlone
<1> QED
  BY <1>1, DecisionsInvAlways, PTL

(* In every behaviour a run reclaims down to the budget and not a row more.*)
THEOREM ReclaimStopsAtTheBudgetAlways == DecisionsSpec => []ReclaimStopsAtTheBudget
<1>1. DecisionsInv => ReclaimStopsAtTheBudget
  BY InvStopsAtTheBudget
<1> QED
  BY <1>1, DecisionsInvAlways, PTL

(* In every behaviour a second run at the same time finds nothing left to  *)
(* reclaim or, but for pinned rows, to expire, nor to release but windows  *)
(* of no length which the first has just granted.                          *)
THEOREM SecondRunSettlesAlways == DecisionsSpec => []SecondRunSettles
<1>1. DecisionsInv => SecondRunSettles
  BY InvSettles
<1> QED
  BY <1>1, DecisionsInvAlways, PTL
====
