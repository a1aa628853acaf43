----------------------------- MODULE StoreProofs -----------------------------
(***************************************************************************)
(* Proofs about module Store, for any number of scopes, items and callers. *)
(***************************************************************************)
EXTENDS Store, FiniteSetTheorems, TLAPS

-----------------------------------------------------------------------------
(* Sets of rows: what their ids and their charge add up to.                *)

WellKeyed(rows) ==
  /\ \A r \in rows : r.id \in ItemIds /\ r.body \in Bodies /\ r.tags \in SUBSET Tags
  /\ \A q, r \in rows : q.id = r.id => q = r

LEMMA IdsFinite ==
  ASSUME NEW rows, WellKeyed(rows)
  PROVE  IsFiniteSet(Ids(rows)) /\ Cardinality(Ids(rows)) \in Nat
<1>1. Ids(rows) \in SUBSET ItemIds
  BY DEF Ids, WellKeyed
<1> QED
  BY <1>1, FS_Subset, FS_CardinalityType, StoreAssumption

LEMMA ChargeIsNat ==
  ASSUME NEW r, r.body \in Bodies, r.tags \in SUBSET Tags
  PROVE  Charge(r) \in Nat
<1>1. Cardinality(r.tags) \in Nat
  BY FS_Subset, FS_CardinalityType, StoreAssumption
<1> QED
  BY <1>1, StoreAssumption DEF Charge

LEMMA RowsFinite ==
  ASSUME NEW rows, WellKeyed(rows)
  PROVE  IsFiniteSet(rows)
<1> DEFINE f == [r \in rows |-> r.id]
<1>1. f \in Injection(rows, ItemIds)
  BY DEF WellKeyed, Injection, IsInjective
<1> QED
  BY <1>1, FS_Injection, StoreAssumption

LEMMA UnitsFinite ==
  ASSUME NEW rows, WellKeyed(rows)
  PROVE  IsFiniteSet(Units(rows)) /\ TotalCharge(rows) \in Nat
<1> DEFINE U(r) == {r.id} \X (1..Charge(r))
           S == {U(r) : r \in rows}
           f == [r \in rows |-> U(r)]
<1>1. f \in Surjection(rows, S)
  BY DEF Surjection
<1>2. IsFiniteSet(S)
  BY <1>1, RowsFinite, FS_Surjection
<1>3. \A T \in S : IsFiniteSet(T)
  <2> SUFFICES ASSUME NEW r \in rows PROVE IsFiniteSet(U(r))
    OBVIOUS
  <2>1. Charge(r) \in Nat
    BY ChargeIsNat DEF WellKeyed
  <2>2. IsFiniteSet(1..Charge(r))
    <3> DEFINE n == Charge(r)
    <3>1. 1 \in Int /\ n \in Int
      BY <2>1
    <3> HIDE DEF n
    <3>2. IsFiniteSet(1..n)
      BY <3>1, FS_Interval
    <3> QED
      BY <3>2 DEF n
  <2>3. IsFiniteSet({r.id})
    BY FS_Singleton
  <2> QED
    BY <2>2, <2>3, FS_Product
<1>4. IsFiniteSet(UNION S)
  BY <1>2, <1>3, FS_UNION
<1>5. Units(rows) = UNION S
  BY DEF Units
<1> QED
  BY <1>4, <1>5, FS_CardinalityType DEF TotalCharge

LEMMA DisjointUnion ==
  ASSUME NEW A, NEW B, IsFiniteSet(A), IsFiniteSet(B), A \cap B = {}
  PROVE  Cardinality(A \cup B) = Cardinality(A) + Cardinality(B)
<1>1. Cardinality(A \cap B) = 0
  BY FS_EmptySet
<1>2. Cardinality(A) \in Nat /\ Cardinality(B) \in Nat
  BY FS_CardinalityType
<1>3. Cardinality(A \cup B) = Cardinality(A) + Cardinality(B) - Cardinality(A \cap B)
  BY FS_Union
<1> QED
  BY <1>1, <1>2, <1>3

(* Rows under different ids add up, in number and in charge.               *)
LEMMA RowsAddUp ==
  ASSUME NEW A, NEW B, WellKeyed(A), WellKeyed(B), Ids(A) \cap Ids(B) = {}
  PROVE  /\ WellKeyed(A \cup B)
         /\ Cardinality(Ids(A \cup B)) = Cardinality(Ids(A)) + Cardinality(Ids(B))
         /\ TotalCharge(A \cup B) = TotalCharge(A) + TotalCharge(B)
<1>1. WellKeyed(A \cup B)
  <2>1. \A q \in A, r \in B : q.id # r.id
    BY DEF Ids
  <2> QED
    BY <2>1 DEF WellKeyed
<1>2. Ids(A \cup B) = Ids(A) \cup Ids(B)
  BY DEF Ids
<1>3. Units(A \cup B) = Units(A) \cup Units(B)
  BY DEF Units
<1>4. Units(A) \cap Units(B) = {}
  <2> SUFFICES ASSUME NEW u \in Units(A), u \in Units(B) PROVE FALSE
    OBVIOUS
  <2>1. PICK q \in A : u \in {q.id} \X (1..Charge(q))
    BY DEF Units
  <2>2. PICK r \in B : u \in {r.id} \X (1..Charge(r))
    BY DEF Units
  <2>3. u[1] = q.id /\ u[1] = r.id
    BY <2>1, <2>2
  <2> QED
    BY <2>3 DEF Ids
<1>5. Cardinality(Ids(A \cup B)) = Cardinality(Ids(A)) + Cardinality(Ids(B))
  BY <1>2, IdsFinite, DisjointUnion
<1>6. TotalCharge(A \cup B) = TotalCharge(A) + TotalCharge(B)
  BY <1>3, <1>4, UnitsFinite, DisjointUnion DEF TotalCharge
<1> QED
  BY <1>1, <1>5, <1>6

-----------------------------------------------------------------------------
(* What the proofs need of a transaction and of a stream.                  *)

SoundTransactions == {t \in WriteTransaction : \A w \in t.upsert : Paired(w)}

(* A stream that came, or one with its items reassessed, which leaves what *)
(* is found of them alone.                                                 *)
Offered(w) == AsImported(w, w.vector)

SoundStreams ==
  {st \in ImportStream :
     /\ \A w \in st.items : Offered(w)
     /\ \A v, w \in st.items : v.id = w.id => v = w
     /\ \A a \in st.audits : a.id < 0
     /\ \A a, b \in st.audits : a.id = b.id => a = b
     /\ IsFiniteSet(st.audits)}

LEMMA CallersAreSound ==
  Transactions \subseteq SoundTransactions /\ Streams \subseteq SoundStreams
<1>1. \A st \in Streams : \A w \in st.items : Offered(w)
  BY DEF Offered, AsImported
<1> QED
  BY <1>1, StoreAssumption DEF SoundTransactions, SoundStreams

-----------------------------------------------------------------------------
(* The inductive invariant: the properties of Store, with the facts that   *)
(* make an audit id fresh and the audit countable.                         *)

AuditIdsMinted == \A a \in audit : a.id =< minted

IInv ==
  /\ TypeOK
  /\ PrimaryKeys
  /\ VectorsFollowItems
  /\ ItemsCounted
  /\ BytesCounted
  /\ ReplaysAreAudited
  /\ AggregatesCoverAudit
  /\ AuditIdsMinted
  /\ IsFiniteSet(audit)

LEMMA ItemsWellKeyed ==
  ASSUME TypeOK, PrimaryKeys, NEW rows \in SUBSET items
  PROVE  WellKeyed(rows)
BY DEF TypeOK, PrimaryKeys, WellKeyed, ItemRow

(* What a transaction that commits inserts.                                *)
LEMMA InsertedShape ==
  ASSUME TypeOK, NEW t \in SoundTransactions, Commits(t)
  PROVE  /\ Inserted(t) \subseteq ItemRow
         /\ WellKeyed(Inserted(t))
         /\ InScope(Inserted(t), t.scope) = Inserted(t)
         /\ Ids(Inserted(t)) = Ids(t.upsert)
         /\ Ids(Inserted(t)) \cap Ids(Kept(t)) = {}
         /\ Cardinality(t.upsert) = Cardinality(Ids(Inserted(t)))
<1> t \in WriteTransaction
  BY DEF SoundTransactions
<1> DEFINE row(w) == [id |-> w.id, scope |-> w.scope, body |-> w.body, tags |-> w.tags,
                      meta |-> w.meta, pending |-> w.pending, access |-> CarriedAccess(t, w)]
<1>1. \A w \in t.upsert : CarriedAccess(t, w) \in Nat
  <2> SUFFICES ASSUME NEW w \in t.upsert, w.id \in Ids(Victims(t))
               PROVE  (CHOOSE r \in Victims(t) : r.id = w.id).access \in Nat
    BY DEF CarriedAccess
  <2>1. \E r \in Victims(t) : r.id = w.id
    BY DEF Ids
  <2>2. (CHOOSE r \in Victims(t) : r.id = w.id) \in Victims(t)
    BY <2>1
  <2> QED
    BY <2>2 DEF Victims, InScope, TypeOK, ItemRow
<1>2. Inserted(t) = {row(w) : w \in t.upsert}
  BY DEF Inserted
<1>3. CASE t.upsert = {}
  <2>1. Inserted(t) = {} /\ Ids({}) = {} /\ InScope({}, t.scope) = {}
    BY <1>2, <1>3 DEF Ids, InScope
  <2> QED
    BY <1>3, <2>1, Zenon DEF WellKeyed
<1>4. ASSUME NEW w \in ItemWrite, t.upsert = {w}
      PROVE  /\ Inserted(t) \subseteq ItemRow
             /\ WellKeyed(Inserted(t))
             /\ InScope(Inserted(t), t.scope) = Inserted(t)
             /\ Ids(Inserted(t)) = Ids(t.upsert)
             /\ Ids(Inserted(t)) \cap Ids(Kept(t)) = {}
             /\ Cardinality(t.upsert) = Cardinality(Ids(Inserted(t)))
  <2>1. Inserted(t) = {row(w)} /\ row(w) \in ItemRow
    BY <1>1, <1>2, <1>4 DEF ItemRow, ItemWrite
  <2>2. w.scope = t.scope
    BY <1>4 DEF Commits, IsValid
  <2>3. Ids({w}) = {w.id} /\ Ids({row(w)}) = {w.id}
    BY DEF Ids
  <2>4. w.id \notin Ids(Kept(t))
    BY <1>4 DEF Commits, KeyTaken
  <2>5. Cardinality({w}) = 1 /\ Cardinality({w.id}) = 1
    BY FS_Singleton
  <2>6. WellKeyed({row(w)})
    BY DEF WellKeyed, ItemWrite
  <2>7. InScope({row(w)}, t.scope) = {row(w)}
    BY <2>2 DEF InScope
  <2> QED
    BY <1>4, <2>1, <2>3, <2>4, <2>5, <2>6, <2>7
<1>5. t.upsert \in AtMostOne(ItemWrite)
  BY DEF WriteTransaction
<1> QED
  BY <1>3, <1>4, <1>5 DEF AtMostOne

(* What a transaction that commits merges.                                 *)
LEMMA MergedShape ==
  ASSUME TypeOK, PrimaryKeys, NEW t \in SoundTransactions, Commits(t)
  PROVE  /\ Merged(t) \subseteq ItemRow
         /\ WellKeyed(Merged(t))
         /\ InScope(Merged(t), t.scope) = Merged(t)
         /\ Ids(Merged(t)) = Ids(Targets(t))
<1> t \in WriteTransaction
  BY DEF SoundTransactions
<1>1. \A r \in Targets(t) : r \in ItemRow /\ r.scope = t.scope
  BY DEF Targets, Kept, InScope, TypeOK
<1>2. t.merge \in AtMostOne(MergeWrite)
  BY DEF WriteTransaction
<1>3. CASE t.merge = {}
  <2>1. Targets(t) = {} /\ Merged(t) = {} /\ Ids({}) = {} /\ InScope({}, t.scope) = {}
    BY <1>3 DEF Targets, Merged, Ids, InScope
  <2> QED
    BY <2>1, Zenon DEF WellKeyed
<1>4. ASSUME NEW m \in MergeWrite, t.merge = {m}
      PROVE  /\ Merged(t) \subseteq ItemRow
             /\ WellKeyed(Merged(t))
             /\ InScope(Merged(t), t.scope) = Merged(t)
             /\ Ids(Merged(t)) = Ids(Targets(t))
  <2>1. Merged(t) = {MergedRow(r, m) : r \in Targets(t)}
    BY <1>4 DEF Merged
  <2>2. \A r \in Targets(t) : /\ MergedRow(r, m) \in ItemRow
                              /\ MergedRow(r, m).id = r.id
                              /\ MergedRow(r, m).scope = t.scope
    BY <1>1 DEF MergedRow, ItemRow, MergeWrite
  <2>3. \A q, r \in Targets(t) : q.id = r.id => q = r
    BY DEF Targets, InScope, Kept, PrimaryKeys
  <2>4. Merged(t) \subseteq ItemRow
    BY <2>1, <2>2
  <2>5. WellKeyed(Merged(t))
    <3>1. \A r \in Merged(t) : r.id \in ItemIds /\ r.body \in Bodies /\ r.tags \in SUBSET Tags
      BY <2>4 DEF ItemRow
    <3>2. \A q, r \in Merged(t) : q.id = r.id => q = r
      BY <2>1, <2>2, <2>3
    <3> QED
      BY <3>1, <3>2 DEF WellKeyed
  <2>6. InScope(Merged(t), t.scope) = Merged(t)
    BY <2>1, <2>2 DEF InScope
  <2>7. Ids(Merged(t)) = Ids(Targets(t))
    BY <2>1, <2>2 DEF Ids
  <2> QED
    BY <2>4, <2>5, <2>6, <2>7
<1> QED
  BY <1>2, <1>3, <1>4 DEF AtMostOne

(* The rows a committed transaction leaves: what it kept and did not merge, *)
(* what it inserted and what it merged, all under different ids.           *)
LEMMA ApplyRows ==
  ASSUME TypeOK, PrimaryKeys, NEW t \in SoundTransactions, Commits(t), NEW id, ApplyCommit(t, id)
  PROVE  /\ items' \subseteq ItemRow
         /\ WellKeyed(items')
         /\ \A s \in Scopes : s # t.scope => InScope(items', s) = InScope(items, s)
<1> DEFINE R == Kept(t) \ Targets(t)
           I == Inserted(t)
           M == Merged(t)
<1>1. items' = (R \cup I) \cup M
  BY DEF ApplyCommit
<1>2. R \subseteq items /\ Targets(t) \subseteq items /\ Targets(t) \subseteq Kept(t)
  BY DEF Kept, Targets, InScope
<1>3. WellKeyed(R) /\ WellKeyed(I) /\ WellKeyed(M)
  BY <1>2, ItemsWellKeyed, InsertedShape, MergedShape
<1>4. Ids(R) \cap Ids(I) = {}
  BY InsertedShape DEF Ids
<1>5. Ids(R \cup I) \cap Ids(M) = {}
  <2>1. Ids(M) = Ids(Targets(t))
    BY MergedShape
  <2>2. Ids(R) \cap Ids(Targets(t)) = {}
    BY <1>2 DEF Ids, PrimaryKeys
  <2>3. Ids(I) \cap Ids(Targets(t)) = {}
    BY <1>2, InsertedShape DEF Ids
  <2>4. Ids(R \cup I) = Ids(R) \cup Ids(I)
    BY DEF Ids
  <2> QED
    BY <2>1, <2>2, <2>3, <2>4
<1>6. WellKeyed(R \cup I)
  BY <1>3, <1>4, RowsAddUp
<1>7. WellKeyed(items')
  BY <1>1, <1>3, <1>5, <1>6, RowsAddUp
<1>8. items' \subseteq ItemRow
  BY <1>1, <1>2, InsertedShape, MergedShape DEF TypeOK
<1>9. ASSUME NEW s \in Scopes, s # t.scope
      PROVE  InScope(items', s) = InScope(items, s)
  <2>1. \A r \in I \cup M : r.scope = t.scope
    BY InsertedShape, MergedShape DEF InScope
  <2>2. \A r \in items : r.scope = s => r \in R
    BY <1>9 DEF Kept, Victims, Targets, InScope
  <2> QED
    BY <1>1, <1>2, <1>9, <2>1, <2>2 DEF InScope
<1> QED
  BY <1>7, <1>8, <1>9

LEMMA AtLeastZeroOf ==
  ASSUME NEW n \in Nat
  PROVE  AtLeastZero(n) = n
BY DEF AtLeastZero

LEMMA AdjustedIs ==
  ASSUME NEW c \in CapacityRow, NEW m, NEW n, NEW k \in Nat, NEW l \in Nat,
         c.items + m = k, c.bytes + n = l
  PROVE  Adjusted(c, m, n) = [budget |-> c.budget, items |-> k, bytes |-> l]
<1>1. AtLeastZero(c.items + m) = k /\ AtLeastZero(c.bytes + n) = l
  BY AtLeastZeroOf
<1>2. Adjusted(c, m, n) = [[c EXCEPT !.items = k] EXCEPT !.bytes = l]
  BY <1>1, Zenon DEF Adjusted
<1> QED
  BY <1>2 DEF CapacityRow

(* The counters of the scope written to move with its rows.                *)
LEMMA ApplyCounts ==
  ASSUME TypeOK, PrimaryKeys, ItemsCounted, BytesCounted,
         NEW t \in SoundTransactions, Commits(t), NEW id, ApplyCommit(t, id)
  PROVE  /\ capacity' \in [Scopes -> CapacityRow]
         /\ ItemsCounted'
         /\ BytesCounted'
<1> DEFINE s == t.scope
           V == Victims(t)
           T == Targets(t)
           I == Inserted(t)
           M == Merged(t)
           K == InScope(Kept(t) \ Targets(t), t.scope)
<1>1. s \in Scopes
  BY DEF SoundTransactions, WriteTransaction
<1>2. /\ InScope(items, s) = (K \cup T) \cup V
      /\ K \subseteq items /\ T \subseteq items /\ V \subseteq items
      /\ T \subseteq Kept(t) /\ K \subseteq Kept(t)
  BY DEF Kept, Victims, Targets, InScope
<1>3. InScope(items', s) = (K \cup I) \cup M
  <2>1. items' = ((Kept(t) \ Targets(t)) \cup I) \cup M
    BY DEF ApplyCommit
  <2>2. InScope(items', s) = (K \cup InScope(I, s)) \cup InScope(M, s)
    BY <2>1 DEF InScope
  <2> QED
    BY <2>2, InsertedShape, MergedShape
<1>4. WellKeyed(K) /\ WellKeyed(T) /\ WellKeyed(V) /\ WellKeyed(I) /\ WellKeyed(M)
  BY <1>2, ItemsWellKeyed, InsertedShape, MergedShape
<1>5. Ids(K) \cap Ids(T) = {} /\ Ids(K \cup T) \cap Ids(V) = {}
  BY <1>2 DEF Ids, PrimaryKeys, Kept, InScope
<1>6. Ids(K) \cap Ids(I) = {} /\ Ids(K \cup I) \cap Ids(M) = {}
  <2>1. Ids(M) = Ids(T) /\ Ids(I) \cap Ids(Kept(t)) = {}
    BY InsertedShape, MergedShape
  <2>2. Ids(K) \subseteq Ids(Kept(t)) /\ Ids(T) \subseteq Ids(Kept(t))
    BY <1>2 DEF Ids
  <2>3. Ids(K \cup I) = Ids(K) \cup Ids(I)
    BY DEF Ids
  <2> QED
    BY <1>5, <2>1, <2>2, <2>3
<1> HIDE DEF s, V, T, I, M, K
<1>7. WellKeyed(K \cup T) /\ WellKeyed(K \cup I)
  BY <1>4, <1>5, <1>6, RowsAddUp
<1>8. Cardinality(Ids(InScope(items', s))) = Cardinality(Ids(InScope(items, s))) + DeltaItems(t)
  <2>1. Cardinality(Ids(InScope(items, s)))
          = (Cardinality(Ids(K)) + Cardinality(Ids(T))) + Cardinality(Ids(V))
    <3>1. Cardinality(Ids(K \cup T)) = Cardinality(Ids(K)) + Cardinality(Ids(T))
      BY <1>4, <1>5, RowsAddUp
    <3>2. Cardinality(Ids((K \cup T) \cup V))
            = Cardinality(Ids(K \cup T)) + Cardinality(Ids(V))
      BY <1>4, <1>5, <1>7, RowsAddUp
    <3> QED
      BY <1>2, <3>1, <3>2
  <2>2. Cardinality(Ids(InScope(items', s)))
          = (Cardinality(Ids(K)) + Cardinality(Ids(I))) + Cardinality(Ids(M))
    <3>1. Cardinality(Ids(K \cup I)) = Cardinality(Ids(K)) + Cardinality(Ids(I))
      BY <1>4, <1>6, RowsAddUp
    <3>2. Cardinality(Ids((K \cup I) \cup M))
            = Cardinality(Ids(K \cup I)) + Cardinality(Ids(M))
      BY <1>4, <1>6, <1>7, RowsAddUp
    <3> QED
      BY <1>3, <3>1, <3>2
  <2>3. DeltaItems(t) = Cardinality(Ids(I)) - Cardinality(Ids(V))
    BY InsertedShape DEF DeltaItems, I, V
  <2>4. Ids(M) = Ids(T)
    BY MergedShape DEF M, T
  <2>5. /\ Cardinality(Ids(K)) \in Nat /\ Cardinality(Ids(T)) \in Nat
        /\ Cardinality(Ids(V)) \in Nat /\ Cardinality(Ids(I)) \in Nat
    BY <1>4, IdsFinite
  <2> QED
    BY <2>1, <2>2, <2>3, <2>4, <2>5
<1>9. TotalCharge(InScope(items', s)) = TotalCharge(InScope(items, s)) + DeltaBytes(t)
  <2>1. TotalCharge(InScope(items, s)) = (TotalCharge(K) + TotalCharge(T)) + TotalCharge(V)
    <3>1. TotalCharge(K \cup T) = TotalCharge(K) + TotalCharge(T)
      BY <1>4, <1>5, RowsAddUp
    <3>2. TotalCharge((K \cup T) \cup V) = TotalCharge(K \cup T) + TotalCharge(V)
      BY <1>4, <1>5, <1>7, RowsAddUp
    <3> QED
      BY <1>2, <3>1, <3>2
  <2>2. TotalCharge(InScope(items', s)) = (TotalCharge(K) + TotalCharge(I)) + TotalCharge(M)
    <3>1. TotalCharge(K \cup I) = TotalCharge(K) + TotalCharge(I)
      BY <1>4, <1>6, RowsAddUp
    <3>2. TotalCharge((K \cup I) \cup M) = TotalCharge(K \cup I) + TotalCharge(M)
      BY <1>4, <1>6, <1>7, RowsAddUp
    <3> QED
      BY <1>3, <3>1, <3>2
  <2>3. DeltaBytes(t) = (TotalCharge(I) - TotalCharge(V)) + (TotalCharge(M) - TotalCharge(T))
    BY DEF DeltaBytes, I, V, M, T
  <2>4. /\ TotalCharge(K) \in Nat /\ TotalCharge(T) \in Nat /\ TotalCharge(V) \in Nat
        /\ TotalCharge(I) \in Nat /\ TotalCharge(M) \in Nat
    BY <1>4, UnitsFinite
  <2> QED
    BY <2>1, <2>2, <2>3, <2>4
<1>10. WellKeyed(InScope(items', s))
  BY <1>3, <1>4, <1>6, <1>7, RowsAddUp
<1>11. /\ Cardinality(Ids(InScope(items', s))) \in Nat
       /\ TotalCharge(InScope(items', s)) \in Nat
  BY <1>10, IdsFinite, UnitsFinite
<1>12. /\ capacity[s].items + DeltaItems(t) = Cardinality(Ids(InScope(items', s)))
       /\ capacity[s].bytes + DeltaBytes(t) = TotalCharge(InScope(items', s))
  BY <1>1, <1>8, <1>9 DEF ItemsCounted, BytesCounted
<1>13. capacity' = [capacity EXCEPT ![s] = Adjusted(@, DeltaItems(t), DeltaBytes(t))]
  BY DEF ApplyCommit, s
<1>14. capacity'[s] = [budget |-> capacity[s].budget,
                       items |-> Cardinality(Ids(InScope(items', s))),
                       bytes |-> TotalCharge(InScope(items', s))]
  <2>1. capacity[s] \in CapacityRow
    BY <1>1 DEF TypeOK
  <2>2. capacity'[s] = Adjusted(capacity[s], DeltaItems(t), DeltaBytes(t))
    BY <1>1, <1>13 DEF TypeOK
  <2> QED
    BY <1>11, <1>12, <2>1, <2>2, AdjustedIs
<1>15. \A x \in Scopes : x # s => /\ capacity'[x] = capacity[x]
                                  /\ InScope(items', x) = InScope(items, x)
  BY <1>13, ApplyRows DEF TypeOK, s
<1>16. capacity' \in [Scopes -> CapacityRow]
  <2>1. capacity[s] \in CapacityRow
    BY <1>1 DEF TypeOK
  <2>2. capacity'[s] \in CapacityRow
    BY <1>11, <1>14, <2>1 DEF CapacityRow
  <2>3. \A x \in Scopes : capacity'[x] \in CapacityRow
    BY <1>15, <2>2 DEF TypeOK
  <2>4. capacity' = [x \in Scopes |-> capacity'[x]]
    BY <1>13 DEF TypeOK
  <2> QED
    BY <2>3, <2>4
<1>17. ItemsCounted'
  BY <1>1, <1>14, <1>15 DEF ItemsCounted
<1>18. BytesCounted'
  BY <1>1, <1>14, <1>15 DEF BytesCounted
<1> QED
  BY <1>16, <1>17, <1>18

(* Vector rows under one id each, as the primary key has it.               *)
VectorsKeyed(rows) ==
  /\ rows \subseteq VectorRow
  /\ \A u, v \in rows : u.id = v.id => u = v

(* What vectors::insert leaves: the old row of the item is replaced.       *)
LEMMA WithVectorIs ==
  ASSUME NEW rows, VectorsKeyed(rows), NEW id \in ItemIds, NEW s \in Scopes,
         NEW body \in Bodies, \A v \in rows : v.id = id => v.scope = s
  PROVE  /\ WithVector(rows, id, s, body) =
              {v \in rows : v.id # id} \cup {[id |-> id, scope |-> s, of |-> body]}
         /\ VectorsKeyed(WithVector(rows, id, s, body))
<1> DEFINE old == {v \in rows : v.id = id}
<1>1. ASSUME old # {} PROVE (CHOOSE v \in old : TRUE).scope = s
  <2>1. (CHOOSE v \in old : TRUE) \in old
    BY <1>1
  <2> QED
    BY <2>1
<1>2. (IF old = {} THEN s ELSE (CHOOSE v \in old : TRUE).scope) = s
  BY <1>1
<1>3. WithVector(rows, id, s, body) =
        (rows \ old) \cup {[id |-> id, scope |-> s, of |-> body]}
  BY <1>2, Zenon DEF WithVector
<1>4. rows \ old = {v \in rows : v.id # id}
  OBVIOUS
<1> QED
  BY <1>3, <1>4 DEF VectorsKeyed, VectorRow

(* What is found of a row depends on the vectors under its id alone.       *)
LEMMA SameFound ==
  ASSUME NEW V, NEW W, NEW r, \A v : v.id = r.id => (v \in V <=> v \in W)
  PROVE  FoundFor(V, r) = FoundFor(W, r)
BY DEF FoundFor

LEMMA OneFound ==
  ASSUME NEW V, NEW r, NEW v \in V, v.id = r.id, \A u \in V : u.id = r.id => u.of = v.of
  PROVE  FoundFor(V, r) = {v.of}
BY DEF FoundFor

(* The vectors follow the rows a committed transaction leaves.             *)
LEMMA ApplyVectors ==
  ASSUME TypeOK, PrimaryKeys, VectorsFollowItems,
         NEW t \in SoundTransactions, Commits(t), NEW id, ApplyCommit(t, id)
  PROVE  /\ VectorsKeyed(vectors')
         /\ VectorsFollowItems'
         /\ \A r \in items \cap items' :
              FoundFor(vectors', r) = FoundFor(vectors, r) \/ FoundFor(vectors', r) = Exact(r)
         /\ \A r \in items' \ items : FoundFor(vectors', r) = Exact(r)
<1> DEFINE left == Cascaded(Victims(t))
           R == Kept(t) \ Targets(t)
           Owns(v, r) == r.id = v.id /\ r.scope = v.scope
<1> t \in WriteTransaction
  BY DEF SoundTransactions
<1>1. items' = (R \cup Inserted(t)) \cup Merged(t)
  BY DEF ApplyCommit
<1>2. vectors' = VectorsAfter(t)
  BY DEF ApplyCommit
<1>3. VectorsKeyed(left)
  BY DEF VectorsKeyed, Cascaded, TypeOK, PrimaryKeys
<1>4. \A v \in left : \E r \in Kept(t) : Owns(v, r)
  BY DEF Cascaded, Ids, Kept, VectorsFollowItems
<1>5. \A r \in Kept(t) : FoundFor(left, r) = FoundFor(vectors, r)
  <2> TAKE r \in Kept(t)
  <2>1. r.id \notin Ids(Victims(t))
    BY DEF Ids, Kept, Victims, InScope, PrimaryKeys
  <2>2. \A v : v.id = r.id => (v \in left <=> v \in vectors)
    BY <2>1 DEF Cascaded
  <2> QED
    BY <2>2, SameFound
<1>6. \A r \in Kept(t) : r \in ItemRow /\ r \in items
  BY DEF Kept, TypeOK
<1>7. \A w \in t.upsert : Paired(w)
  BY DEF SoundTransactions
<1>8. t.upsert = {} \/ t.merge = {}
  BY DEF Commits, IsValid
(* It is enough that the rows left alone are found as before and the       *)
(* written ones exactly.                                                   *)
<1>9. ASSUME \A v \in vectors' : \E r \in items' : Owns(v, r),
             \A r \in R : FoundFor(vectors', r) = FoundFor(left, r),
             \A r \in Inserted(t) \cup Merged(t) : FoundFor(vectors', r) = Exact(r),
             VectorsKeyed(vectors')
      PROVE  /\ VectorsKeyed(vectors') /\ VectorsFollowItems'
             /\ \A r \in items \cap items' :
                  FoundFor(vectors', r) = FoundFor(vectors, r) \/ FoundFor(vectors', r) = Exact(r)
             /\ \A r \in items' \ items : FoundFor(vectors', r) = Exact(r)
  <2>1. \A r \in R : r \in items /\ FoundFor(vectors', r) = FoundFor(vectors, r)
    BY <1>5, <1>6, <1>9 DEF R
  <2>2. \A r \in items' : r \in R \/ FoundFor(vectors', r) = Exact(r)
    BY <1>1, <1>9
  <2>3. \A r \in R : FoundFor(vectors', r) = Exact(r) \/ AsImported(r, FoundFor(vectors', r))
    BY <2>1 DEF VectorsFollowItems
  <2>4. \A r \in items' : FoundFor(vectors', r) = Exact(r) \/ AsImported(r, FoundFor(vectors', r))
    BY <2>2, <2>3
  <2>5. VectorsFollowItems'
    BY <1>9, <2>4 DEF VectorsFollowItems
  <2> QED
    BY <1>9, <2>1, <2>2, <2>5
<1> HIDE DEF left, R
<1>10. ASSUME NEW w \in ItemWrite, t.upsert = {w}, w.embedded
       PROVE  /\ \A v \in vectors' : \E r \in items' : Owns(v, r)
              /\ \A r \in R : FoundFor(vectors', r) = FoundFor(left, r)
              /\ \A r \in Inserted(t) \cup Merged(t) : FoundFor(vectors', r) = Exact(r)
              /\ VectorsKeyed(vectors')
  <2> DEFINE new == [id |-> w.id, scope |-> t.scope, of |-> w.body]
  <2>1. Targets(t) = {} /\ Merged(t) = {} /\ R = Kept(t)
    BY <1>8, <1>10 DEF Targets, Merged, R
  <2>2. (CHOOSE x \in t.upsert : TRUE) = w
    BY <1>10
  <2>3. vectors' = WithVector(left, w.id, t.scope, w.body)
    BY <1>2, <1>10, <2>2 DEF VectorsAfter, left
  <2>4. \A r \in Kept(t) : r.id # w.id
    BY <1>10 DEF Commits, KeyTaken, Ids
  <2>5. \A v \in left : v.id # w.id
    BY <1>4, <2>4
  <2>6. w.id \in ItemIds /\ w.body \in Bodies /\ t.scope \in Scopes /\ w.scope = t.scope
    BY <1>10 DEF ItemWrite, WriteTransaction, Commits, IsValid
  <2>7. vectors' = left \cup {new} /\ VectorsKeyed(vectors')
    BY <1>3, <2>3, <2>5, <2>6, WithVectorIs
  <2>8. \A r \in Inserted(t) : Owns(new, r) /\ Exact(r) = {w.body} /\ r.id = w.id
    <3>1. ~w.pending
      BY <1>7, <1>10 DEF Paired, ItemWrite
    <3> QED
      BY <1>10, <2>6, <3>1 DEF Inserted, Exact
  <2>9. \E r \in Inserted(t) : TRUE
    BY <1>10 DEF Inserted
  <2>10. items' = Kept(t) \cup Inserted(t)
    BY <1>1, <2>1
  <2>11. \A v \in vectors' : \E r \in items' : Owns(v, r)
    BY <1>4, <2>7, <2>8, <2>9, <2>10
  <2>12. \A r \in R : FoundFor(vectors', r) = FoundFor(left, r)
    <3> TAKE r \in R
    <3>1. r.id # w.id
      BY <2>1, <2>4
    <3>2. \A v : v.id = r.id => (v \in vectors' <=> v \in left)
      BY <2>7, <3>1
    <3> QED
      BY <3>2, SameFound
  <2>13. \A r \in Inserted(t) : FoundFor(vectors', r) = {w.body}
    <3> TAKE r \in Inserted(t)
    <3>1. new \in vectors' /\ new.id = r.id /\ new.of = w.body
      BY <2>7, <2>8
    <3>2. \A v \in vectors' : v.id = r.id => v.of = new.of
      BY <2>5, <2>7, <2>8
    <3> HIDE DEF new
    <3> QED
      BY <3>1, <3>2, OneFound
  <2> QED
    BY <2>1, <2>7, <2>8, <2>11, <2>12, <2>13
<1>11. ASSUME NEW m \in MergeWrite, t.merge = {m}, m.embedded
       PROVE  /\ \A v \in vectors' : \E r \in items' : Owns(v, r)
              /\ \A r \in R : FoundFor(vectors', r) = FoundFor(left, r)
              /\ \A r \in Inserted(t) \cup Merged(t) : FoundFor(vectors', r) = Exact(r)
              /\ VectorsKeyed(vectors')
  <2> DEFINE new == [id |-> m.target, scope |-> t.scope, of |-> m.body]
  <2>1. t.upsert = {} /\ Inserted(t) = {} /\ (CHOOSE x \in t.merge : TRUE) = m
    BY <1>8, <1>11 DEF Inserted
  <2>2. vectors' = WithVector(left, m.target, t.scope, m.body)
    BY <1>2, <1>11, <2>1 DEF VectorsAfter, left
  <2>3. PICK r0 \in Kept(t) : r0.id = m.target /\ r0.scope = t.scope /\ r0 \in Targets(t)
    BY <1>11 DEF Commits, TargetMissing, Targets, InScope
  <2>4. \A r \in Kept(t) : r.id = m.target => r = r0
    BY <2>3 DEF Kept, PrimaryKeys
  <2>5. \A v \in left : v.id = m.target => v.scope = t.scope
    BY <1>4, <2>3, <2>4
  <2>6. m.target \in ItemIds /\ m.body \in Bodies /\ t.scope \in Scopes
    BY DEF MergeWrite, WriteTransaction
  <2>7. vectors' = {v \in left : v.id # m.target} \cup {new} /\ VectorsKeyed(vectors')
    BY <1>3, <2>2, <2>5, <2>6, WithVectorIs
  <2>8. Targets(t) = {r0}
    BY <1>11, <2>3, <2>4 DEF Targets, InScope
  <2>9. Merged(t) = {MergedRow(r0, m)}
    BY <1>11, <2>8 DEF Merged
  <2>10. /\ Owns(new, MergedRow(r0, m)) /\ Exact(MergedRow(r0, m)) = {m.body}
         /\ MergedRow(r0, m).id = m.target
    <3>1. ~m.pending
      BY <1>11 DEF Commits, IsValid, MergeWrite
    <3> QED
      BY <1>6, <2>3, <3>1 DEF MergedRow, ItemRow, Exact
  <2>11. R = {r \in Kept(t) : r.id # m.target}
    BY <2>3, <2>4, <2>8 DEF R
  <2>12. items' = R \cup {MergedRow(r0, m)}
    BY <1>1, <2>1, <2>9
  <2>13. \A v \in vectors' : \E r \in items' : Owns(v, r)
    BY <1>4, <2>7, <2>10, <2>11, <2>12
  <2>14. \A r \in R : FoundFor(vectors', r) = FoundFor(left, r)
    <3> TAKE r \in R
    <3>1. \A v : v.id = r.id => (v \in vectors' <=> v \in left)
      BY <2>7, <2>11
    <3> QED
      BY <3>1, SameFound
  <2>15. FoundFor(vectors', MergedRow(r0, m)) = {m.body}
    <3> PICK r : r = MergedRow(r0, m)
      OBVIOUS
    <3>1. new \in vectors' /\ new.id = r.id /\ new.of = m.body
      BY <2>7, <2>10
    <3>2. \A v \in vectors' : v.id = r.id => v.of = new.of
      BY <2>7, <2>10
    <3> HIDE DEF new
    <3> QED
      BY <3>1, <3>2, OneFound
  <2> QED
    BY <2>1, <2>7, <2>9, <2>10, <2>13, <2>14, <2>15
<1>12. ASSUME ~(\E w \in t.upsert : w.embedded), ~(\E m \in t.merge : m.embedded)
       PROVE  /\ \A v \in vectors' : \E r \in items' : Owns(v, r)
              /\ \A r \in R : FoundFor(vectors', r) = FoundFor(left, r)
              /\ \A r \in Inserted(t) \cup Merged(t) : FoundFor(vectors', r) = Exact(r)
              /\ VectorsKeyed(vectors')
  <2>1. vectors' = {v \in left : ~(v.scope = t.scope /\ \E m \in t.merge : m.target = v.id)}
    BY <1>2, <1>12 DEF VectorsAfter, left
  <2>2. VectorsKeyed(vectors')
    BY <1>3, <2>1 DEF VectorsKeyed
  <2>3. ASSUME NEW r \in Inserted(t) PROVE FoundFor(vectors', r) = {} /\ Exact(r) = {}
    <3>1. PICK w \in t.upsert : r.id = w.id /\ r.pending = w.pending
      BY <2>3 DEF Inserted
    <3>2. w.pending
      BY <1>7, <1>12 DEF Paired
    <3>3. \A v \in left : v.id # r.id
      BY <1>4, <3>1 DEF Commits, KeyTaken, Ids
    <3> QED
      BY <2>1, <3>1, <3>2, <3>3 DEF FoundFor, Exact
  <2>4. ASSUME NEW r \in Merged(t) PROVE FoundFor(vectors', r) = {} /\ Exact(r) = {}
    <3>1. PICK r0 \in Targets(t), m \in t.merge : r = MergedRow(r0, m)
      BY <2>4 DEF Merged
    <3>2. r0 \in Kept(t) /\ r0.scope = t.scope /\ r0.id = m.target
      <4>1. t.merge = {m}
        BY DEF WriteTransaction, AtMostOne
      <4> QED
        BY <4>1 DEF Targets, InScope
    <3>3. r.id = r0.id /\ r.pending = m.pending
      BY <1>6, <3>1, <3>2 DEF MergedRow, ItemRow
    <3>4. m.pending
      BY <1>12 DEF Commits, IsValid
    <3>5. \A v \in left : v.id = r0.id => v.scope = t.scope
      BY <1>4, <3>2 DEF Kept, PrimaryKeys
    <3>6. \A v \in vectors' : v.id # r.id
      BY <2>1, <3>2, <3>3, <3>5
    <3> QED
      BY <3>3, <3>4, <3>6 DEF FoundFor, Exact
  <2>5. \A v \in vectors' : \E r \in R : Owns(v, r)
    BY <1>4, <2>1 DEF R, Targets, InScope
  <2>6. \A v \in vectors' : \E r \in items' : Owns(v, r)
    BY <1>1, <2>5
  <2>7. \A r \in R : FoundFor(vectors', r) = FoundFor(left, r)
    <3> TAKE r \in R
    <3>1. \A v \in left : v.id = r.id => v.scope = r.scope
      BY <1>4 DEF R, Kept, PrimaryKeys
    <3>2. \A v : v.id = r.id => (v \in vectors' <=> v \in left)
      BY <2>1, <3>1 DEF R, Targets, InScope
    <3> QED
      BY <3>2, SameFound
  <2> QED
    BY <2>2, <2>3, <2>4, <2>6, <2>7
<1>13. t.upsert \in AtMostOne(ItemWrite) /\ t.merge \in AtMostOne(MergeWrite)
  BY DEF WriteTransaction
<1>14. /\ \A v \in vectors' : \E r \in items' : Owns(v, r)
       /\ \A r \in R : FoundFor(vectors', r) = FoundFor(left, r)
       /\ \A r \in Inserted(t) \cup Merged(t) : FoundFor(vectors', r) = Exact(r)
       /\ VectorsKeyed(vectors')
  BY <1>10, <1>11, <1>12, <1>13 DEF AtMostOne
<1> QED
  BY <1>9, <1>14

(* The aggregates cover what an operation adds to the audit.               *)
LEMMA AuditStaysCovered ==
  ASSUME TypeOK, AggregatesCoverAudit, IsFiniteSet(audit),
         NEW rows, IsFiniteSet(rows), audit' \subseteq audit \cup rows,
         aggregates' = Counted(aggregates, rows)
  PROVE  /\ AggregatesCoverAudit'
         /\ IsFiniteSet(audit')
         /\ aggregates' \in [AggregateKeys -> Nat]
<1> DEFINE Of(S, e) == {a \in S : KeyOf(a) = e}
<1>1. IsFiniteSet(audit \cup rows) /\ IsFiniteSet(audit')
  BY FS_Union, FS_Subset
<1>2. ASSUME NEW e \in AggregateKeys
      PROVE  /\ Cardinality(Of(audit', e)) =< aggregates'[e]
             /\ aggregates'[e] \in Nat
  <2>1. IsFiniteSet(Of(audit, e)) /\ IsFiniteSet(Of(rows, e))
    BY FS_Subset
  <2>2. /\ Cardinality(Of(audit, e)) \in Nat
        /\ Cardinality(Of(rows, e)) \in Nat
        /\ Cardinality(Of(audit, e) \cap Of(rows, e)) \in Nat
    BY <2>1, FS_Intersection, FS_CardinalityType
  <2>3. /\ IsFiniteSet(Of(audit, e) \cup Of(rows, e))
        /\ Cardinality(Of(audit, e) \cup Of(rows, e))
             = Cardinality(Of(audit, e)) + Cardinality(Of(rows, e))
                 - Cardinality(Of(audit, e) \cap Of(rows, e))
    BY <2>1, FS_Union
  <2>4. Of(audit', e) \subseteq Of(audit, e) \cup Of(rows, e)
    OBVIOUS
  <2>5. /\ Cardinality(Of(audit', e)) =< Cardinality(Of(audit, e) \cup Of(rows, e))
        /\ Cardinality(Of(audit', e)) \in Nat
    BY <2>3, <2>4, FS_Subset, FS_CardinalityType
  <2>6. aggregates'[e] = aggregates[e] + Cardinality(Of(rows, e))
    BY DEF Counted
  <2>7. Cardinality(Of(audit, e)) =< aggregates[e] /\ aggregates[e] \in Nat
    BY DEF AggregatesCoverAudit, TypeOK
  <2> HIDE DEF Of
  <2> QED
    BY <2>2, <2>3, <2>5, <2>6, <2>7
<1>3. aggregates' = [e \in AggregateKeys |-> aggregates'[e]]
  BY DEF Counted
<1> QED
  BY <1>1, <1>2, <1>3 DEF AggregatesCoverAudit

(* A freshly minted audit id names no row there is.                        *)
LEMMA FreshAudit ==
  ASSUME TypeOK, PrimaryKeys, AuditIdsMinted, Mint,
         NEW row \in AuditRow, row.id = minted + 1, audit' \subseteq audit \cup {row}
  PROVE  /\ audit' \subseteq AuditRow
         /\ \A a, b \in audit' : a.id = b.id => a = b
         /\ AuditIdsMinted'
         /\ minted' \in Nat
<1>1. minted' = minted + 1 /\ minted \in Nat
  BY DEF Mint, TypeOK
<1>2. \A a \in audit : a.id \in Int /\ a.id < minted + 1
  BY <1>1 DEF AuditIdsMinted, TypeOK, AuditRow
<1>3. \A a \in audit : a.id # row.id
  BY <1>2
<1> QED
  BY <1>1, <1>2, <1>3 DEF AuditIdsMinted, TypeOK, PrimaryKeys

-----------------------------------------------------------------------------
(* Each operation keeps the invariant.                                     *)

LEMMA ApplyKeeps ==
  ASSUME IInv, NEW t \in SoundTransactions, Mint, Apply(t, minted + 1)
  PROVE  IInv'
<1> USE DEF IInv
<1> t \in WriteTransaction
  BY DEF SoundTransactions
<1>1. CASE ~Commits(t)
  <2>1. UNCHANGED tables /\ minted' = minted + 1
    BY <1>1 DEF Apply, Mint
  <2>2. AuditIdsMinted'
    BY <2>1 DEF AuditIdsMinted, TypeOK, tables, AuditRow
  <2>3. TypeOK'
    BY <2>1 DEF TypeOK, tables
  <2>4. PrimaryKeys' /\ VectorsFollowItems'
    BY <2>1 DEF tables, PrimaryKeys, VectorsFollowItems
  <2>5. ItemsCounted' /\ BytesCounted' /\ ReplaysAreAudited'
    BY <2>1 DEF tables, ItemsCounted, BytesCounted, ReplaysAreAudited
  <2>6. AggregatesCoverAudit' /\ IsFiniteSet(audit')
    BY <2>1 DEF tables, AggregatesCoverAudit
  <2> QED
    BY <2>2, <2>3, <2>4, <2>5, <2>6
<1>2. CASE Commits(t)
  <2> DEFINE row == [id |-> minted + 1, scope |-> t.auditScope, event |-> t.event,
                     items |-> t.refs, meta |-> t.auditMeta]
             out == AppliedWrite(t, minted + 1)
             new == {[scope |-> t.scope, key |-> k, digest |-> t.digest, outcome |-> out]
                      : k \in t.key}
  <2>1. ApplyCommit(t, minted + 1)
    BY <1>2 DEF Apply
  <2>2. /\ audit' = audit \cup {row}
        /\ aggregates' = Counted(aggregates, {row})
        /\ idempotency' = idempotency \cup new
    BY <2>1 DEF ApplyCommit, AuditInserted
  <2>3. row \in AuditRow
    BY DEF TypeOK, AuditRow, WriteTransaction
  <2>4. out \in Outcome
    <3>1. Ids(t.upsert) \cup {m.target : m \in t.merge} \in AtMostOne(ItemIds)
      <4>1. t.upsert \in AtMostOne(ItemWrite) /\ t.merge \in AtMostOne(MergeWrite)
        BY DEF WriteTransaction
      <4>2. t.upsert = {} \/ t.merge = {}
        BY <1>2 DEF Commits, IsValid
      <4>3. Ids({}) = {} /\ {m.target : m \in {}} = {}
        BY DEF Ids
      <4>4. \A w \in ItemWrite : w.id \in ItemIds /\ Ids({w}) = {w.id}
        BY DEF ItemWrite, Ids
      <4>5. \A n \in MergeWrite : n.target \in ItemIds /\ {m.target : m \in {n}} = {n.target}
        BY DEF MergeWrite
      <4>6. CASE t.upsert = {} /\ t.merge = {}
        BY <4>3, <4>6 DEF AtMostOne
      <4>7. ASSUME NEW w \in ItemWrite, t.upsert = {w}, t.merge = {}
            PROVE  Ids(t.upsert) \cup {m.target : m \in t.merge} \in AtMostOne(ItemIds)
        BY <4>3, <4>4, <4>7 DEF AtMostOne
      <4>8. ASSUME NEW n \in MergeWrite, t.merge = {n}, t.upsert = {}
            PROVE  Ids(t.upsert) \cup {m.target : m \in t.merge} \in AtMostOne(ItemIds)
        BY <4>3, <4>5, <4>8 DEF AtMostOne
      <4> QED
        BY <4>1, <4>2, <4>6, <4>7, <4>8 DEF AtMostOne
    <3>2. Ids(Victims(t)) \in SUBSET ItemIds
      BY DEF Ids, Victims, InScope, TypeOK, ItemRow
    <3>3. minted + 1 \in Int
      BY DEF TypeOK
    <3> QED
      BY <3>1, <3>2, <3>3 DEF AppliedWrite, Outcome
  <2>5. new \subseteq IdempotencyRow
    <3>1. t.key \subseteq Keys
      BY DEF WriteTransaction, AtMostOne
    <3> HIDE DEF out
    <3> QED
      BY <2>4, <3>1 DEF IdempotencyRow, WriteTransaction
  <2>6. \A p, q \in idempotency' : p.scope = q.scope /\ p.key = q.key => p = q
    <3>1. \A p \in idempotency : ~(p.scope = t.scope /\ p.key \in t.key)
      BY <1>2 DEF Commits, Prior
    <3> HIDE DEF out
    <3> QED
      BY <2>2, <3>1 DEF PrimaryKeys
  <2>7. ReplaysAreAudited'
    <3>1. out.audit = row.id /\ row.scope = t.scope
      BY <1>2 DEF AppliedWrite, Commits, IsValid
    <3> HIDE DEF out, row
    <3> QED
      BY <2>2, <3>1 DEF ReplaysAreAudited
  <2> HIDE DEF row, out, new
  <2>8. row.id = minted + 1
    BY DEF row
  <2>9. /\ audit' \subseteq AuditRow
        /\ \A a, b \in audit' : a.id = b.id => a = b
        /\ AuditIdsMinted'
        /\ minted' \in Nat
    BY <2>2, <2>3, <2>8, FreshAudit
  <2>10. AggregatesCoverAudit' /\ IsFiniteSet(audit') /\ aggregates' \in [AggregateKeys -> Nat]
    BY <2>2, FS_Singleton, AuditStaysCovered
  <2>11. items' \subseteq ItemRow /\ WellKeyed(items')
    BY <1>2, <2>1, ApplyRows
  <2>12. /\ capacity' \in [Scopes -> CapacityRow]
         /\ ItemsCounted' /\ BytesCounted'
    BY <1>2, <2>1, ApplyCounts
  <2>13. VectorsKeyed(vectors') /\ VectorsFollowItems'
    BY <1>2, <2>1, ApplyVectors
  <2>14. TypeOK'
    BY <2>2, <2>5, <2>9, <2>10, <2>11, <2>12, <2>13 DEF TypeOK, VectorsKeyed
  <2>15. PrimaryKeys'
    BY <2>6, <2>9, <2>11, <2>13 DEF PrimaryKeys, WellKeyed, VectorsKeyed
  <2> QED
    BY <2>7, <2>9, <2>10, <2>12, <2>13, <2>14, <2>15
<1> QED
  BY <1>1, <1>2

LEMMA RecallKeeps ==
  ASSUME IInv, NEW s \in Scopes, NEW refs \in SUBSET ItemIds, NEW m \in AuditMetas, Mint,
         RecordRecall(s, refs, minted + 1, m)
  PROVE  IInv'
<1> USE DEF IInv
<1> DEFINE row == [id |-> minted + 1, scope |-> s, event |-> "Recalled", items |-> refs,
                   meta |-> m]
           f(r) == IF r.scope = s /\ r.id \in refs THEN [r EXCEPT !.access = @ + 1] ELSE r
<1>1. /\ audit' = audit \cup {row}
      /\ aggregates' = Counted(aggregates, {row})
      /\ items' = {f(r) : r \in items}
      /\ UNCHANGED <<vectors, capacity, idempotency>>
  BY DEF RecordRecall, AuditInserted
<1>2. row \in AuditRow /\ row.id = minted + 1
  BY DEF AuditRow, TypeOK, Events
<1>3. \A r \in items : /\ f(r) \in ItemRow /\ f(r).id = r.id /\ f(r).scope = r.scope
                       /\ f(r).body = r.body /\ f(r).tags = r.tags
                       /\ f(r).pending = r.pending
  BY DEF TypeOK, ItemRow
<1> HIDE DEF row, f
<1>4. /\ audit' \subseteq AuditRow
      /\ \A a, b \in audit' : a.id = b.id => a = b
      /\ AuditIdsMinted'
      /\ minted' \in Nat
  BY <1>1, <1>2, FreshAudit
<1>5. AggregatesCoverAudit' /\ IsFiniteSet(audit') /\ aggregates' \in [AggregateKeys -> Nat]
  BY <1>1, FS_Singleton, AuditStaysCovered
<1>6. ASSUME NEW x \in Scopes
      PROVE  /\ Ids(InScope(items', x)) = Ids(InScope(items, x))
             /\ Units(InScope(items', x)) = Units(InScope(items, x))
  <2>1. InScope(items', x) = {f(r) : r \in InScope(items, x)}
    BY <1>1, <1>3 DEF InScope
  <2>2. \A r \in InScope(items, x) : f(r).id = r.id /\ Charge(f(r)) = Charge(r)
    BY <1>3 DEF InScope, Charge
  <2> QED
    BY <2>1, <2>2 DEF Ids, Units
<1>7. ItemsCounted' /\ BytesCounted'
  BY <1>1, <1>6 DEF ItemsCounted, BytesCounted, TotalCharge
<1>8. VectorsFollowItems'
  <2>1. \A v \in vectors' : \E r \in items' : r.id = v.id /\ r.scope = v.scope
    BY <1>1, <1>3 DEF VectorsFollowItems
  <2>2. \A r \in items : /\ FoundFor(vectors', f(r)) = FoundFor(vectors, r)
                         /\ Exact(f(r)) = Exact(r)
                         /\ AsImported(f(r), FoundFor(vectors, r)) = AsImported(r, FoundFor(vectors, r))
    BY <1>1, <1>3 DEF FoundFor, Exact, AsImported
  <2>3. \A r \in items' : \/ FoundFor(vectors', r) = Exact(r)
                          \/ AsImported(r, FoundFor(vectors', r))
    BY <1>1, <2>2 DEF VectorsFollowItems
  <2> QED
    BY <2>1, <2>3 DEF VectorsFollowItems
<1>9. TypeOK'
  BY <1>1, <1>3, <1>4, <1>5 DEF TypeOK
<1>10. PrimaryKeys'
  BY <1>1, <1>3, <1>4 DEF PrimaryKeys
<1>11. ReplaysAreAudited'
  BY <1>1 DEF ReplaysAreAudited
<1> QED
  BY <1>4, <1>5, <1>7, <1>8, <1>9, <1>10, <1>11

LEMMA SetBudgetKeeps ==
  ASSUME IInv, NEW s \in Scopes, NEW b \in Budgets, SetBudget(s, b), UNCHANGED minted
  PROVE  IInv'
<1> USE DEF IInv
<1>1. /\ UNCHANGED <<items, vectors, audit, aggregates, idempotency, minted>>
      /\ capacity' = [capacity EXCEPT ![s].budget = b]
  BY DEF SetBudget
<1>2. \A x \in Scopes : /\ capacity'[x] \in CapacityRow
                        /\ capacity'[x].items = capacity[x].items
                        /\ capacity'[x].bytes = capacity[x].bytes
  BY <1>1 DEF TypeOK, CapacityRow
<1>3. capacity' = [x \in Scopes |-> capacity'[x]]
  BY <1>1 DEF TypeOK
<1>4. TypeOK'
  BY <1>1, <1>2, <1>3 DEF TypeOK
<1>5. ItemsCounted' /\ BytesCounted'
  BY <1>1, <1>2 DEF ItemsCounted, BytesCounted
<1>6. PrimaryKeys' /\ VectorsFollowItems' /\ ReplaysAreAudited'
  BY <1>1 DEF PrimaryKeys, VectorsFollowItems, ReplaysAreAudited
<1>7. AggregatesCoverAudit' /\ AuditIdsMinted' /\ IsFiniteSet(audit')
  BY <1>1 DEF AggregatesCoverAudit, AuditIdsMinted
<1> QED
  BY <1>4, <1>5, <1>6, <1>7

LEMMA NothingCounted == Cardinality(Ids({})) = 0 /\ TotalCharge({}) = 0
BY FS_EmptySet DEF Ids, TotalCharge, Units

LEMMA PurgeKeeps ==
  ASSUME IInv, NEW s \in Scopes, NEW cascade \in BOOLEAN, NEW m \in AuditMetas, Mint,
         PurgeSubject(SubjectOf(s), cascade, s, minted + 1, m)
  PROVE  IInv'
<1> USE DEF IInv
<1> DEFINE j == SubjectOf(s)
           marker == [id |-> minted + 1, scope |-> s, event |-> "SubjectPurged", items |-> {},
                      meta |-> m]
<1>1. /\ items' = items \ OfSubject(items, j)
      /\ vectors' = {v \in Cascaded(OfSubject(items, j)) : SubjectOf(v.scope) # j}
      /\ idempotency' = idempotency \ OfSubject(idempotency, j)
      /\ capacity' = [x \in Scopes |-> IF SubjectOf(x) = j THEN NoCapacity ELSE capacity[x]]
      /\ audit' = PurgedAudit(j, cascade) \cup {marker}
      /\ aggregates' = Counted(aggregates, {marker})
  BY DEF PurgeSubject, PurgedIdempotency, PurgedCapacity
<1>2. marker \in AuditRow /\ marker.id = minted + 1
  BY DEF AuditRow, TypeOK, Events
<1> HIDE DEF marker, j
<1>3. /\ audit' \subseteq audit \cup {marker}
      /\ \A a \in audit : SubjectOf(a.scope) # j => a \in audit'
  BY <1>1 DEF PurgedAudit, OfSubject
<1>4. /\ audit' \subseteq AuditRow
      /\ \A a, b \in audit' : a.id = b.id => a = b
      /\ AuditIdsMinted'
      /\ minted' \in Nat
  BY <1>2, <1>3, FreshAudit
<1>5. AggregatesCoverAudit' /\ IsFiniteSet(audit') /\ aggregates' \in [AggregateKeys -> Nat]
  BY <1>1, <1>3, FS_Singleton, AuditStaysCovered
<1>6. NoCapacity \in CapacityRow
  BY StoreAssumption DEF NoCapacity, CapacityRow
<1>7. ASSUME NEW x \in Scopes
      PROVE  /\ capacity'[x] \in CapacityRow
             /\ capacity'[x].items = Cardinality(Ids(InScope(items', x)))
             /\ capacity'[x].bytes = TotalCharge(InScope(items', x))
  <2>1. CASE SubjectOf(x) = j
    <3>1. InScope(items', x) = {}
      BY <1>1, <2>1 DEF InScope, OfSubject
    <3>2. capacity'[x] = NoCapacity
      BY <1>1, <2>1
    <3> QED
      BY <1>6, <3>1, <3>2, NothingCounted DEF NoCapacity
  <2>2. CASE SubjectOf(x) # j
    <3>1. InScope(items', x) = InScope(items, x)
      BY <1>1, <2>2 DEF InScope, OfSubject
    <3>2. capacity'[x] = capacity[x]
      BY <1>1, <2>2
    <3> QED
      BY <3>1, <3>2 DEF ItemsCounted, BytesCounted, TypeOK
  <2> QED
    BY <2>1, <2>2
<1>8. capacity' \in [Scopes -> CapacityRow]
  <2>1. capacity' = [x \in Scopes |-> capacity'[x]]
    BY <1>1
  <2> QED
    BY <1>7, <2>1
<1>9. ItemsCounted' /\ BytesCounted'
  BY <1>7 DEF ItemsCounted, BytesCounted
<1>10. VectorsFollowItems'
  <2>1. \A v \in vectors' : \E r \in items' : r.id = v.id /\ r.scope = v.scope
    BY <1>1 DEF VectorsFollowItems, Cascaded, OfSubject
  <2>2. ASSUME NEW r \in items' PROVE FoundFor(vectors', r) = FoundFor(vectors, r)
    <3>1. \A v \in vectors : v.id = r.id => v.scope = r.scope
      BY <1>1 DEF VectorsFollowItems, PrimaryKeys
    <3>2. \A v : v.id = r.id => (v \in vectors' <=> v \in vectors)
      BY <1>1, <3>1 DEF Cascaded, OfSubject, Ids, PrimaryKeys
    <3> QED
      BY <3>2, SameFound
  <2> QED
    BY <1>1, <2>1, <2>2 DEF VectorsFollowItems
<1>11. ReplaysAreAudited'
  BY <1>1, <1>3 DEF ReplaysAreAudited, OfSubject
<1>12. TypeOK'
  BY <1>1, <1>4, <1>5, <1>8 DEF TypeOK, Cascaded
<1>13. PrimaryKeys'
  BY <1>1, <1>4 DEF PrimaryKeys, Cascaded
<1> QED
  BY <1>4, <1>5, <1>9, <1>10, <1>11, <1>12, <1>13

LEMMA ImportKeeps ==
  ASSUME IInv, NEW st \in SoundStreams, Import(st), UNCHANGED minted
  PROVE  IInv'
<1> USE DEF IInv
<1>1. CASE ~ImportCommits(st)
  <2>1. UNCHANGED <<tables, minted>>
    BY <1>1 DEF Import
  <2>2. TypeOK' /\ PrimaryKeys' /\ VectorsFollowItems' /\ AuditIdsMinted'
    BY <2>1 DEF tables, TypeOK, PrimaryKeys, VectorsFollowItems, AuditIdsMinted
  <2>3. ItemsCounted' /\ BytesCounted' /\ ReplaysAreAudited'
    BY <2>1 DEF tables, ItemsCounted, BytesCounted, ReplaysAreAudited
  <2>4. AggregatesCoverAudit' /\ IsFiniteSet(audit')
    BY <2>1 DEF tables, AggregatesCoverAudit
  <2> QED
    BY <2>2, <2>3, <2>4
<1>2. CASE ImportCommits(st)
  <2> DEFINE new == ImportedRows(st)
             row(w) == [id |-> w.id, scope |-> w.scope, body |-> w.body, tags |-> w.tags,
                        meta |-> w.meta, pending |-> w.pending, access |-> 0]
             vec(w, b) == [id |-> w.id, scope |-> w.scope, of |-> b]
  <2>1. /\ items' = items \cup new
        /\ vectors' = vectors \cup UNION {{vec(w, b) : b \in w.vector} : w \in NewItems(st)}
        /\ capacity' = [s \in Scopes |->
             Adjusted(capacity[s], Cardinality(Ids(InScope(new, s))),
                      TotalCharge(InScope(new, s)))]
        /\ audit' = audit \cup st.audits
        /\ aggregates' = Counted(aggregates, st.audits)
        /\ UNCHANGED <<idempotency, minted>>
    BY <1>2 DEF Import, ImportCommit, ImportedVectors, AuditInserted
  <2>2. /\ \A w \in NewItems(st) : w \in ExportItem /\ Offered(w) /\ w.id \notin Ids(items)
        /\ \A v, w \in NewItems(st) : v.id = w.id => v = w
        /\ st.audits \subseteq AuditRow
        /\ \A a \in st.audits : a.id < 0
        /\ \A a, b \in st.audits : a.id = b.id => a = b
        /\ IsFiniteSet(st.audits)
    BY <1>2 DEF SoundStreams, ImportCommits, NewItems, ImportStream
  <2>3. new = {row(w) : w \in NewItems(st)}
    BY DEF ImportedRows
  <2>4. new \subseteq ItemRow
    BY <2>2, <2>3 DEF ExportItem, ItemRow
  <2>5. \A q, r \in new : q.id = r.id => q = r
    BY <2>2, <2>3
  <2>6. Ids(items) \cap Ids(new) = {}
    BY <2>2, <2>3 DEF Ids
  <2>7. \A v \in vectors : v.id \in Ids(items)
    BY DEF VectorsFollowItems, Ids
  <2>8. AggregatesCoverAudit' /\ IsFiniteSet(audit') /\ aggregates' \in [AggregateKeys -> Nat]
    BY <2>1, <2>2, AuditStaysCovered
  <2>9. AuditIdsMinted'
    <3>1. \A a \in st.audits : a.id =< minted
      BY <2>2 DEF TypeOK, AuditRow
    <3> QED
      BY <2>1, <3>1 DEF AuditIdsMinted
  <2>10. \A a, b \in audit' : a.id = b.id => a = b
    BY <1>2, <2>1, <2>2 DEF ImportCommits, Ids, PrimaryKeys
  <2>11. VectorsFollowItems' /\ vectors' \subseteq VectorRow
         /\ \A u, v \in vectors' : u.id = v.id => u = v
    <3>1. \A w \in NewItems(st) : /\ row(w) \in new /\ row(w).id = w.id
                                   /\ w.id \notin Ids(items) /\ \A b \in w.vector : w.vector = {b}
      <4>1. \A w \in NewItems(st) : w.vector \in AtMostOne(Bodies)
        BY <2>2 DEF ExportItem
      <4>2. \A w \in NewItems(st) : \A b \in w.vector : w.vector = {b}
        BY <4>1 DEF AtMostOne
      <4> QED
        BY <2>2, <2>3, <4>2
    <3>2. \A w \in NewItems(st) : \A b \in w.vector : vec(w, b) \in VectorRow
      BY <2>2 DEF VectorRow, ExportItem, AtMostOne
    <3>3. ASSUME NEW v \in vectors', v \notin vectors
          PROVE  \E w \in NewItems(st) : w.vector = {v.of} /\ v.id = w.id /\ v.scope = w.scope
      <4>1. PICK w \in NewItems(st) : \E b \in w.vector : v = vec(w, b)
        BY <2>1, <3>3
      <4>2. PICK b \in w.vector : v = vec(w, b)
        BY <4>1
      <4>3. w.vector = {b}
        BY <3>1
      <4>4. v.of = b /\ v.id = w.id /\ v.scope = w.scope
        BY <4>2
      <4> QED
        BY <4>3, <4>4
    <3>4. \A v \in vectors' : \E r \in items' : r.id = v.id /\ r.scope = v.scope
      <4>1. \A w \in NewItems(st) : row(w) \in items' /\ row(w).id = w.id /\ row(w).scope = w.scope
        BY <2>1, <3>1
      <4>2. \A w \in NewItems(st) : \E r \in items' : r.id = w.id /\ r.scope = w.scope
        BY <4>1
      <4>3. \A v \in vectors : \E r \in items' : r.id = v.id /\ r.scope = v.scope
        BY <2>1 DEF VectorsFollowItems
      <4> QED
        BY <3>3, <4>2, <4>3
    <3>5. \A r \in items : FoundFor(vectors', r) = FoundFor(vectors, r)
      <4> TAKE r \in items
      <4> DEFINE known == Ids(items)
      <4>0. r.id \in known
        BY DEF Ids
      <4> HIDE DEF known
      <4>1. \A v \in vectors' : v.id = r.id => v \in vectors
        <5>1. \A w \in NewItems(st) : w.id \notin known
          BY <3>1 DEF known
        <5> QED
          BY <3>3, <4>0, <5>1
      <4>2. \A v : v.id = r.id => (v \in vectors' <=> v \in vectors)
        BY <2>1, <4>1
      <4> QED
        BY <4>2, SameFound
    <3>6. ASSUME NEW w \in NewItems(st) PROVE FoundFor(vectors', row(w)) = w.vector
      <4> PICK r : r = row(w)
        OBVIOUS
      <4>1. r.id = w.id
        BY <3>1
      <4>2. \A v \in vectors' : v.id = w.id => v \notin vectors
        BY <2>7, <3>1
      <4>3. \A v \in vectors' : v.id = w.id => w.vector = {v.of}
        BY <2>2, <3>3, <4>2
      <4>4. CASE w.vector = {}
        BY <4>1, <4>3, <4>4 DEF FoundFor
      <4>5. ASSUME NEW b \in w.vector PROVE FoundFor(vectors', r) = w.vector
        <5>1. vec(w, b) \in vectors' /\ vec(w, b).id = w.id /\ vec(w, b).of = b
          BY <2>1
        <5>2. PICK v \in vectors' : v.id = w.id /\ v.of = b
          BY <5>1
        <5>3. \A u \in vectors' : u.id = r.id => u.of = v.of
          BY <4>1, <4>3, <5>2
        <5>4. FoundFor(vectors', r) = {v.of}
          BY <4>1, <5>2, <5>3, OneFound
        <5> QED
          BY <4>3, <5>2, <5>4
      <4> QED
        BY <4>4, <4>5
    <3>7. ASSUME NEW w \in NewItems(st) PROVE AsImported(row(w), FoundFor(vectors', row(w)))
      <4>1. Offered(w)
        BY <2>2
      <4>2. \A r : (r.id = w.id /\ r.scope = w.scope /\ r.body = w.body /\ r.pending = w.pending)
                     => AsImported(r, w.vector)
        BY <4>1 DEF Offered, AsImported
      <4>3. AsImported(row(w), w.vector)
        BY <4>2
      <4> HIDE DEF row
      <4> QED
        BY <3>6, <4>3
    <3>8. \A r \in items' : FoundFor(vectors', r) = Exact(r) \/ AsImported(r, FoundFor(vectors', r))
      BY <2>1, <2>3, <3>5, <3>7 DEF VectorsFollowItems
    <3>9. vectors' \subseteq VectorRow
      BY <2>1, <3>2 DEF TypeOK
    <3>10. \A u, v \in vectors' : u.id = v.id => u = v
      <4>1. \A v \in vectors' : v \in vectors => v.id \in Ids(items)
        BY <2>7
      <4>2. \A v \in vectors' : v \notin vectors => v.id \notin Ids(items)
        BY <3>1, <3>3
      <4>3. ASSUME NEW u \in vectors', NEW v \in vectors', u \notin vectors, v \notin vectors,
                   u.id = v.id
            PROVE  u = v
        <5>1. PICK w \in NewItems(st) : w.vector = {v.of} /\ v.id = w.id /\ v.scope = w.scope
          BY <3>3, <4>3
        <5>2. PICK x \in NewItems(st) : x.vector = {u.of} /\ u.id = x.id /\ u.scope = x.scope
          BY <3>3, <4>3
        <5>3. x = w
          BY <2>2, <4>3, <5>1, <5>2
        <5>4. u \in VectorRow /\ v \in VectorRow
          BY <3>9
        <5> QED
          BY <5>1, <5>2, <5>3, <5>4 DEF VectorRow
      <4> QED
        BY <4>1, <4>2, <4>3 DEF PrimaryKeys
    <3> QED
      BY <3>4, <3>8, <3>9, <3>10 DEF VectorsFollowItems
  <2> HIDE DEF new
  <2>12. ASSUME NEW s \in Scopes
         PROVE  /\ capacity'[s] \in CapacityRow
                /\ capacity'[s].items = Cardinality(Ids(InScope(items', s)))
                /\ capacity'[s].bytes = TotalCharge(InScope(items', s))
    <3> DEFINE A == InScope(items, s)
               B == InScope(new, s)
    <3>1. WellKeyed(A) /\ WellKeyed(B)
      <4>1. A \subseteq items /\ B \subseteq new
        BY DEF InScope
      <4>2. \A r \in new : r.id \in ItemIds /\ r.body \in Bodies /\ r.tags \in SUBSET Tags
        BY <2>4 DEF ItemRow
      <4> HIDE DEF A, B
      <4> QED
        BY <2>5, <4>1, <4>2, ItemsWellKeyed DEF WellKeyed
    <3>2. Ids(A) \cap Ids(B) = {}
      BY <2>6 DEF Ids, InScope
    <3>3. InScope(items', s) = A \cup B
      BY <2>1 DEF InScope
    <3>4. capacity'[s] = Adjusted(capacity[s], Cardinality(Ids(B)), TotalCharge(B))
      BY <2>1
    <3>5. /\ capacity[s] \in CapacityRow
          /\ capacity[s].items = Cardinality(Ids(A))
          /\ capacity[s].bytes = TotalCharge(A)
      BY DEF TypeOK, ItemsCounted, BytesCounted
    <3> HIDE DEF A, B
    <3>6. /\ WellKeyed(A \cup B)
          /\ Cardinality(Ids(A \cup B)) = Cardinality(Ids(A)) + Cardinality(Ids(B))
          /\ TotalCharge(A \cup B) = TotalCharge(A) + TotalCharge(B)
      BY <3>1, <3>2, RowsAddUp
    <3>7. Cardinality(Ids(A \cup B)) \in Nat /\ TotalCharge(A \cup B) \in Nat
      BY <3>6, IdsFinite, UnitsFinite
    <3>8. capacity'[s] = [budget |-> capacity[s].budget,
                          items |-> Cardinality(Ids(A \cup B)),
                          bytes |-> TotalCharge(A \cup B)]
      BY <3>4, <3>5, <3>6, <3>7, AdjustedIs
    <3> QED
      BY <3>3, <3>5, <3>7, <3>8 DEF CapacityRow
  <2>13. capacity' \in [Scopes -> CapacityRow]
    <3>1. capacity' = [s \in Scopes |-> capacity'[s]]
      BY <2>1
    <3> QED
      BY <2>12, <3>1
  <2>14. ItemsCounted' /\ BytesCounted'
    BY <2>12 DEF ItemsCounted, BytesCounted
  <2>15. ReplaysAreAudited'
    BY <2>1 DEF ReplaysAreAudited
  <2>16. TypeOK'
    BY <2>1, <2>2, <2>4, <2>8, <2>11, <2>13 DEF TypeOK
  <2>17. PrimaryKeys'
    <3>1. \A q, r \in items' : q.id = r.id => q = r
      BY <2>1, <2>5, <2>6 DEF PrimaryKeys, Ids
    <3> QED
      BY <2>1, <2>10, <2>11, <3>1 DEF PrimaryKeys
  <2> QED
    BY <2>8, <2>9, <2>11, <2>14, <2>15, <2>16, <2>17
<1> QED
  BY <1>1, <1>2

-----------------------------------------------------------------------------
(* The theorems.                                                           *)

LEMMA InitIInv == Init => IInv
<1> SUFFICES ASSUME Init PROVE IInv
  OBVIOUS
<1> USE DEF Init
<1>1. NoCapacity \in CapacityRow
  BY StoreAssumption DEF NoCapacity, CapacityRow
<1>2. TypeOK
  BY <1>1 DEF TypeOK
<1>3. PrimaryKeys /\ VectorsFollowItems /\ ReplaysAreAudited /\ AuditIdsMinted
  BY DEF PrimaryKeys, VectorsFollowItems, ReplaysAreAudited, AuditIdsMinted
<1>4. ItemsCounted /\ BytesCounted
  <2>1. \A s \in Scopes : InScope(items, s) = {}
    BY DEF InScope
  <2> QED
    BY <2>1, NothingCounted DEF ItemsCounted, BytesCounted, NoCapacity
<1>5. AggregatesCoverAudit /\ IsFiniteSet(audit)
  <2>1. \A k \in AggregateKeys : {a \in audit : KeyOf(a) = k} = {}
    OBVIOUS
  <2> QED
    BY <2>1, FS_EmptySet DEF AggregatesCoverAudit
<1> QED
  BY <1>2, <1>3, <1>4, <1>5 DEF IInv

LEMMA StutterKeeps ==
  ASSUME IInv, UNCHANGED vars
  PROVE  IInv'
<1> USE DEF IInv, vars, tables
<1>1. TypeOK' /\ PrimaryKeys' /\ VectorsFollowItems' /\ AuditIdsMinted'
  BY DEF TypeOK, PrimaryKeys, VectorsFollowItems, AuditIdsMinted
<1>2. ItemsCounted' /\ BytesCounted' /\ ReplaysAreAudited'
  BY DEF ItemsCounted, BytesCounted, ReplaysAreAudited
<1>3. AggregatesCoverAudit' /\ IsFiniteSet(audit')
  BY DEF AggregatesCoverAudit
<1> QED
  BY <1>1, <1>2, <1>3

LEMMA NextKeeps == IInv /\ [Next]_vars => IInv'
<1> SUFFICES ASSUME IInv, [Next]_vars PROVE IInv'
  OBVIOUS
<1>1. CASE DoApply
  BY <1>1, ApplyKeeps, CallersAreSound DEF DoApply
<1>2. CASE DoRecall
  BY <1>2, RecallKeeps, StoreAssumption DEF DoRecall
<1>3. CASE DoSetBudget
  BY <1>3, SetBudgetKeeps, StoreAssumption DEF DoSetBudget
<1>4. CASE DoPurge
  BY <1>4, PurgeKeeps, StoreAssumption DEF DoPurge
<1>5. CASE DoImport
  BY <1>5, ImportKeeps, CallersAreSound DEF DoImport
<1>6. CASE UNCHANGED vars
  BY <1>6, StutterKeeps
<1> QED
  BY <1>1, <1>2, <1>3, <1>4, <1>5, <1>6 DEF Next

(* The strengthening of the store's invariants holds in every state.       *)
THEOREM Invariant == Spec => []IInv
BY InitIInv, NextKeeps, PTL DEF Spec

(* A primary key names one row in every table, and every column keeps its  *)
(* type, whatever the callers send.                                        *)
THEOREM SchemaIsKept == Spec => []SchemaHolds
<1>1. IInv => SchemaHolds
  BY DEF IInv, SchemaHolds
<1> QED
  BY <1>1, Invariant, PTL

(* Vector search never finds a body that was forgotten, merged or replaced. *)
THEOREM VectorsAreCurrent == Spec => []VectorsFollowItems
<1>1. IInv => VectorsFollowItems
  BY DEF IInv
<1> QED
  BY <1>1, Invariant, PTL

(* The counters admission reads are the rows that are there.               *)
THEOREM CapacityIsExact == Spec => []CapacityCounted
<1>1. IInv => CapacityCounted
  BY DEF IInv, CapacityCounted
<1> QED
  BY <1>1, Invariant, PTL

(* What a retry is told happened is in the audit trail.                    *)
THEOREM ReplaysHaveAudit == Spec => []ReplaysAreAudited
<1>1. IInv => ReplaysAreAudited
  BY DEF IInv
<1> QED
  BY <1>1, Invariant, PTL

(* The aggregates never fall behind the audit rows there are.              *)
THEOREM AggregatesCover == Spec => []AggregatesCoverAudit
<1>1. IInv => AggregatesCoverAudit
  BY DEF IInv
<1> QED
  BY <1>1, Invariant, PTL

-----------------------------------------------------------------------------
(* History: what has been recorded stays.                                  *)

LEMMA CountsOnlyGrow ==
  ASSUME TypeOK, NEW rows, IsFiniteSet(rows), aggregates' = Counted(aggregates, rows)
  PROVE  \A k \in AggregateKeys : aggregates'[k] >= aggregates[k]
<1> SUFFICES ASSUME NEW k \in AggregateKeys PROVE aggregates'[k] >= aggregates[k]
  OBVIOUS
<1> DEFINE n == Cardinality({a \in rows : KeyOf(a) = k})
<1>1. n \in Nat
  BY FS_Subset, FS_CardinalityType
<1>2. aggregates'[k] = aggregates[k] + n
  BY DEF Counted
<1>3. aggregates[k] \in Nat
  BY DEF TypeOK
<1> QED
  BY <1>1, <1>2, <1>3

(* A step that adds to the audit and the keys, and takes nothing.          *)
LEMMA AddingKeepsHistory ==
  ASSUME TypeOK, NEW rows, IsFiniteSet(rows), aggregates' = Counted(aggregates, rows),
         audit \subseteq audit', idempotency \subseteq idempotency'
  PROVE  HistoryKept
BY CountsOnlyGrow DEF HistoryKept

LEMMA PurgeKeepsHistory ==
  ASSUME IInv, NEW s \in Scopes, NEW cascade, NEW m,
         PurgeSubject(SubjectOf(s), cascade, s, minted + 1, m)
  PROVE  HistoryKept
<1> DEFINE j == SubjectOf(s)
           marker == [id |-> minted + 1, scope |-> s, event |-> "SubjectPurged", items |-> {},
                      meta |-> m]
<1>1. /\ audit' = PurgedAudit(j, cascade) \cup {marker}
      /\ idempotency' = idempotency \ OfSubject(idempotency, j)
      /\ aggregates' = Counted(aggregates, {marker})
  BY DEF PurgeSubject, PurgedIdempotency
<1>2. \A k \in AggregateKeys : aggregates'[k] >= aggregates[k]
  BY <1>1, FS_Singleton, CountsOnlyGrow DEF IInv
<1>3. marker \in audit' \ audit
  BY <1>1 DEF IInv, AuditIdsMinted, TypeOK
<1>4. marker.event = "SubjectPurged" /\ SubjectOf(marker.scope) = j
  OBVIOUS
<1>5. \A r \in (audit \ audit') \cup (idempotency \ idempotency') : SubjectOf(r.scope) = j
  BY <1>1 DEF PurgedAudit, OfSubject
<1> QED
  BY <1>2, <1>3, <1>4, <1>5 DEF HistoryKept

LEMMA ApplyKeepsHistory ==
  ASSUME IInv, NEW t, Apply(t, minted + 1)
  PROVE  HistoryKept
<1> USE DEF IInv
<1>1. CASE Commits(t)
  <2> DEFINE row == [id |-> minted + 1, scope |-> t.auditScope, event |-> t.event,
                     items |-> t.refs, meta |-> t.auditMeta]
  <2>1. /\ audit \subseteq audit' /\ idempotency \subseteq idempotency'
        /\ aggregates' = Counted(aggregates, {row})
    BY <1>1 DEF Apply, ApplyCommit, AuditInserted
  <2> QED
    BY <2>1, FS_Singleton, AddingKeepsHistory
<1>2. CASE ~Commits(t)
  <2>1. UNCHANGED <<audit, idempotency, aggregates>>
    BY <1>2 DEF Apply, tables
  <2> QED
    BY <2>1 DEF HistoryKept, TypeOK
<1> QED
  BY <1>1, <1>2

LEMMA RecallKeepsHistory ==
  ASSUME IInv, NEW s, NEW refs, NEW m, RecordRecall(s, refs, minted + 1, m)
  PROVE  HistoryKept
<1> DEFINE row == [id |-> minted + 1, scope |-> s, event |-> "Recalled",
                   items |-> refs, meta |-> m]
<1>1. /\ audit \subseteq audit' /\ idempotency \subseteq idempotency'
      /\ aggregates' = Counted(aggregates, {row})
  BY DEF RecordRecall, AuditInserted
<1> QED
  BY <1>1, FS_Singleton, AddingKeepsHistory DEF IInv

LEMMA SetBudgetKeepsHistory ==
  ASSUME IInv, NEW s, NEW b, SetBudget(s, b)
  PROVE  HistoryKept
BY DEF IInv, SetBudget, HistoryKept, TypeOK

LEMMA ImportKeepsHistory ==
  ASSUME IInv, NEW st, IsFiniteSet(st.audits), Import(st)
  PROVE  HistoryKept
<1> USE DEF IInv
<1>1. CASE ImportCommits(st)
  <2>1. /\ audit \subseteq audit' /\ idempotency \subseteq idempotency'
        /\ aggregates' = Counted(aggregates, st.audits)
    BY <1>1 DEF Import, ImportCommit, AuditInserted
  <2> QED
    BY <2>1, AddingKeepsHistory
<1>2. CASE ~ImportCommits(st)
  <2>1. UNCHANGED <<audit, idempotency, aggregates>>
    BY <1>2 DEF Import, tables
  <2> QED
    BY <2>1 DEF HistoryKept, TypeOK
<1> QED
  BY <1>1, <1>2

LEMMA StepKeepsHistory == IInv /\ [Next]_vars => [HistoryKept]_vars
<1> SUFFICES ASSUME IInv, Next PROVE HistoryKept
  OBVIOUS
<1>1. CASE DoApply
  BY <1>1, ApplyKeepsHistory DEF DoApply
<1>2. CASE DoRecall
  BY <1>2, RecallKeepsHistory DEF DoRecall
<1>3. CASE DoSetBudget
  BY <1>3, SetBudgetKeepsHistory DEF DoSetBudget
<1>4. CASE DoPurge
  BY <1>4, PurgeKeepsHistory, StoreAssumption DEF DoPurge
<1>5. CASE DoImport
  BY <1>5, ImportKeepsHistory, StoreAssumption DEF DoImport
<1> QED
  BY <1>1, <1>2, <1>3, <1>4, <1>5 DEF Next

(* What has been recorded stays: only a purge takes audit rows and the     *)
(* outcomes of keys, and it takes its subject's; no aggregate ever falls.  *)
THEOREM HistoryStays == Spec => HistoryIsPermanent
BY Invariant, StepKeepsHistory, PTL DEF Spec, HistoryIsPermanent
=============================================================================
