----------------------------- MODULE EngineAlone -----------------------------
(***************************************************************************)
(* Theorems about module Engine with a single caller: what it promises of  *)
(* erasure, pins, budgets, protection, folded content and maintenance,     *)
(* which a second caller may undo (the runs budget_race and forget_race).  *)
(* A call reads and writes in steps; with nobody else writing, what it     *)
(* read is still so when it writes, also many transactions later.          *)
(***************************************************************************)
EXTENDS EngineProofs

-----------------------------------------------------------------------------
(* The inductive invariant.                                                *)

OneCaller == \A c, d \in Callers : c = d

(* The rows of scope s among those, or not among those, an id set names.   *)
Named(rows, s, E) == {r \in InScope(rows, s) : r.id \in E}
Unnamed(rows, s, E) == {r \in InScope(rows, s) : r.id \notin E}

(* The rows a transaction that commits leaves.                             *)
Result(t) == ((Kept(t) \ Targets(t)) \cup Inserted(t)) \cup Merged(t)

IsFold(t) == t.event = "Merged" /\ t.refs # {}
IsAdmissionMerge(t) == t.event = "Merged" /\ t.refs = {}

(* A pin that outlived its ttl, whose room maintenance counts as freed.    *)
SpentPin(rows) == \E r \in rows : r.meta.prot = Never /\ MustForget(r)

(* The rows are within what scope s may hold.                              *)
Fit(rows, s) ==
  Within([budget |-> capacity[s].budget, items |-> Cardinality(Ids(rows)),
          bytes |-> TotalCharge(rows)])

NoneErased(t) == Ids(t.upsert) \cap erased = {}
ForgetsItsRefs(t, q) ==
  t.event = "Forgotten" => t.upsert = {} /\ q.op = "forget" /\ t.evictions \subseteq t.refs
SparesPins(t, q) ==
  t.event # "Forgotten" =>
    \A r \in Named(items, q.scope, t.evictions) : r.id \in Ids(t.upsert) \/ r.meta.prot # Never
ProtectsByName(t) ==
  \A w \in t.upsert :
    \/ t.event = "Admitted" /\ w.id \in t.refs
    \/ \E r \in items : r.id = w.id /\ r.scope = w.scope /\ r.meta.prot = w.meta.prot
LosesNothing(t, q) ==
  IsFold(t) => /\ t.upsert = {} /\ t.merge # {}
               /\ \A m \in t.merge : \A r \in Named(items, q.scope, t.evictions \cup {m.target}) :
                    r.body \subseteq m.body
StaysWithin(t, q) ==
  ~IsAdmissionMerge(t) /\ Fit(InScope(items, q.scope), q.scope) =>
    Fit(InScope(Result(t), q.scope), q.scope)
Reclaims(t, q) ==
  t.event = "MaintenanceRun" =>
    /\ t.upsert = {} /\ t.merge = {}
    /\ LET left == Unnamed(items, q.scope, t.evictions) IN
       /\ \A r \in left : r.meta.prot = 0 => r.meta.expires # 0
       /\ \/ \A r \in left : r.meta.prot # 0
          \/ Fit(left, q.scope)
          \/ SpentPin(left)

Faithful(t, q) ==
  /\ NoneErased(t) /\ ForgetsItsRefs(t, q) /\ SparesPins(t, q) /\ ProtectsByName(t)
  /\ LosesNothing(t, q) /\ StaysWithin(t, q) /\ Reclaims(t, q)

(* A merge still to be carried out.                                        *)
MergeDue(p, s, rows) ==
  /\ p[1].id # p[2].id
  /\ \E r \in InScope(rows, s) :
       r.id = p[1].id /\ r.body = p[1].body /\ r.tags = p[1].tags /\ r.meta.prot # Never

Apart(p, o) == {p[1].id, p[2].id} \cap {o[1].id, o[2].id} = {}

(* The run of maintenance still to be filed.                               *)
RunDue(t, m, s, rows) ==
  LET left == Unnamed(rows, s, t.evictions) IN
  /\ t.event = "MaintenanceRun" /\ t.upsert = {} /\ t.merge = {}
  /\ \A r \in Named(rows, s, t.evictions) : r.meta.prot # Never
  /\ \A p \in m.merges : {p[1].id, p[2].id} \cap t.evictions = {}
  /\ \A g \in m.grants : g.prot # Never
  /\ \A g \in m.grants, r \in InScope(rows, s) : r.id = g.id => r.meta.prot # Never
  /\ \A r \in left : r.meta.expires = 0 => r.meta.prot = Never
  /\ \/ \A r \in left : r.meta.prot # 0 /\ \A g \in m.grants : g.id = r.id => g.prot # 0
     \/ Fit(left, s)
     \/ SpentPin(left)

WorkOK(m, q, rows) ==
  /\ m.rows \subseteq rows
  /\ m.rows # {} => m.merges = {} /\ m.grants = {} /\ m.last = {}
  /\ \A p \in m.merges : MergeDue(p, q.scope, rows)
  /\ \A p, o \in m.merges : p # o => Apart(p, o)
  /\ \A t \in m.last : RunDue(t, m, q.scope, rows)

NoWork(m) == m.rows = {} /\ m.merges = {} /\ m.grants = {} /\ m.last = {}

AloneOK(p, q, m) ==
  /\ p \in {"candidates", "decide"} => m.capacity = capacity[q.scope]
  /\ q.op = "maintain" /\ p \in {"capacity", "decide"} => m.seen = InScope(items, q.scope)
  /\ p \in {"target", "apply"} => \A t \in m.txn : Faithful(t, q)
  /\ p = "work" => WorkOK(m, q, items)
  /\ p = "apply" => \A t \in m.txn : WorkOK(m, q, Result(t))
  /\ p \notin {"work", "apply", "replay"} => NoWork(m)

AloneInv ==
  /\ erased \subseteq allocated
  /\ ErasedStaysErased
  /\ \A c \in Callers : AloneOK(pc[c], req[c], mem[c])

-----------------------------------------------------------------------------
(* Sets of rows: how many they are and what they are charged.              *)

Count(rows) == Cardinality(Ids(rows))

LEMMA CountsAre ==
  ASSUME NEW rows, WellKeyed(rows)
  PROVE  Count(rows) \in Nat /\ TotalCharge(rows) \in Nat
BY IdsFinite, UnitsFinite DEF Count

LEMMA PartIsKeyed ==
  ASSUME NEW rows, WellKeyed(rows), NEW part, part \subseteq rows
  PROVE  WellKeyed(part)
BY DEF WellKeyed

LEMMA OneRow ==
  ASSUME NEW r, r.id \in ItemIds, r.body \in Bodies, r.tags \in SUBSET Tags
  PROVE  WellKeyed({r}) /\ Ids({r}) = {r.id} /\ Count({r}) = 1 /\ TotalCharge({r}) = Charge(r)
<1>1. WellKeyed({r})
  BY DEF WellKeyed
<1>2. Ids({r}) = {r.id}
  BY DEF Ids
<1>3. Count({r}) = 1
  BY <1>2, FS_Singleton DEF Count
<1> PICK n : n = Charge(r)
  OBVIOUS
<1>4. n \in Nat
  BY ChargeIsNat
<1>5. Units({r}) = {r.id} \X (1..n)
  BY DEF Units
<1>6. IsFiniteSet(1..n) /\ Cardinality(1..n) = n
  BY <1>4, FS_Interval
<1>7. IsFiniteSet({r.id}) /\ Cardinality({r.id}) = 1
  BY FS_Singleton
<1> PICK A, B : A = {r.id} /\ B = 1..n
  OBVIOUS
<1>8. Cardinality(A \X B) = Cardinality(A) * Cardinality(B)
  BY <1>6, <1>7, FS_Product
<1>9. TotalCharge({r}) = Cardinality(A \X B)
  BY <1>5 DEF TotalCharge
<1>10. TotalCharge({r}) = n
  BY <1>4, <1>6, <1>7, <1>8, <1>9
<1> QED
  BY <1>1, <1>2, <1>3, <1>10

(* A part of the rows and the rest of them.                                *)
LEMMA Split ==
  ASSUME NEW rows, WellKeyed(rows), NEW part, part \subseteq rows
  PROVE  /\ WellKeyed(part) /\ WellKeyed(rows \ part)
         /\ Ids(part) \cap Ids(rows \ part) = {}
         /\ Count(rows) = Count(part) + Count(rows \ part)
         /\ TotalCharge(rows) = TotalCharge(part) + TotalCharge(rows \ part)
<1>1. WellKeyed(part) /\ WellKeyed(rows \ part)
  BY PartIsKeyed
<1>2. Ids(part) \cap Ids(rows \ part) = {}
  BY DEF Ids, WellKeyed
<1>3. rows = part \cup (rows \ part)
  OBVIOUS
<1> PICK rest : rest = rows \ part
  OBVIOUS
<1>4. /\ Cardinality(Ids(part \cup rest)) = Cardinality(Ids(part)) + Cardinality(Ids(rest))
      /\ TotalCharge(part \cup rest) = TotalCharge(part) + TotalCharge(rest)
  BY <1>1, <1>2, RowsAddUp
<1> QED
  BY <1>1, <1>2, <1>3, <1>4 DEF Count

LEMMA CountIsCardinality ==
  ASSUME NEW rows, WellKeyed(rows)
  PROVE  Cardinality(rows) = Count(rows)
<1> DEFINE f == [r \in rows |-> r.id]
<1>1. f \in Bijection(rows, Ids(rows))
  <2>1. f \in [rows -> Ids(rows)]
    BY DEF Ids
  <2>2. f \in Injection(rows, Ids(rows))
    BY <2>1 DEF Injection, IsInjective, WellKeyed
  <2>3. f \in Surjection(rows, Ids(rows))
    BY <2>1 DEF Surjection, Ids
  <2> QED
    BY <2>2, <2>3 DEF Bijection
<1>2. IsFiniteSet(rows)
  BY RowsFinite
<1>3. ExistsBijection(rows, Ids(rows))
  BY <1>1 DEF ExistsBijection
<1>4. Cardinality(Ids(rows)) = Cardinality(rows)
  BY <1>2, <1>3, FS_Bijection
<1> QED
  BY <1>4 DEF Count

(* One row more.                                                           *)
LEMMA RowAdded ==
  ASSUME NEW rows, WellKeyed(rows),
         NEW r, r.id \in ItemIds, r.body \in Bodies, r.tags \in SUBSET Tags, r.id \notin Ids(rows)
  PROVE  /\ WellKeyed(rows \cup {r})
         /\ Count(rows \cup {r}) = Count(rows) + 1
         /\ TotalCharge(rows \cup {r}) = TotalCharge(rows) + Charge(r)
<1>1. WellKeyed({r}) /\ Ids({r}) = {r.id} /\ Count({r}) = 1 /\ TotalCharge({r}) = Charge(r)
  BY OneRow
<1> PICK one : one = {r}
  OBVIOUS
<1>2. Ids(rows) \cap Ids(one) = {}
  BY <1>1
<1>3. /\ WellKeyed(rows \cup one)
      /\ Cardinality(Ids(rows \cup one)) = Cardinality(Ids(rows)) + Cardinality(Ids(one))
      /\ TotalCharge(rows \cup one) = TotalCharge(rows) + TotalCharge(one)
  BY <1>1, <1>2, RowsAddUp
<1> QED
  BY <1>1, <1>3 DEF Count

(* One row written again under its id, with a body and tags charged alike. *)
LEMMA RowSwapped ==
  ASSUME NEW rows, WellKeyed(rows), NEW r \in rows, NEW v, v.id = r.id, v.body = r.body,
         v.tags = r.tags
  PROVE  /\ WellKeyed((rows \ {r}) \cup {v})
         /\ Count((rows \ {r}) \cup {v}) = Count(rows)
         /\ TotalCharge((rows \ {r}) \cup {v}) = TotalCharge(rows)
<1>1. r.id \in ItemIds /\ r.body \in Bodies /\ r.tags \in SUBSET Tags
  BY DEF WellKeyed
<1>2. Charge(v) = Charge(r)
  BY DEF Charge
<1> PICK one, rest : one = {r} /\ rest = rows \ one
  OBVIOUS
<1>3. /\ WellKeyed(rest) /\ Ids(one) \cap Ids(rest) = {}
      /\ Count(rows) = Count(one) + Count(rest)
      /\ TotalCharge(rows) = TotalCharge(one) + TotalCharge(rest)
  BY Split
<1>4. Ids(one) = {r.id} /\ Count(one) = 1 /\ TotalCharge(one) = Charge(r)
  BY <1>1, OneRow
<1>5. v.id \notin Ids(rest)
  BY <1>3, <1>4
<1>6. /\ WellKeyed(rest \cup {v})
      /\ Count(rest \cup {v}) = Count(rest) + 1
      /\ TotalCharge(rest \cup {v}) = TotalCharge(rest) + Charge(v)
  BY <1>1, <1>3, <1>5, RowAdded
<1>7. Count(rest) \in Nat /\ TotalCharge(rest) \in Nat /\ Charge(r) \in Nat
  BY <1>1, <1>3, CountsAre, ChargeIsNat
<1>8. (rows \ {r}) \cup {v} = rest \cup {v}
  OBVIOUS
<1>9. Count(rest \cup {v}) = Count(rows)
  <2>1. Count(rows) = 1 + Count(rest) /\ Count(rest \cup {v}) = Count(rest) + 1
    BY <1>3, <1>4, <1>6
  <2> QED
    BY <1>7, <2>1
<1>10. TotalCharge(rest \cup {v}) = TotalCharge(rows)
  <2>1. /\ TotalCharge(rows) = Charge(r) + TotalCharge(rest)
        /\ TotalCharge(rest \cup {v}) = TotalCharge(rest) + Charge(r)
    BY <1>2, <1>3, <1>4, <1>6
  <2> QED
    BY <1>7, <2>1
<1> QED
  BY <1>6, <1>8, <1>9, <1>10

(* One row folded into another, which takes no more room than the two did. *)
LEMMA RowFolded ==
  ASSUME NEW rows, WellKeyed(rows), NEW a \in rows, NEW b \in rows, a.id # b.id,
         NEW v, v.id = b.id, v.body \in Bodies, v.tags \in SUBSET Tags,
         Charge(v) =< Charge(a) + Charge(b)
  PROVE  /\ WellKeyed((rows \ {a, b}) \cup {v})
         /\ Count((rows \ {a, b}) \cup {v}) =< Count(rows)
         /\ TotalCharge((rows \ {a, b}) \cup {v}) =< TotalCharge(rows)
<1>1. /\ a.id \in ItemIds /\ a.body \in Bodies /\ a.tags \in SUBSET Tags
      /\ b.id \in ItemIds /\ b.body \in Bodies /\ b.tags \in SUBSET Tags
  BY DEF WellKeyed
<1> PICK A, B, R1 : A = {a} /\ B = {b} /\ R1 = rows \ A
  OBVIOUS
<1> PICK R2 : R2 = R1 \ B
  OBVIOUS
<1>2. /\ WellKeyed(R1) /\ Count(rows) = Count(A) + Count(R1)
      /\ TotalCharge(rows) = TotalCharge(A) + TotalCharge(R1)
  BY Split
<1>3. B \subseteq R1
  OBVIOUS
<1>12. /\ WellKeyed(R1 \ B) /\ Ids(B) \cap Ids(R1 \ B) = {}
      /\ Count(R1) = Count(B) + Count(R1 \ B)
      /\ TotalCharge(R1) = TotalCharge(B) + TotalCharge(R1 \ B)
  <2>1. WellKeyed(R1)
    BY <1>2
  <2> QED
    BY ONLY <2>1, <1>3, Split
<1>4. /\ WellKeyed(R2) /\ Ids(B) \cap Ids(R2) = {} /\ Count(R1) = Count(B) + Count(R2)
      /\ TotalCharge(R1) = TotalCharge(B) + TotalCharge(R2)
  BY <1>12
<1>5. /\ Ids(B) = {b.id} /\ Count(A) = 1 /\ TotalCharge(A) = Charge(a)
      /\ Count(B) = 1 /\ TotalCharge(B) = Charge(b)
  BY <1>1, OneRow
<1>6. v.id \notin Ids(R2)
  BY <1>4, <1>5
<1>7. /\ WellKeyed(R2 \cup {v})
      /\ Count(R2 \cup {v}) = Count(R2) + 1
      /\ TotalCharge(R2 \cup {v}) = TotalCharge(R2) + Charge(v)
  BY <1>1, <1>4, <1>6, RowAdded
<1>8. /\ Count(R2) \in Nat /\ TotalCharge(R2) \in Nat /\ Charge(a) \in Nat /\ Charge(b) \in Nat
      /\ Charge(v) \in Nat
  BY <1>1, <1>4, CountsAre, ChargeIsNat
<1>9. (rows \ {a, b}) \cup {v} = R2 \cup {v}
  OBVIOUS
<1>10. Count(R2 \cup {v}) =< Count(rows)
  BY <1>2, <1>4, <1>5, <1>7, <1>8
<1>11. TotalCharge(R2 \cup {v}) =< TotalCharge(rows)
  <2>1. TotalCharge(rows) = Charge(a) + (Charge(b) + TotalCharge(R2))
    BY <1>2, <1>4, <1>5
  <2>2. TotalCharge(R2 \cup {v}) = TotalCharge(R2) + Charge(v)
    BY <1>7
  <2> QED
    BY <1>8, <2>1, <2>2
<1> QED
  BY <1>7, <1>9, <1>10, <1>11

LEMMA PartIsLess ==
  ASSUME NEW rows, WellKeyed(rows), NEW part, part \subseteq rows
  PROVE  Count(part) =< Count(rows) /\ TotalCharge(part) =< TotalCharge(rows)
<1>1. /\ WellKeyed(part) /\ WellKeyed(rows \ part)
      /\ Count(rows) = Count(part) + Count(rows \ part)
      /\ TotalCharge(rows) = TotalCharge(part) + TotalCharge(rows \ part)
  BY Split
<1>2. /\ Count(part) \in Nat /\ Count(rows \ part) \in Nat
      /\ TotalCharge(part) \in Nat /\ TotalCharge(rows \ part) \in Nat
  BY <1>1, CountsAre
<1> QED
  BY <1>1, <1>2

LEMMA BodiesJoin ==
  ASSUME NEW a \in Bodies, NEW b \in Bodies
  PROVE  a \cup b \in Bodies /\ BodySize[a \cup b] =< BodySize[a] + BodySize[b]
BY EngineAssumption, Zenon

(* What a fold writes is charged no more than what it takes away.          *)
LEMMA FoldedCharge ==
  ASSUME NEW a, NEW b, a.body \in Bodies, a.tags \in SUBSET Tags,
         b.body \in Bodies, b.tags \in SUBSET Tags,
         NEW v, v.body = b.body \cup a.body, v.tags = b.tags \cup a.tags
  PROVE  /\ v.body \in Bodies /\ v.tags \in SUBSET Tags
         /\ Charge(v) =< Charge(a) + Charge(b)
<1>1. v.body \in Bodies /\ BodySize[v.body] =< BodySize[b.body] + BodySize[a.body]
  <2> PICK x, y : x = b.body /\ y = a.body
    OBVIOUS
  <2>1. x \cup y \in Bodies /\ BodySize[x \cup y] =< BodySize[x] + BodySize[y]
    BY BodiesJoin
  <2> QED
    BY <2>1
<1>2. IsFiniteSet(a.tags) /\ IsFiniteSet(b.tags)
  BY FS_Subset, StoreAssumption
<1> PICK A, B : A = a.tags /\ B = b.tags
  OBVIOUS
<1>3. Cardinality(B \cup A) = Cardinality(B) + Cardinality(A) - Cardinality(B \cap A)
  BY <1>2, FS_Union
<1>4. IsFiniteSet(B \cap A)
  BY <1>2, FS_Intersection
<1>5. Cardinality(A) \in Nat /\ Cardinality(B) \in Nat /\ Cardinality(B \cap A) \in Nat
  BY <1>2, <1>4, FS_CardinalityType
<1>6. Cardinality(v.tags) =< Cardinality(A) + Cardinality(B)
  BY <1>3, <1>5
<1>7. BodySize[a.body] \in Nat /\ BodySize[b.body] \in Nat /\ BodySize[v.body] \in Nat
  BY <1>1, StoreAssumption
<1>8. Cardinality(v.tags) \in Nat
  BY <1>2, FS_Subset, FS_CardinalityType, StoreAssumption
<1> QED
  BY <1>1, <1>5, <1>6, <1>7, <1>8 DEF Charge

-----------------------------------------------------------------------------
(* Rows within a budget.                                                   *)

LEMMA FitIs ==
  ASSUME NEW s, NEW rows, Count(rows) \in Nat, TotalCharge(rows) \in Nat
  PROVE  Fit(rows, s) <=> /\ ~Over(Count(rows), capacity[s].budget.items)
                          /\ ~Over(TotalCharge(rows), capacity[s].budget.bytes)
BY DEF Fit, Within, WouldExceed, Count

LEMMA FitLess ==
  ASSUME TypeOK, NEW s \in Scopes, NEW A, NEW B, WellKeyed(A), WellKeyed(B),
         Count(A) =< Count(B), TotalCharge(A) =< TotalCharge(B), Fit(B, s)
  PROVE  Fit(A, s)
<1> PICK b : b = capacity[s].budget
  OBVIOUS
<1>1. b.items \in Nat \cup {NoLimit} /\ b.bytes \in Nat \cup {NoLimit}
  BY EngineAssumption DEF TypeOK, CapacityRow, Budget
<1>2. /\ Count(A) \in Nat /\ Count(B) \in Nat
      /\ TotalCharge(A) \in Nat /\ TotalCharge(B) \in Nat
  BY CountsAre
<1>3. ~Over(Count(B), b.items) /\ ~Over(TotalCharge(B), b.bytes)
  BY <1>2, FitIs
<1>4. ~Over(Count(A), b.items)
  BY <1>1, <1>2, <1>3 DEF Over
<1>5. ~Over(TotalCharge(A), b.bytes)
  BY <1>1, <1>2, <1>3 DEF Over
<1> QED
  BY <1>2, <1>4, <1>5, FitIs

(* The counters of a scope are its rows.                                   *)
LEMMA FitIsWithin ==
  ASSUME IInv, NEW s \in Scopes
  PROVE  /\ WellKeyed(InScope(items, s))
         /\ Within(capacity[s]) <=> Fit(InScope(items, s), s)
<1>1. InScope(items, s) \in SUBSET items
  BY DEF InScope
<1>2. WellKeyed(InScope(items, s))
  BY <1>1, ItemsWellKeyed DEF IInv
<1>3. /\ capacity[s].items = Count(InScope(items, s))
      /\ capacity[s].bytes = TotalCharge(InScope(items, s))
  BY DEF IInv, ItemsCounted, BytesCounted, Count
<1>4. Within(capacity[s]) <=> Fit(InScope(items, s), s)
  BY <1>3 DEF Within, WouldExceed, Fit, Count
<1> QED
  BY <1>2, <1>4

-----------------------------------------------------------------------------
(* The transactions the engine builds, and the rows they leave.            *)

FieldsAre(t, s, e, refs, E, U, M) ==
  /\ t.scope = s /\ t.event = e /\ t.refs = refs
  /\ t.evictions = E /\ t.upsert = U /\ t.merge = M

LEMMA ShapeFields ==
  ASSUME NEW s, NEW e, NEW refs, NEW E, NEW U, NEW M, NEW k, NEW b
  PROVE  FieldsAre(Shape(s, e, refs, E, U, M, k, b), s, e, refs, E, U, M)
BY DEF FieldsAre, Shape

LEMMA PlainFields ==
  ASSUME NEW s, NEW e, NEW refs
  PROVE  /\ FieldsAre(Txn(s, e, refs), s, e, refs, {}, {}, {})
         /\ \A r : FieldsAre(Keyed(Txn(s, e, refs), r), s, e, refs, {}, {}, {})
         /\ \A E : FieldsAre([Txn(s, e, refs) EXCEPT !.evictions = E], s, e, refs, E, {}, {})
<1>1. Txn(s, e, refs) = Shape(s, e, refs, {}, {}, {}, {}, AnyBody)
  BY TxnIs
<1>2. ASSUME NEW r
      PROVE  FieldsAre(Keyed(Txn(s, e, refs), r), s, e, refs, {}, {}, {})
  <2>1. Keyed(Txn(s, e, refs), r) = Shape(s, e, refs, {}, {}, {}, r.key, r.body)
    BY <1>1, KeyedIs
  <2> QED
    BY <2>1, ShapeFields
<1>3. ASSUME NEW E
      PROVE  FieldsAre([Txn(s, e, refs) EXCEPT !.evictions = E], s, e, refs, E, {}, {})
  <2>1. [Txn(s, e, refs) EXCEPT !.evictions = E] = Evicting(Txn(s, e, refs), E)
    BY DEF Evicting
  <2>2. Evicting(Txn(s, e, refs), E) = Shape(s, e, refs, E, {}, {}, {}, AnyBody)
    BY <1>1, ShapeWith
  <2> QED
    BY <2>1, <2>2, ShapeFields
<1> QED
  BY <1>1, <1>2, <1>3, ShapeFields

(* A row to write with the columns of another.                             *)
WriteOf(w, r) ==
  w.id = r.id /\ w.scope = r.scope /\ w.body = r.body /\ w.tags = r.tags /\ w.meta = r.meta

LEMMA ReplacementFields ==
  ASSUME NEW r, NEW e, NEW embedded
  PROVE  \E w : /\ WriteOf(w, r)
                /\ FieldsAre(Replacement(r, e, embedded), r.scope, e, {r.id}, {r.id}, {w}, {})
<1> DEFINE w == [id |-> r.id, scope |-> r.scope, body |-> r.body, tags |-> r.tags,
                 meta |-> r.meta, pending |-> ~embedded, embedded |-> embedded]
<1>1. WriteOf(w, r)
  BY DEF WriteOf
<1>2. Replacement(r, e, embedded) =
        Upserting(Evicting(Txn(r.scope, e, {r.id}), {r.id}), {w})
  BY Zenon DEF Replacement, Upserting, Evicting
<1> HIDE DEF w
<1>3. Replacement(r, e, embedded) = Shape(r.scope, e, {r.id}, {r.id}, {w}, {}, {}, AnyBody)
  BY <1>2, TxnIs, ShapeWith
<1> QED
  BY <1>1, <1>3, ShapeFields

LEMMA RetainFields ==
  ASSUME NEW r, NEW id, NEW embedded, NEW prot, NEW E
  PROVE  \E w : /\ w.id = id /\ w.scope = r.scope /\ w.body = r.body /\ w.tags = {}
                /\ FieldsAre(RetainTxn(r, id, embedded, prot, E), r.scope, "Admitted", {id},
                             Ids(E), {w}, {})
<1> DEFINE w == [id |-> id, scope |-> r.scope, body |-> r.body, tags |-> {},
                 meta |-> [prot |-> prot, sens |-> r.sens, expires |-> r.expires],
                 pending |-> ~embedded, embedded |-> embedded]
           t == Upserting(Evicting(Txn(r.scope, "Admitted", {id}), Ids(E)), {w})
<1>1. w.id = id /\ w.scope = r.scope /\ w.body = r.body /\ w.tags = {}
  OBVIOUS
<1>2. RetainTxn(r, id, embedded, prot, E) = Keyed(t, r)
  BY Zenon DEF RetainTxn, Upserting, Evicting
<1> HIDE DEF w
<1>3. t = Shape(r.scope, "Admitted", {id}, Ids(E), {w}, {}, {}, AnyBody)
  <2>1. Evicting(Txn(r.scope, "Admitted", {id}), Ids(E)) =
          Shape(r.scope, "Admitted", {id}, Ids(E), {}, {}, {}, AnyBody)
    BY TxnIs, ShapeWith
  <2> QED
    BY <2>1, ShapeWith
<1> HIDE DEF t
<1>4. Keyed(t, r) = Shape(r.scope, "Admitted", {id}, Ids(E), {w}, {}, r.key, r.body)
  BY <1>3, KeyedIs
<1>5. FieldsAre(RetainTxn(r, id, embedded, prot, E), r.scope, "Admitted", {id}, Ids(E), {w}, {})
  BY <1>2, <1>4, ShapeFields
<1> QED
  BY <1>1, <1>5

LEMMA AdmissionMergeFields ==
  ASSUME NEW r, NEW id, NEW embedded
  PROVE  \E m : FieldsAre(AdmissionMergeTxn(r, id, embedded), r.scope, "Merged", {}, {}, {}, {m})
<1> DEFINE m == [target |-> id, body |-> r.body, tags |-> {}, pending |-> ~embedded,
                 embedded |-> embedded]
           t == Merging(Txn(r.scope, "Merged", {}), {m})
<1>1. AdmissionMergeTxn(r, id, embedded) = Keyed(t, r)
  BY Zenon DEF AdmissionMergeTxn, Merging
<1> HIDE DEF m
<1>2. t = Shape(r.scope, "Merged", {}, {}, {}, {m}, {}, AnyBody)
  BY TxnIs, ShapeWith
<1> HIDE DEF t
<1>3. Keyed(t, r) = Shape(r.scope, "Merged", {}, {}, {}, {m}, r.key, r.body)
  BY <1>2, KeyedIs
<1> QED
  BY <1>1, <1>3, ShapeFields

(* What apply_merge writes of a target and the row it absorbs.             *)
FoldOf(m, target, absorbed) ==
  m.target = target.id /\ m.body = target.body \cup absorbed.body /\ m.tags = absorbed.tags

LEMMA FoldFields ==
  ASSUME NEW s, NEW target, NEW absorbed, NEW e,
         NEW t, t = [Txn(s, "Merged", {absorbed.id, target.id}) EXCEPT
                       !.evictions = {absorbed.id},
                       !.merge = {[target |-> target.id, body |-> Folded(target, absorbed),
                                   tags |-> absorbed.tags, pending |-> ~e, embedded |-> e]}]
  PROVE  \E m : /\ FoldOf(m, target, absorbed)
                /\ FieldsAre(t, s, "Merged", {absorbed.id, target.id}, {absorbed.id}, {}, {m})
<1> DEFINE m == [target |-> target.id, body |-> Folded(target, absorbed),
                 tags |-> absorbed.tags, pending |-> ~e, embedded |-> e]
           refs == {absorbed.id, target.id}
<1>1. FoldOf(m, target, absorbed)
  BY DEF FoldOf, Folded
<1>2. t = Merging(Evicting(Txn(s, "Merged", refs), {absorbed.id}), {m})
  BY Zenon DEF Merging, Evicting
<1> HIDE DEF m, refs
<1>3. t = Shape(s, "Merged", refs, {absorbed.id}, {}, {m}, {}, AnyBody)
  BY <1>2, TxnIs, ShapeWith
<1>4. FieldsAre(t, s, "Merged", refs, {absorbed.id}, {}, {m})
  BY <1>3, ShapeFields
<1> QED
  BY <1>1, <1>4 DEF refs

(* One that writes no row.                                                 *)
LEMMA PlainResult ==
  ASSUME NEW t, t.upsert = {}, t.merge = {}
  PROVE  Result(t) = items \ Named(items, t.scope, t.evictions)
<1>1. Inserted(t) = {} /\ Targets(t) = {} /\ Merged(t) = {}
  BY DEF Inserted, Targets, Merged, InScope
<1>2. Kept(t) = items \ Named(items, t.scope, t.evictions)
  BY DEF Kept, Victims, Named
<1> QED
  BY <1>1, <1>2 DEF Result

(* One that writes a row and merges none.                                  *)
LEMMA UpsertResult ==
  ASSUME NEW t, NEW w, t.upsert = {w}, t.merge = {}
  PROVE  \E v : /\ WriteOf(v, w)
                /\ Result(t) = (items \ Named(items, t.scope, t.evictions)) \cup {v}
<1> DEFINE v == [id |-> w.id, scope |-> w.scope, body |-> w.body, tags |-> w.tags,
                 meta |-> w.meta, pending |-> w.pending, access |-> CarriedAccess(t, w)]
<1>1. Inserted(t) = {v} /\ Targets(t) = {} /\ Merged(t) = {}
  BY DEF Inserted, Targets, Merged, InScope
<1>2. Kept(t) = items \ Named(items, t.scope, t.evictions)
  BY DEF Kept, Victims, Named
<1>3. WriteOf(v, w)
  BY DEF WriteOf
<1> QED
  BY <1>1, <1>2, <1>3 DEF Result

(* One that folds a row into another.                                      *)
LEMMA FoldResult ==
  ASSUME PrimaryKeys, TypeOK, NEW t, NEW s, NEW refs, NEW m,
         NEW a \in InScope(items, s), NEW b \in InScope(items, s), a.id # b.id, m.target = b.id,
         FieldsAre(t, s, "Merged", refs, {a.id}, {}, {m})
  PROVE  \E v : /\ v.id = b.id /\ v.scope = b.scope /\ v.meta = b.meta
                /\ v.body = m.body /\ v.tags = b.tags \cup m.tags
                /\ Result(t) = (items \ {a, b}) \cup {v}
<1>1. a \in items /\ b \in items /\ a.scope = s /\ b.scope = s
  BY DEF InScope
<1>2. Victims(t) = {a}
  BY <1>1 DEF FieldsAre, Victims, InScope, PrimaryKeys
<1>3. Kept(t) = items \ {a}
  BY <1>2 DEF Kept
<1>4. b \in Kept(t)
  BY <1>1, <1>3
<1>5. Targets(t) = {b}
  BY <1>1, <1>3, <1>4 DEF FieldsAre, Targets, InScope, PrimaryKeys
<1> DEFINE v == MergedRow(b, m)
<1>6. Merged(t) = {v}
  BY <1>5 DEF FieldsAre, Merged
<1>7. Inserted(t) = {}
  BY DEF FieldsAre, Inserted
<1>8. Result(t) = (items \ {a, b}) \cup {v}
  BY <1>3, <1>5, <1>6, <1>7 DEF Result
<1>9. /\ v.id = b.id /\ v.scope = b.scope /\ v.meta = b.meta
      /\ v.body = m.body /\ v.tags = b.tags \cup m.tags
  BY <1>1 DEF MergedRow, TypeOK, ItemRow
<1> QED
  BY <1>8, <1>9

-----------------------------------------------------------------------------
(* Rows of a scope, when a row is written or folded.                       *)

LEMMA ScopeWithout ==
  ASSUME NEW rows, NEW gone, NEW s, NEW v, v.scope = s
  PROVE  InScope((rows \ gone) \cup {v}, s) = (InScope(rows, s) \ gone) \cup {v}
BY DEF InScope

LEMMA ScopeLess ==
  ASSUME NEW rows, NEW s, NEW E
  PROVE  /\ InScope(rows \ Named(rows, s, E), s) = Unnamed(rows, s, E)
         /\ Unnamed(rows, s, E) \subseteq InScope(rows, s)
         /\ Named(rows, s, E) \subseteq InScope(rows, s)
         /\ Unnamed(rows, s, E) = InScope(rows, s) \ Named(rows, s, E)
BY DEF InScope, Named, Unnamed

LEMMA NamedAre ==
  ASSUME PrimaryKeys, NEW s, NEW E, E \subseteq InScope(items, s)
  PROVE  Named(items, s, Ids(E)) = E
BY DEF Named, InScope, Ids, PrimaryKeys

LEMMA NamedOne ==
  ASSUME PrimaryKeys, NEW s, NEW r \in InScope(items, s)
  PROVE  Named(items, s, {r.id}) = {r}
BY DEF Named, InScope, PrimaryKeys

LEMMA ScopeKeyed ==
  ASSUME IInv, NEW s
  PROVE  WellKeyed(InScope(items, s))
<1>1. InScope(items, s) \in SUBSET items
  BY DEF InScope
<1> QED
  BY <1>1, ItemsWellKeyed DEF IInv

-----------------------------------------------------------------------------
(* Each transaction is faithful to the rows it was built from.             *)

(* It removes nothing and writes nothing: only its audit row.              *)
LEMMA PlainIsFaithful ==
  ASSUME IInv, NEW t, NEW q, NEW e, NEW refs, e \notin {"Forgotten", "Merged", "MaintenanceRun"},
         FieldsAre(t, q.scope, e, refs, {}, {}, {})
  PROVE  Faithful(t, q)
<1>1. Result(t) = items
  BY PlainResult DEF Named, FieldsAre
<1>2. /\ t.event # "Forgotten" /\ ~IsFold(t) /\ t.event # "MaintenanceRun" /\ t.upsert = {}
      /\ t.evictions = {}
  BY DEF FieldsAre, IsFold
<1>3. NoneErased(t) /\ ProtectsByName(t)
  BY <1>2 DEF NoneErased, ProtectsByName, Ids
<1>4. ForgetsItsRefs(t, q) /\ LosesNothing(t, q) /\ Reclaims(t, q)
  BY <1>2, Zenon DEF ForgetsItsRefs, LosesNothing, Reclaims
<1>5. SparesPins(t, q)
  BY <1>2 DEF SparesPins, Named
<1>6. StaysWithin(t, q)
  BY <1>1, Zenon DEF StaysWithin
<1> QED
  BY <1>3, <1>4, <1>5, <1>6 DEF Faithful

(* A forget removes what it names, and what it removes leaves room.        *)
LEMMA ForgetIsFaithful ==
  ASSUME IInv, NEW t, NEW q, q.scope \in Scopes, q.op = "forget", NEW E, NEW refs, E \subseteq refs,
         FieldsAre(t, q.scope, "Forgotten", refs, E, {}, {})
  PROVE  Faithful(t, q)
<1> PICK s : s = q.scope
  OBVIOUS
<1>1. InScope(Result(t), s) = Unnamed(items, s, E)
  BY PlainResult, ScopeLess DEF FieldsAre
<1>2. /\ t.event = "Forgotten" /\ t.upsert = {} /\ t.evictions = E /\ t.refs = refs
  BY DEF FieldsAre
<1>3. NoneErased(t) /\ ProtectsByName(t) /\ ForgetsItsRefs(t, q) /\ SparesPins(t, q)
  BY <1>2 DEF NoneErased, ProtectsByName, ForgetsItsRefs, SparesPins, Ids
<1>4. LosesNothing(t, q) /\ Reclaims(t, q)
  BY <1>2 DEF LosesNothing, Reclaims, IsFold
<1>5. StaysWithin(t, q)
  <2> PICK all, left : all = InScope(items, s) /\ left = Unnamed(items, s, E)
    OBVIOUS
  <2>1. WellKeyed(all) /\ left \subseteq all
    BY ScopeKeyed, ScopeLess
  <2>2. WellKeyed(left) /\ Count(left) =< Count(all) /\ TotalCharge(left) =< TotalCharge(all)
    BY <2>1, PartIsKeyed, PartIsLess
  <2>3. Fit(all, s) => Fit(left, s)
    BY <2>1, <2>2, FitLess DEF IInv
  <2> QED
    BY <1>1, <2>3 DEF StaysWithin
<1> QED
  BY <1>3, <1>4, <1>5 DEF Faithful

(* A row written again under its id, with its columns as they are but for  *)
(* the protection, which only an admission's row may change.               *)
LEMMA ReplacementIsFaithful ==
  ASSUME IInv, ErasedStaysErased, NEW q, q.scope \in Scopes, NEW r \in InScope(items, q.scope),
         NEW e, NEW t, NEW w, w.id = r.id, w.scope = r.scope, w.body = r.body, w.tags = r.tags,
         \/ e = "Admitted"
         \/ e = "Reembedded" /\ w.meta = r.meta,
         FieldsAre(t, q.scope, e, {r.id}, {r.id}, {w}, {})
  PROVE  Faithful(t, q)
<1> PICK s : s = q.scope
  OBVIOUS
<1>1. r \in items /\ r.scope = s
  BY DEF InScope
<1>2. /\ t.event = e /\ t.upsert = {w} /\ t.evictions = {r.id} /\ t.refs = {r.id}
      /\ e # "Forgotten" /\ e # "Merged" /\ e # "MaintenanceRun"
  BY DEF FieldsAre
<1>3. NoneErased(t)
  BY <1>1, <1>2 DEF NoneErased, Ids, ErasedStaysErased
<1>4. ForgetsItsRefs(t, q) /\ LosesNothing(t, q) /\ Reclaims(t, q)
  BY <1>2 DEF ForgetsItsRefs, LosesNothing, Reclaims, IsFold
<1>5. SparesPins(t, q)
  BY <1>2 DEF SparesPins, Named, Ids
<1>6. ProtectsByName(t)
  BY <1>1, <1>2 DEF ProtectsByName
<1>7. StaysWithin(t, q)
  <2> PICK gone : gone = {r}
    OBVIOUS
  <2>1. PICK v : /\ WriteOf(v, w)
                 /\ Result(t) = (items \ Named(items, t.scope, t.evictions)) \cup {v}
    BY UpsertResult DEF FieldsAre
  <2>2. Result(t) = (items \ gone) \cup {v} /\ v.scope = s
    BY <1>1, <2>1, NamedOne DEF IInv, WriteOf, FieldsAre
  <2> PICK all, new : all = InScope(items, s) /\ new = (all \ {r}) \cup {v}
    OBVIOUS
  <2>3. InScope(Result(t), s) = new
    BY <2>2 DEF InScope
  <2>4. WellKeyed(all)
    BY ScopeKeyed
  <2>5. v.id = r.id /\ v.body = r.body /\ v.tags = r.tags
    BY <2>1 DEF WriteOf
  <2>6. WellKeyed(new) /\ Count(new) = Count(all) /\ TotalCharge(new) = TotalCharge(all)
    BY <2>4, <2>5, RowSwapped
  <2>7. Count(all) \in Nat /\ TotalCharge(all) \in Nat
    BY <2>4, CountsAre
  <2>8. Fit(all, s) => Fit(new, s)
    BY <2>4, <2>6, <2>7, FitLess DEF IInv
  <2> QED
    BY <2>3, <2>8 DEF StaysWithin
<1> QED
  BY <1>3, <1>4, <1>5, <1>6, <1>7 DEF Faithful

(* The counters, exact for some rows, are exact for the rows left.         *)
LEMMA FreedIs ==
  ASSUME NEW c \in CapacityRow, NEW all, WellKeyed(all), NEW E, E \subseteq all,
         c.items = Count(all), c.bytes = TotalCharge(all)
  PROVE  /\ Freed(c, E) = [budget |-> c.budget, items |-> Count(all \ E),
                           bytes |-> TotalCharge(all \ E)]
         /\ Freed(c, E) \in CapacityRow
         /\ Freed(c, E).budget = c.budget
         /\ Freed(c, E).items = Count(all \ E) /\ Freed(c, E).bytes = TotalCharge(all \ E)
<1> PICK rest : rest = all \ E
  OBVIOUS
<1>1. /\ WellKeyed(E) /\ WellKeyed(rest)
      /\ Count(all) = Count(E) + Count(rest)
      /\ TotalCharge(all) = TotalCharge(E) + TotalCharge(rest)
  BY Split
<1> PICK i, j, k, l : /\ i = Count(E) /\ j = TotalCharge(E)
                      /\ k = Count(rest) /\ l = TotalCharge(rest)
  OBVIOUS
<1>2. i \in Nat /\ j \in Nat /\ k \in Nat /\ l \in Nat
  BY <1>1, CountsAre
<1>3. Cardinality(E) = i
  BY <1>1, CountIsCardinality
<1>4. c.items + (0 - i) = k /\ c.bytes + (0 - j) = l
  BY <1>1, <1>2
<1> PICK m, n : m = 0 - i /\ n = 0 - j
  OBVIOUS
<1>5. Adjusted(c, m, n) = [budget |-> c.budget, items |-> k, bytes |-> l]
  BY <1>2, <1>4, AdjustedIs
<1>6. Freed(c, E) = Adjusted(c, m, n)
  BY <1>3 DEF Freed
<1>7. c.budget \in Budgets
  BY DEF CapacityRow
<1> QED
  BY <1>2, <1>5, <1>6, <1>7 DEF CapacityRow

(* What is admitted has an id nobody had, takes the room of items that     *)
(* could go, and fits.                                                     *)
LEMMA RetainIsFaithful ==
  ASSUME IInv, NEW q, q.scope \in Scopes, NEW id \in ItemIds, id \notin Ids(items),
         id \notin erased, NEW E, E \subseteq InScope(items, q.scope),
         \A r \in E : r.meta.prot # Never,
         NEW w, w.id = id, w.scope = q.scope, w.body \in Bodies, w.tags = {},
         ~WouldExceed(Freed(capacity[q.scope], E), 1, BodySize[w.body]),
         NEW t, FieldsAre(t, q.scope, "Admitted", {id}, Ids(E), {w}, {})
  PROVE  Faithful(t, q)
<1> PICK s : s = q.scope
  OBVIOUS
<1>1. /\ t.event = "Admitted" /\ t.upsert = {w} /\ t.evictions = Ids(E) /\ t.refs = {id}
      /\ t.scope = s /\ t.merge = {}
  BY DEF FieldsAre
<1>2. Named(items, s, Ids(E)) = E
  BY NamedAre DEF IInv
<1>3. NoneErased(t) /\ ProtectsByName(t)
  BY <1>1 DEF NoneErased, ProtectsByName, Ids
<1>4. ForgetsItsRefs(t, q) /\ LosesNothing(t, q) /\ Reclaims(t, q)
  BY <1>1 DEF ForgetsItsRefs, LosesNothing, Reclaims, IsFold
<1>5. SparesPins(t, q)
  BY <1>1, <1>2 DEF SparesPins
<1>6. StaysWithin(t, q)
  <2>0. PICK v : /\ WriteOf(v, w)
                 /\ Result(t) = (items \ Named(items, t.scope, t.evictions)) \cup {v}
    BY <1>1, UpsertResult
  <2>1. WriteOf(v, w) /\ Result(t) = (items \ E) \cup {v}
    BY <1>1, <1>2, <2>0
  <2>2. v.id = id /\ v.scope = s /\ v.body = w.body /\ v.tags = {}
    BY <2>1 DEF WriteOf
  <2> PICK all, left, new : all = InScope(items, s) /\ left = all \ E /\ new = left \cup {v}
    OBVIOUS
  <2>3. InScope(Result(t), s) = new
    BY <2>1, <2>2 DEF InScope
  <2>4. WellKeyed(all) /\ WellKeyed(left)
    BY ScopeKeyed, PartIsKeyed
  <2>5. id \notin Ids(left)
    BY DEF Ids, InScope
  <2>6. /\ WellKeyed(new) /\ Count(new) = Count(left) + 1
        /\ TotalCharge(new) = TotalCharge(left) + Charge(v)
    BY <2>2, <2>4, <2>5, RowAdded
  <2>7. Charge(v) = BodySize[w.body] /\ BodySize[w.body] \in Nat
    <3>1. Cardinality({}) = 0
      BY FS_EmptySet
    <3>2. BodySize[w.body] \in Nat
      BY StoreAssumption
    <3> QED
      BY <2>2, <3>1, <3>2 DEF Charge
  <2> PICK c, f : c = capacity[s] /\ f = Freed(c, E)
    OBVIOUS
  <2>8. c \in CapacityRow /\ c.items = Count(all) /\ c.bytes = TotalCharge(all)
    BY DEF IInv, TypeOK, ItemsCounted, BytesCounted, Count
  <2>9. f.budget = c.budget /\ f.items = Count(left) /\ f.bytes = TotalCharge(left)
    BY <2>4, <2>8, FreedIs
  <2>10. ~Over(Count(new), c.budget.items) /\ ~Over(TotalCharge(new), c.budget.bytes)
    BY <2>6, <2>7, <2>9 DEF WouldExceed
  <2>11. Count(new) \in Nat /\ TotalCharge(new) \in Nat
    BY <2>6, CountsAre
  <2>12. Fit(new, s)
    BY <2>10, <2>11, FitIs
  <2> QED
    BY <2>3, <2>12 DEF StaysWithin
<1> QED
  BY <1>3, <1>4, <1>5, <1>6 DEF Faithful

(* An admission merged into a row: what it may break is the budget.        *)
LEMMA AdmissionMergeIsFaithful ==
  ASSUME NEW t, NEW q, NEW m, FieldsAre(t, q.scope, "Merged", {}, {}, {}, {m})
  PROVE  Faithful(t, q)
<1>1. /\ t.event = "Merged" /\ t.upsert = {} /\ t.evictions = {} /\ t.refs = {}
  BY DEF FieldsAre
<1>2. NoneErased(t) /\ ProtectsByName(t) /\ ForgetsItsRefs(t, q)
  BY <1>1 DEF NoneErased, ProtectsByName, ForgetsItsRefs, Ids
<1>3. LosesNothing(t, q) /\ Reclaims(t, q) /\ StaysWithin(t, q)
  BY <1>1 DEF LosesNothing, Reclaims, StaysWithin, IsFold, IsAdmissionMerge
<1>4. SparesPins(t, q)
  BY <1>1 DEF SparesPins, Named
<1> QED
  BY <1>2, <1>3, <1>4 DEF Faithful

(* The rows p is about, when its merge is due and its target is there.     *)
LEMMA FoldsRows ==
  ASSUME IInv, NEW s, NEW p, MergeDue(p, s, items), NEW b \in InScope(items, s), b.id = p[2].id
  PROVE  \E a \in InScope(items, s) :
           /\ a.id = p[1].id /\ a.body = p[1].body /\ a.tags = p[1].tags
           /\ a.meta.prot # Never /\ a.id # b.id
BY DEF MergeDue

(* A fold loses nothing: the target's new body tells what both told.       *)
LEMMA FoldIsFaithful ==
  ASSUME IInv, NEW q, q.scope \in Scopes, NEW p, MergeDue(p, q.scope, items),
         NEW b \in InScope(items, q.scope), b.id = p[2].id,
         NEW m, FoldOf(m, b, p[1]), NEW refs, refs # {},
         NEW t, FieldsAre(t, q.scope, "Merged", refs, {p[1].id}, {}, {m})
  PROVE  Faithful(t, q)
<1> PICK s : s = q.scope
  OBVIOUS
<1>0. PICK a \in InScope(items, s) :
        /\ a.id = p[1].id /\ a.body = p[1].body /\ a.tags = p[1].tags
        /\ a.meta.prot # Never /\ a.id # b.id
  BY FoldsRows
<1>1. /\ t.event = "Merged" /\ t.upsert = {} /\ t.evictions = {a.id} /\ t.refs = refs
      /\ t.scope = s /\ t.merge = {m} /\ m.target = b.id
  BY <1>0 DEF FieldsAre, FoldOf
<1>2. NoneErased(t) /\ ProtectsByName(t) /\ ForgetsItsRefs(t, q) /\ Reclaims(t, q)
  BY <1>1 DEF NoneErased, ProtectsByName, ForgetsItsRefs, Reclaims, Ids
<1>3. a \in items /\ b \in items /\ a.scope = s /\ b.scope = s
  BY DEF InScope
<1>4. SparesPins(t, q)
  <2>1. Named(items, s, {a.id}) = {a}
    BY NamedOne DEF IInv
  <2> QED
    BY <1>0, <1>1, <2>1 DEF SparesPins
<1>5. LosesNothing(t, q)
  <2>1. \A r \in Named(items, s, {a.id} \cup {b.id}) : r = a \/ r = b
    BY <1>3 DEF Named, InScope, IInv, PrimaryKeys
  <2>2. a.body \subseteq m.body /\ b.body \subseteq m.body
    BY <1>0 DEF FoldOf
  <2> QED
    BY <1>1, <2>1, <2>2 DEF LosesNothing
<1>6. StaysWithin(t, q)
  <2>1. PICK v : /\ v.id = b.id /\ v.scope = b.scope /\ v.meta = b.meta
                 /\ v.body = m.body /\ v.tags = b.tags \cup m.tags
                 /\ Result(t) = (items \ {a, b}) \cup {v}
    BY <1>0, <1>1, FoldResult DEF IInv, FieldsAre
  <2> PICK all, new : all = InScope(items, s) /\ new = (all \ {a, b}) \cup {v}
    OBVIOUS
  <2>2. InScope(Result(t), s) = new
    BY <1>3, <2>1 DEF InScope
  <2>3. WellKeyed(all)
    BY ScopeKeyed
  <2>4. /\ a.body \in Bodies /\ a.tags \in SUBSET Tags /\ b.body \in Bodies
        /\ b.tags \in SUBSET Tags
    BY <2>3 DEF WellKeyed
  <2>5. v.body = b.body \cup a.body /\ v.tags = b.tags \cup a.tags
    BY <1>0, <2>1 DEF FoldOf
  <2>6. v.body \in Bodies /\ v.tags \in SUBSET Tags /\ Charge(v) =< Charge(a) + Charge(b)
    BY <2>4, <2>5, FoldedCharge
  <2>7. WellKeyed(new) /\ Count(new) =< Count(all) /\ TotalCharge(new) =< TotalCharge(all)
    BY <1>0, <2>1, <2>3, <2>6, RowFolded
  <2>8. Fit(all, s) => Fit(new, s)
    BY <2>3, <2>7, FitLess DEF IInv
  <2> QED
    BY <2>2, <2>8 DEF StaysWithin
<1> QED
  BY <1>2, <1>4, <1>5, <1>6 DEF Faithful

(* With nothing left to merge or to grant, the run that is due is filed.   *)
LEMMA RunIsFaithful ==
  ASSUME IInv, NEW q, q.scope \in Scopes, NEW m, m.grants = {}, NEW t, t.scope = q.scope,
         RunDue(t, m, q.scope, items)
  PROVE  Faithful(t, q)
<1> PICK s, all, left : s = q.scope /\ all = InScope(items, s)
                        /\ left = Unnamed(items, s, t.evictions)
  OBVIOUS
<1>1. /\ t.event = "MaintenanceRun" /\ t.upsert = {} /\ t.merge = {}
      /\ \A r \in Named(items, s, t.evictions) : r.meta.prot # Never
      /\ \A r \in left : r.meta.expires = 0 => r.meta.prot = Never
      /\ (\A r \in left : r.meta.prot # 0) \/ Fit(left, s) \/ SpentPin(left)
  BY DEF RunDue
<1>2. NoneErased(t) /\ ProtectsByName(t) /\ ForgetsItsRefs(t, q) /\ SparesPins(t, q)
  BY <1>1 DEF NoneErased, ProtectsByName, ForgetsItsRefs, SparesPins, Ids
<1>3. LosesNothing(t, q)
  BY <1>1 DEF LosesNothing, IsFold
<1>4. Reclaims(t, q)
  <2>1. \A r \in left : r.meta.prot = 0 => r.meta.expires # 0
    BY <1>1, NeverIs
  <2> QED
    BY <1>1, <2>1 DEF Reclaims
<1>5. StaysWithin(t, q)
  <2>1. InScope(Result(t), s) = left
    BY <1>1, PlainResult, ScopeLess
  <2>2. WellKeyed(all) /\ left \subseteq all
    BY ScopeKeyed, ScopeLess
  <2>3. WellKeyed(left) /\ Count(left) =< Count(all) /\ TotalCharge(left) =< TotalCharge(all)
    BY <2>2, PartIsKeyed, PartIsLess
  <2>4. Fit(all, s) => Fit(left, s)
    BY <2>2, <2>3, FitLess DEF IInv
  <2> QED
    BY <2>1, <2>4 DEF StaysWithin
<1> QED
  BY <1>2, <1>3, <1>4, <1>5 DEF Faithful

-----------------------------------------------------------------------------
(* Work left is still due when another part of it has been carried out.    *)

LEMMA NothingLeft ==
  ASSUME NEW m, NoWork(m), NEW q, NEW rows
  PROVE  WorkOK(m, q, rows)
BY DEF NoWork, WorkOK

(* The parts of a call's memory that hold its work.                        *)
LessWork(m, n) ==
  /\ n.rows \subseteq m.rows /\ n.merges \subseteq m.merges /\ n.grants \subseteq m.grants
  /\ n.last = m.last

LEMMA RunStaysDue ==
  ASSUME NEW t, NEW m, NEW n, NEW s, NEW rows, RunDue(t, m, s, rows), LessWork(m, n)
  PROVE  RunDue(t, n, s, rows)
<1>1. /\ t.event = "MaintenanceRun" /\ t.upsert = {} /\ t.merge = {}
      /\ \A r \in Named(rows, s, t.evictions) : r.meta.prot # Never
  BY DEF RunDue
<1>2. \A p \in n.merges : {p[1].id, p[2].id} \cap t.evictions = {}
  BY DEF RunDue, LessWork
<1>3. /\ \A g \in n.grants : g.prot # Never
      /\ \A g \in n.grants, r \in InScope(rows, s) : r.id = g.id => r.meta.prot # Never
  BY DEF RunDue, LessWork
<1> PICK left : left = Unnamed(rows, s, t.evictions)
  OBVIOUS
<1>4. /\ \A r \in left : r.meta.expires = 0 => r.meta.prot = Never
      /\ \/ \A r \in left : r.meta.prot # 0 /\ \A g \in n.grants : g.id = r.id => g.prot # 0
         \/ Fit(left, s)
         \/ SpentPin(left)
  BY DEF RunDue, LessWork
<1> QED
  BY <1>1, <1>2, <1>3, <1>4 DEF RunDue

LEMMA LessWorkIsOK ==
  ASSUME NEW m, NEW n, NEW q, NEW rows, WorkOK(m, q, rows), LessWork(m, n)
  PROVE  WorkOK(n, q, rows)
<1>1. /\ n.rows \subseteq rows
      /\ n.rows # {} => n.merges = {} /\ n.grants = {} /\ n.last = {}
  BY DEF WorkOK, LessWork
<1>2. /\ \A p \in n.merges : MergeDue(p, q.scope, rows)
      /\ \A p, o \in n.merges : p # o => Apart(p, o)
  BY DEF WorkOK, LessWork
<1>3. \A t \in n.last : RunDue(t, n, q.scope, rows)
  BY RunStaysDue DEF WorkOK, LessWork
<1> QED
  BY <1>1, <1>2, <1>3 DEF WorkOK

(* A row changed its protection, as granted: the run is still due.         *)
LEMMA RunSurvivesGrant ==
  ASSUME IInv, NEW s \in Scopes, NEW r \in InScope(items, s), NEW m, NEW g \in m.grants, g.id = r.id,
         NEW v, v.id = r.id, v.scope = r.scope, v.body = r.body, v.tags = r.tags,
         v.meta.prot = g.prot, v.meta.expires = r.meta.expires,
         NEW t, RunDue(t, m, s, items),
         NEW rows, rows = (items \ {r}) \cup {v}
  PROVE  RunDue(t, m, s, rows)
<1> PICK E, all, left, new, left2 :
      /\ E = t.evictions /\ all = InScope(items, s) /\ left = Unnamed(items, s, E)
      /\ new = InScope(rows, s) /\ left2 = Unnamed(rows, s, E)
  OBVIOUS
<1>1. r \in items /\ r.scope = s /\ r \in all
  BY DEF InScope
<1>2. new = (all \ {r}) \cup {v}
  BY <1>1 DEF InScope
<1>3. /\ t.event = "MaintenanceRun" /\ t.upsert = {} /\ t.merge = {}
      /\ \A p \in m.merges : {p[1].id, p[2].id} \cap t.evictions = {}
      /\ \A h \in m.grants : h.prot # Never
      /\ \A h \in m.grants, x \in all : x.id = h.id => x.meta.prot # Never
  BY DEF RunDue
<1>4. /\ \A x \in Named(items, s, E) : x.meta.prot # Never
      /\ \A x \in left : x.meta.expires = 0 => x.meta.prot = Never
  BY DEF RunDue
<1>5. \/ \A x \in left : x.meta.prot # 0 /\ \A h \in m.grants : h.id = x.id => h.prot # 0
      \/ Fit(left, s)
      \/ SpentPin(left)
  BY DEF RunDue
<1>6. v.meta.prot # Never /\ r.meta.prot # Never
  BY <1>1, <1>3
<1>7. \A x \in Named(rows, s, E) : x.meta.prot # Never
  BY <1>2, <1>4, <1>6 DEF Named
<1>8. \A h \in m.grants, x \in new : x.id = h.id => x.meta.prot # Never
  BY <1>2, <1>3, <1>6
<1>9. CASE r.id \in E
  <2>1. left2 = left
    BY <1>2, <1>9 DEF Unnamed
  <2> QED
    BY <1>3, <1>4, <1>5, <1>7, <1>8, <2>1 DEF RunDue
<1>10. CASE r.id \notin E
  <2>1. left2 = (left \ {r}) \cup {v} /\ r \in left
    BY <1>1, <1>2, <1>10 DEF Unnamed
  <2>2. r.meta.expires # 0
    BY <1>4, <1>6, <2>1
  <2>3. \A x \in left2 : x.meta.expires = 0 => x.meta.prot = Never
    BY <1>4, <2>1, <2>2
  <2>4. \/ \A x \in left2 : x.meta.prot # 0 /\ \A h \in m.grants : h.id = x.id => h.prot # 0
        \/ Fit(left2, s)
        \/ SpentPin(left2)
    <3>1. CASE \A x \in left : x.meta.prot # 0 /\ \A h \in m.grants : h.id = x.id => h.prot # 0
      BY <2>1, <3>1
    <3>2. CASE Fit(left, s)
      <4>1. WellKeyed(left)
        BY ScopeKeyed, ScopeLess, PartIsKeyed
      <4> PICK y : y = (left \ {r}) \cup {v}
        OBVIOUS
      <4>2. WellKeyed(y) /\ Count(y) = Count(left) /\ TotalCharge(y) = TotalCharge(left)
        BY <2>1, <4>1, RowSwapped
      <4>3. Count(left) \in Nat /\ TotalCharge(left) \in Nat
        BY <4>1, CountsAre
      <4>4. Fit(y, s)
        BY <3>2, <4>1, <4>2, <4>3, FitLess DEF IInv
      <4> QED
        BY <2>1, <4>4
    <3>3. CASE SpentPin(left)
      BY <1>6, <2>1, <3>3 DEF SpentPin
    <3> QED
      BY <1>5, <3>1, <3>2, <3>3
  <2> QED
    BY <1>3, <1>7, <1>8, <2>3, <2>4 DEF RunDue
<1> QED
  BY <1>9, <1>10

(* Two rows the run does not name were folded into one.                    *)
LEMMA RunSurvivesFold ==
  ASSUME IInv, NEW s \in Scopes, NEW a \in InScope(items, s), NEW b \in InScope(items, s),
         a.id # b.id, a.meta.prot # Never,
         NEW v, v.id = b.id, v.scope = b.scope, v.meta = b.meta,
         v.body \in Bodies, v.tags \in SUBSET Tags, Charge(v) =< Charge(a) + Charge(b),
         NEW m, NEW t, RunDue(t, m, s, items), {a.id, b.id} \cap t.evictions = {},
         NEW rows, rows = (items \ {a, b}) \cup {v}
  PROVE  RunDue(t, m, s, rows)
<1> PICK E, all, left, new, left2 :
      /\ E = t.evictions /\ all = InScope(items, s) /\ left = Unnamed(items, s, E)
      /\ new = InScope(rows, s) /\ left2 = Unnamed(rows, s, E)
  OBVIOUS
<1>1. /\ a \in items /\ b \in items /\ a.scope = s /\ b.scope = s /\ a \in all /\ b \in all
      /\ a.id \notin E /\ b.id \notin E
  BY DEF InScope
<1>2. new = (all \ {a, b}) \cup {v}
  BY <1>1 DEF InScope
<1>3. /\ t.event = "MaintenanceRun" /\ t.upsert = {} /\ t.merge = {}
      /\ \A p \in m.merges : {p[1].id, p[2].id} \cap t.evictions = {}
      /\ \A h \in m.grants : h.prot # Never
      /\ \A h \in m.grants, x \in all : x.id = h.id => x.meta.prot # Never
  BY DEF RunDue
<1>4. /\ \A x \in Named(items, s, E) : x.meta.prot # Never
      /\ \A x \in left : x.meta.expires = 0 => x.meta.prot = Never
  BY DEF RunDue
<1>5. \/ \A x \in left : x.meta.prot # 0 /\ \A h \in m.grants : h.id = x.id => h.prot # 0
      \/ Fit(left, s)
      \/ SpentPin(left)
  BY DEF RunDue
<1>6. \A x \in Named(rows, s, E) : x.meta.prot # Never
  BY <1>1, <1>2, <1>4 DEF Named
<1>7. \A h \in m.grants, x \in new : x.id = h.id => x.meta.prot # Never
  BY <1>1, <1>2, <1>3
<1>8. left2 = (left \ {a, b}) \cup {v} /\ a \in left /\ b \in left
  BY <1>1, <1>2 DEF Unnamed
<1>9. \A x \in left2 : x.meta.expires = 0 => x.meta.prot = Never
  BY <1>4, <1>8
<1>10. \/ \A x \in left2 : x.meta.prot # 0 /\ \A h \in m.grants : h.id = x.id => h.prot # 0
       \/ Fit(left2, s)
       \/ SpentPin(left2)
  <2>1. CASE \A x \in left : x.meta.prot # 0 /\ \A h \in m.grants : h.id = x.id => h.prot # 0
    BY <1>8, <2>1
  <2>2. CASE Fit(left, s)
    <3>1. WellKeyed(left)
      BY ScopeKeyed, ScopeLess, PartIsKeyed
    <3> PICK x : x = (left \ {a, b}) \cup {v}
      OBVIOUS
    <3>2. WellKeyed(x) /\ Count(x) =< Count(left) /\ TotalCharge(x) =< TotalCharge(left)
      BY <1>8, <3>1, RowFolded
    <3> QED
      BY <1>8, <2>2, <3>1, <3>2, FitLess DEF IInv
  <2>3. CASE SpentPin(left)
    <3>1. PICK x \in left : x.meta.prot = Never /\ MustForget(x)
      BY <2>3 DEF SpentPin
    <3>2. CASE x = b
      BY <1>8, <3>1, <3>2 DEF SpentPin, MustForget
    <3>3. CASE x # b
      BY <1>8, <3>1, <3>3 DEF SpentPin
    <3> QED
      BY <3>2, <3>3
  <2> QED
    BY <1>5, <2>1, <2>2, <2>3
<1> QED
  BY <1>3, <1>6, <1>7, <1>9, <1>10 DEF RunDue

(* What a replacement leaves due.                                          *)
LEMMA WorkSurvivesGrant ==
  ASSUME IInv, NEW q, q.scope \in Scopes, NEW m, WorkOK(m, q, items), m.merges = {},
         NEW r \in InScope(items, q.scope), NEW g \in m.grants, g.id = r.id,
         NEW w, w.id = r.id, w.scope = r.scope, w.body = r.body, w.tags = r.tags,
         w.meta.prot = g.prot, w.meta.expires = r.meta.expires,
         NEW e, NEW t, FieldsAre(t, q.scope, e, {r.id}, {r.id}, {w}, {})
  PROVE  WorkOK(m, q, Result(t))
<1>1. PICK v : /\ WriteOf(v, w)
               /\ Result(t) = (items \ Named(items, t.scope, t.evictions)) \cup {v}
  BY UpsertResult DEF FieldsAre
<1>2. Result(t) = (items \ {r}) \cup {v}
  BY <1>1, NamedOne DEF IInv, FieldsAre
<1> PICK rows : rows = Result(t)
  OBVIOUS
<1>3. m.rows = {}
  BY DEF WorkOK
<1>4. \A u \in m.last : RunDue(u, m, q.scope, items)
  BY DEF WorkOK
<1>5. /\ v.id = r.id /\ v.scope = r.scope /\ v.body = r.body /\ v.tags = r.tags
      /\ v.meta.prot = g.prot /\ v.meta.expires = r.meta.expires
  BY <1>1 DEF WriteOf
<1>6. ASSUME NEW u \in m.last PROVE RunDue(u, m, q.scope, rows)
  <2>1. RunDue(u, m, q.scope, items)
    BY <1>4
  <2> QED
    BY <1>2, <1>5, <2>1, RunSurvivesGrant
<1> QED
  BY <1>3, <1>6 DEF WorkOK

(* What a fold leaves due.                                                 *)
LEMMA WorkSurvivesFold ==
  ASSUME IInv, NEW q, q.scope \in Scopes, NEW m, WorkOK(m, q, items), NEW p \in m.merges,
         NEW n, LessWork(m, n), n.merges = m.merges \ {p},
         NEW b \in InScope(items, q.scope), b.id = p[2].id,
         NEW x, FoldOf(x, b, p[1]), NEW refs,
         NEW t, FieldsAre(t, q.scope, "Merged", refs, {p[1].id}, {}, {x})
  PROVE  WorkOK(n, q, Result(t))
<1> PICK s : s = q.scope
  OBVIOUS
<1>1. MergeDue(p, s, items)
  BY DEF WorkOK
<1>2. PICK a \in InScope(items, s) :
        /\ a.id = p[1].id /\ a.body = p[1].body /\ a.tags = p[1].tags
        /\ a.meta.prot # Never /\ a.id # b.id
  BY <1>1, FoldsRows
<1>3. PICK v : /\ v.id = b.id /\ v.scope = b.scope /\ v.meta = b.meta
               /\ v.body = x.body /\ v.tags = b.tags \cup x.tags
               /\ Result(t) = (items \ {a, b}) \cup {v}
  BY <1>2, FoldResult DEF IInv, FieldsAre, FoldOf
<1> PICK rows : rows = Result(t)
  OBVIOUS
<1>4. m.rows = {} /\ n.rows = {}
  BY DEF WorkOK, LessWork
<1>5. v.body \in Bodies /\ v.tags \in SUBSET Tags /\ Charge(v) =< Charge(a) + Charge(b)
  <2>1. /\ a.body \in Bodies /\ a.tags \in SUBSET Tags /\ b.body \in Bodies
        /\ b.tags \in SUBSET Tags
    BY ScopeKeyed DEF WellKeyed
  <2>2. v.body = b.body \cup a.body /\ v.tags = b.tags \cup a.tags
    BY <1>2, <1>3 DEF FoldOf
  <2> QED
    BY <2>1, <2>2, FoldedCharge
<1>6. ASSUME NEW o \in n.merges PROVE MergeDue(o, s, rows)
  <2>1. o \in m.merges /\ o # p
    BY DEF LessWork
  <2>2. MergeDue(o, s, items) /\ Apart(p, o)
    BY <2>1 DEF WorkOK
  <2>3. PICK r \in InScope(items, s) :
          r.id = o[1].id /\ r.body = o[1].body /\ r.tags = o[1].tags /\ r.meta.prot # Never
    BY <2>2 DEF MergeDue
  <2>4. r.id # a.id /\ r.id # b.id
    BY <1>2, <2>2, <2>3 DEF Apart
  <2>5. r \in InScope(rows, s)
    BY <1>3, <2>4 DEF InScope
  <2> QED
    BY <2>2, <2>3, <2>5 DEF MergeDue
<1>7. \A o1, o2 \in n.merges : o1 # o2 => Apart(o1, o2)
  BY DEF WorkOK, LessWork
<1>8. ASSUME NEW u \in n.last PROVE RunDue(u, n, s, rows)
  <2>1. RunDue(u, m, s, items)
    BY DEF WorkOK, LessWork
  <2>2. {a.id, b.id} \cap u.evictions = {}
    BY <1>2, <2>1 DEF RunDue
  <2>3. RunDue(u, m, s, rows)
    BY <1>2, <1>3, <1>5, <2>1, <2>2, RunSurvivesFold
  <2> QED
    BY <2>3, RunStaysDue
<1> QED
  BY <1>4, <1>6, <1>7, <1>8 DEF WorkOK

(* The rows of a batch still to be embedded are as they were listed.       *)
LEMMA BatchSurvivesEmbedding ==
  ASSUME IInv, NEW q, NEW m, WorkOK(m, q, items), NEW r \in m.rows, r.scope = q.scope,
         NEW n, LessWork(m, n), n.rows = m.rows \ {r},
         NEW w, NEW e, NEW t, FieldsAre(t, q.scope, e, {r.id}, {r.id}, {w}, {})
  PROVE  WorkOK(n, q, Result(t))
<1>1. /\ r \in items /\ r \in InScope(items, q.scope) /\ m.merges = {} /\ m.grants = {}
      /\ m.last = {} /\ m.rows \subseteq items
  BY DEF WorkOK, InScope
<1>2. PICK v : Result(t) = (items \ Named(items, t.scope, t.evictions)) \cup {v}
  BY UpsertResult DEF FieldsAre
<1>3. Result(t) = (items \ {r}) \cup {v}
  BY <1>1, <1>2, NamedOne DEF IInv, FieldsAre
<1>4. n.rows \subseteq Result(t)
  BY <1>1, <1>3
<1>5. n.merges = {} /\ n.grants = {} /\ n.last = {}
  BY <1>1 DEF LessWork
<1> QED
  BY <1>4, <1>5 DEF WorkOK

-----------------------------------------------------------------------------
(* What maintenance decides is due.                                        *)

(* The rows removed leave the scope within its budget, unless a pin that   *)
(* outlived its ttl was counted as freed, or all that could go went.       *)
LEMMA DecidedRoom ==
  ASSUME EIInv, NEW s \in Scopes, NEW all, all = InScope(items, s), NEW c, c = capacity[s],
         NEW expired, expired = {r \in all : MustForget(r)},
         NEW able, able = {r \in all \ expired : Evictable(r)},
         NEW R, R \in (IF IsBounded(c.budget) THEN Evictions(Freed(c, expired), able, 0, 0)
                       ELSE {{}})
  PROVE  R = able \/ Fit(all \ (expired \cup R), s)
<1>1. WellKeyed(all) /\ c \in CapacityRow /\ c.items = Count(all) /\ c.bytes = TotalCharge(all)
  BY ScopeKeyed DEF EIInv, IInv, TypeOK, ItemsCounted, BytesCounted, Count
<1>2. R \subseteq able /\ able \subseteq all \ expired /\ expired \subseteq all
  BY DEF Evictions
<1> PICK one, two : one = all \ expired /\ two = one \ R
  OBVIOUS
<1>3. WellKeyed(one) /\ WellKeyed(two)
  BY <1>1, PartIsKeyed
<1>4. two = all \ (expired \cup R)
  OBVIOUS
<1>5. Count(two) \in Nat /\ TotalCharge(two) \in Nat
  BY <1>3, CountsAre
<1>6. CASE ~IsBounded(c.budget)
  <2>1. c.budget.items = NoLimit /\ c.budget.bytes = NoLimit
    BY <1>6 DEF IsBounded
  <2>2. Fit(two, s)
    BY <1>5, <2>1, FitIs DEF Over
  <2> QED
    BY <1>4, <2>2
<1>7. CASE IsBounded(c.budget)
  <2> PICK f, g : f = Freed(c, expired) /\ g = Freed(f, R)
    OBVIOUS
  <2>1. R = able \/ ~WouldExceed(g, 0, 0)
    BY <1>7 DEF Evictions
  <2>2. /\ f \in CapacityRow /\ f.budget = c.budget
        /\ f.items = Count(one) /\ f.bytes = TotalCharge(one)
    BY <1>1, <1>2, FreedIs
  <2>3. R \subseteq one
    BY <1>2
  <2>4. g.budget = f.budget /\ g.items = Count(two) /\ g.bytes = TotalCharge(two)
    BY <1>3, <2>2, <2>3, FreedIs
  <2>5. ASSUME ~WouldExceed(g, 0, 0) PROVE Fit(two, s)
    <3>1. ~Over(Count(two), c.budget.items) /\ ~Over(TotalCharge(two), c.budget.bytes)
      BY <1>5, <2>2, <2>4, <2>5 DEF WouldExceed
    <3> QED
      BY <1>5, <3>1, FitIs
  <2> QED
    BY <1>4, <2>1, <2>5
<1> QED
  BY <1>6, <1>7

(* What maintenance decides of all the rows of its scope, and the memory   *)
(* it goes on with: `gone` is what the run will remove, `given` the grants *)
(* of protection that come before it, and M the merges.                    *)
PlanOf(q, all, expired, able, R, removed, rest, regrants, released, given, M, gone, run, n) ==
  /\ all = InScope(items, q.scope)
  /\ expired = {r \in all : MustForget(r)}
  /\ able = {r \in all \ expired : Evictable(r)}
  /\ R \subseteq able /\ (R = able \/ Fit(all \ (expired \cup R), q.scope))
  /\ removed = expired \cup R /\ rest = all \ removed
  /\ \A r \in regrants : r \in rest /\ Evictable(r)
  /\ \A r \in released : r \in rest /\ r.meta.prot \in 1..now
  /\ \A g \in given : \E r \in regrants \cup released :
       g.id = r.id /\ (g.prot = now + 1 \/ g.prot = 0)
  /\ M \in Consolidations(rest, Ids(removed \cup regrants \cup released))
  /\ gone = Ids({r \in removed : r.meta.prot # Never})
  /\ FieldsAre(run, q.scope, "MaintenanceRun", gone, gone, {}, {})
  /\ n.rows = {} /\ n.merges = M /\ n.grants = given /\ n.last \subseteq {run}

(* The run maintenance plans is due, with the work that comes before it.   *)
LEMMA PlannedIsDue ==
  ASSUME EIInv, NEW q, q.scope \in Scopes, NEW all, NEW expired, NEW able, NEW R, NEW removed,
         NEW rest, NEW regrants, NEW released, NEW given, NEW M, NEW gone, NEW run, NEW n,
         PlanOf(q, all, expired, able, R, removed, rest, regrants, released, given, M, gone,
                run, n)
  PROVE  WorkOK(n, q, items)
<1> USE DEF PlanOf
<1> PICK s : s = q.scope
  OBVIOUS
<1>1. now \in Nat /\ now =< MaxNow /\ MaxNow \in Nat /\ Never = MaxNow + 2
  BY NeverIs DEF EIInv
<1>2. \A r, x \in all : r.id = x.id => r = x
  BY DEF InScope, EIInv, IInv, PrimaryKeys
<1>3. \A r \in all : r.meta.prot \in Nat /\ r.meta.expires \in Nat
  <2>1. \A r \in all : r.meta \in Meta
    BY EngineAssumption DEF InScope, EIInv, IInv, TypeOK, ItemRow
  <2> QED
    BY <2>1, NeverIs DEF Meta
<1>4. \A r \in all : Evictable(r) => r.meta.prot # Never
  BY <1>1, <1>3 DEF Evictable
<1>5. removed \subseteq all /\ rest \subseteq all /\ removed \cap rest = {} /\ all = removed \cup rest
  OBVIOUS
<1>6. \A p \in M : /\ p[1] \in rest /\ p[2] \in rest /\ p[1] # p[2] /\ Evictable(p[1])
  BY DEF Consolidations
<1>7. ASSUME NEW p \in M PROVE MergeDue(p, s, items)
  <2>1. p[1] \in all /\ p[1].id # p[2].id /\ p[1].meta.prot # Never
    BY <1>2, <1>4, <1>5, <1>6
  <2> QED
    BY <2>1 DEF MergeDue
<1>8. ASSUME NEW p \in M, NEW o \in M, p # o PROVE Apart(p, o)
  <2>1. {p[1], p[2]} \cap {o[1], o[2]} = {}
    BY <1>8 DEF Consolidations, Touches
  <2>2. p[1] \in all /\ p[2] \in all /\ o[1] \in all /\ o[2] \in all
    BY <1>5, <1>6
  <2> QED
    BY <1>2, <2>1, <2>2 DEF Apart
<1>9. RunDue(run, n, s, items)
  <2> PICK left : left = Unnamed(items, s, gone)
    OBVIOUS
  <2>1. /\ run.event = "MaintenanceRun" /\ run.upsert = {} /\ run.merge = {}
        /\ run.evictions = gone
    BY DEF FieldsAre
  <2>2. \A r \in all : r.id \in gone <=> r \in removed /\ r.meta.prot # Never
    BY <1>2, <1>5 DEF Ids
  <2>3. \A r \in Named(items, s, gone) : r.meta.prot # Never
    BY <2>2 DEF Named
  <2>4. \A p \in n.merges : {p[1].id, p[2].id} \cap gone = {}
    <3> SUFFICES ASSUME NEW p \in M PROVE p[1].id \notin gone /\ p[2].id \notin gone
      OBVIOUS
    <3>1. p[1] \in all /\ p[2] \in all /\ p[1] \notin removed /\ p[2] \notin removed
      BY <1>5, <1>6
    <3> QED
      BY <2>2, <3>1
  <2>5. \A g \in given : g.prot # Never
    BY <1>1
  <2>6. \A r \in regrants \cup released : r \in all /\ Evictable(r)
    BY <1>1, <1>3, <1>5 DEF Evictable
  <2>7. \A g \in given, r \in all : r.id = g.id => r.meta.prot # Never
    BY <1>2, <1>4, <2>6
  <2>8. \A r \in left : r \in all /\ (r \in rest \/ (r \in removed /\ r.meta.prot = Never))
    BY <1>5, <2>2 DEF Unnamed
  <2>9. \A r \in left : r.meta.expires = 0 => r.meta.prot = Never
    BY <1>1, <2>8 DEF MustForget
  <2>10. \/ \A r \in left : r.meta.prot # 0 /\ \A g \in given : g.id = r.id => g.prot # 0
         \/ Fit(left, s)
         \/ SpentPin(left)
    <3>1. CASE \E r \in removed : r.meta.prot = Never
      <4>1. PICK r \in removed : r.meta.prot = Never
        BY <3>1
      <4>2. r \in expired
        BY <1>4, <4>1
      <4>3. r \in left /\ MustForget(r)
        BY <1>5, <2>2, <4>1, <4>2 DEF Unnamed
      <4> QED
        BY <4>1, <4>3 DEF SpentPin
    <3>2. CASE \A r \in removed : r.meta.prot # Never
      <4>1. left = rest
        BY <1>5, <2>2, <2>8, <3>2 DEF Unnamed
      <4>2. CASE R = able
        <5>1. \A r \in rest : ~Evictable(r)
          BY <1>5, <4>2
        <5>2. \A r \in rest : r.meta.prot # 0
          BY <1>1, <5>1 DEF Evictable
        <5>3. given = {}
          BY <1>5, <2>6, <5>1
        <5> QED
          BY <4>1, <5>2, <5>3
      <4>3. CASE Fit(all \ (expired \cup R), s)
        BY <4>1, <4>3
      <4> QED
        BY <4>2, <4>3
    <3> QED
      BY <3>1, <3>2
  <2>11. \A r \in Named(items, s, run.evictions) : r.meta.prot # Never
    BY <2>1, <2>3
  <2>12. left = Unnamed(items, s, run.evictions)
    BY <2>1
  <2> QED
    BY <2>1, <2>4, <2>5, <2>7, <2>9, <2>10, <2>11, <2>12 DEF RunDue
<1> QED
  BY <1>7, <1>8, <1>9 DEF WorkOK

-----------------------------------------------------------------------------
(* Steps of the one caller.                                                *)

(* The rows and the counters are as they were.                             *)
Still == UNCHANGED <<items, capacity, erased>>

(* So is, with the clock, all the invariant speaks of but the call's own.  *)
Quiet == Still /\ UNCHANGED now

(* What has outlived its ttl still has.                                    *)
Later(rows) == \A r \in rows : MustForget(r) => MustForget(r)'

LEMMA ResultSame ==
  ASSUME items' = items, NEW t
  PROVE  Result(t)' = Result(t)
BY DEF Result, Kept, Targets, Inserted, Merged, Victims, InScope, CarriedAccess

LEMMA FitSame ==
  ASSUME NEW rows, NEW s, capacity'[s].budget = capacity[s].budget
  PROVE  Fit(rows, s)' = Fit(rows, s)
BY DEF Fit, Within, WouldExceed

LEMMA FaithfulLater ==
  ASSUME Still, Later(items), NEW t, NEW q, Faithful(t, q)
  PROVE  Faithful(t, q)'
<1>1. items' = items /\ capacity' = capacity /\ erased' = erased
  BY DEF Still
<1>2. NoneErased(t)' /\ ForgetsItsRefs(t, q)' /\ ProtectsByName(t)'
  BY <1>1 DEF Faithful, NoneErased, ForgetsItsRefs, ProtectsByName
<1>3. SparesPins(t, q)' /\ LosesNothing(t, q)'
  BY <1>1 DEF Faithful, SparesPins, LosesNothing, Named, InScope
<1>4. StaysWithin(t, q)'
  <2> PICK a, b : a = InScope(items, q.scope) /\ b = InScope(Result(t), q.scope)
    OBVIOUS
  <2>1. Result(t)' = Result(t)
    BY <1>1, ResultSame
  <2>2. InScope(items, q.scope)' = a /\ InScope(Result(t), q.scope)' = b
    BY <1>1, <2>1 DEF InScope
  <2>3. Fit(a, q.scope)' = Fit(a, q.scope) /\ Fit(b, q.scope)' = Fit(b, q.scope)
    BY <1>1, FitSame
  <2> QED
    BY <2>2, <2>3 DEF Faithful, StaysWithin, Fit
<1>5. Reclaims(t, q)'
  <2> PICK a : a = Unnamed(items, q.scope, t.evictions)
    OBVIOUS
  <2>1. Unnamed(items, q.scope, t.evictions)' = a
    BY <1>1 DEF Unnamed, InScope
  <2>2. a \subseteq items
    BY DEF Unnamed, InScope
  <2>3. Fit(a, q.scope)' = Fit(a, q.scope) /\ (SpentPin(a) => SpentPin(a)')
    BY <1>1, <2>2, FitSame DEF SpentPin, Later
  <2> QED
    BY <2>1, <2>3 DEF Faithful, Reclaims, Fit, SpentPin
<1> QED
  BY <1>2, <1>3, <1>4, <1>5 DEF Faithful

(* What is due of the rows stays due, also when time passes.               *)
LEMMA RunLater ==
  ASSUME NEW t, NEW m, NEW s, NEW rows, Later(rows), capacity'[s].budget = capacity[s].budget,
         RunDue(t, m, s, rows)
  PROVE  RunDue(t, m, s, rows)'
<1> PICK left : left = Unnamed(rows, s, t.evictions)
  OBVIOUS
<1>1. left \subseteq rows
  BY DEF Unnamed, InScope
<1>2. Fit(left, s)' = Fit(left, s)
  BY FitSame
<1>3. SpentPin(left) => SpentPin(left)'
  BY <1>1 DEF SpentPin, Later
<1>4. \/ \A r \in left : r.meta.prot # 0 /\ \A g \in m.grants : g.id = r.id => g.prot # 0
      \/ Fit(left, s)'
      \/ SpentPin(left)'
  BY <1>2, <1>3 DEF RunDue
<1>5. Unnamed(rows, s, t.evictions)' = left
  OBVIOUS
<1> QED
  BY <1>4, <1>5 DEF RunDue, Fit, SpentPin

LEMMA WorkLater ==
  ASSUME NEW m, NEW q, NEW rows, Later(rows),
         capacity'[q.scope].budget = capacity[q.scope].budget, WorkOK(m, q, rows)
  PROVE  WorkOK(m, q, rows)'
<1>1. \A t \in m.last : RunDue(t, m, q.scope, rows)'
  BY RunLater DEF WorkOK
<1> QED
  BY <1>1 DEF WorkOK

LEMMA AloneLater ==
  ASSUME Still, Later(items), NEW p, NEW q, NEW m, \A t \in m.txn : Later(Result(t)),
         AloneOK(p, q, m)
  PROVE  AloneOK(p, q, m)'
<1>1. items' = items /\ capacity' = capacity
  BY DEF Still
<1>2. ASSUME NEW rows, Later(rows), WorkOK(m, q, rows) PROVE WorkOK(m, q, rows)'
  BY <1>1, <1>2, WorkLater
<1>3. p \in {"candidates", "decide"} => m.capacity = capacity'[q.scope]
  BY <1>1 DEF AloneOK
<1>4. q.op = "maintain" /\ p \in {"capacity", "decide"} => m.seen = InScope(items, q.scope)'
  BY <1>1 DEF AloneOK, InScope
<1>5. p \in {"target", "apply"} => \A t \in m.txn : Faithful(t, q)'
  BY FaithfulLater DEF AloneOK
<1>6. p = "work" => WorkOK(m, q, items)'
  <2> PICK rows : rows = items
    OBVIOUS
  <2>1. p = "work" => WorkOK(m, q, rows)'
    BY <1>2 DEF AloneOK
  <2> QED
    BY <1>1, <2>1 DEF WorkOK, RunDue, MergeDue, Unnamed, Named, InScope, SpentPin
<1>7. ASSUME p = "apply", NEW t \in m.txn PROVE WorkOK(m, q, Result(t))'
  <2> PICK rows : rows = Result(t)
    OBVIOUS
  <2>1. WorkOK(m, q, rows)'
    BY <1>2, <1>7 DEF AloneOK
  <2>2. Result(t)' = rows
    BY <1>1, ResultSame
  <2>3. \A u \in m.last : RunDue(u, m, q.scope, Result(t))'
    <3> SUFFICES ASSUME NEW u \in m.last PROVE RunDue(u, m, q.scope, Result(t))'
      OBVIOUS
    <3> PICK left : left = Unnamed(rows, q.scope, u.evictions)
      OBVIOUS
    <3>1. Unnamed(Result(t), q.scope, u.evictions)' = left
      BY <2>2 DEF Unnamed, InScope
    <3>2. RunDue(u, m, q.scope, rows)'
      BY <2>1 DEF WorkOK
    <3>3. Fit(left, q.scope)' => Fit(Unnamed(Result(t), q.scope, u.evictions), q.scope)'
      BY <3>1 DEF Fit
    <3> QED
      BY <2>2, <3>1, <3>2, <3>3 DEF RunDue, Named, InScope, SpentPin, Fit
  <2> QED
    BY <2>1, <2>2, <2>3 DEF WorkOK, MergeDue, InScope
<1>8. p \notin {"work", "apply", "replay"} => NoWork(m)
  BY DEF AloneOK
<1> QED
  BY <1>3, <1>4, <1>5, <1>6, <1>7, <1>8 DEF AloneOK

LEMMA AloneSame ==
  ASSUME Quiet, NEW p, NEW q, NEW m, AloneOK(p, q, m)
  PROVE  AloneOK(p, q, m)'
<1>1. Still /\ \A rows : Later(rows)
  BY DEF Quiet, Later, MustForget
<1> QED
  BY <1>1, AloneLater

(* What the invariant says of each call, with its place named.             *)
AloneEach ==
  /\ erased \subseteq allocated
  /\ ErasedStaysErased
  /\ \A c \in Callers : \A p, q, m :
       pc[c] = p /\ req[c] = q /\ mem[c] = m => AloneOK(p, q, m)

LEMMA AloneEachIs == AloneEach <=> AloneInv
<1>1. ASSUME AloneEach, NEW c \in Callers PROVE AloneOK(pc[c], req[c], mem[c])
  BY <1>1 DEF AloneEach
<1>2. ASSUME AloneInv, NEW c \in Callers, NEW p, NEW q, NEW m,
             pc[c] = p, req[c] = q, mem[c] = m
      PROVE  AloneOK(p, q, m)
  BY <1>2 DEF AloneInv
<1> QED
  BY <1>1, <1>2 DEF AloneEach, AloneInv

LEMMA AloneMoves ==
  ASSUME OneCaller, EIInv, NEW c \in Callers, NEW p, NEW q, NEW m, Moves(c, p, q, m),
         erased' \subseteq allocated', ErasedStaysErased', AloneOK(p, q, m)'
  PROVE  AloneInv'
<1>1. ASSUME NEW d \in Callers, NEW x, NEW y, NEW z, pc'[d] = x, req'[d] = y, mem'[d] = z
      PROVE  AloneOK(x, y, z)'
  <2>1. d = c
    BY DEF OneCaller
  <2>2. x = p /\ y = q /\ z = m
    BY <1>1, <2>1 DEF EIInv, CallsOK, Moves
  <2> QED
    BY <2>2
<1>2. AloneEach'
  BY <1>1 DEF AloneEach
<1> QED
  BY <1>2, AloneEachIs, PTL

(* A step that leaves the rows and the counters as they are.               *)
LEMMA AloneQuiet ==
  ASSUME OneCaller, EIInv, AloneInv, Quiet, allocated \subseteq allocated',
         NEW c \in Callers, NEW p, NEW q, NEW m, Moves(c, p, q, m), AloneOK(p, q, m)
  PROVE  AloneInv'
<1>1. AloneOK(p, q, m)'
  BY AloneSame
<1>2. erased' \subseteq allocated' /\ ErasedStaysErased'
  BY DEF Quiet, Still, AloneInv, ErasedStaysErased
<1> QED
  BY <1>1, <1>2, AloneMoves

LEMMA AloneReads ==
  ASSUME OneCaller, EIInv, AloneInv, Reading,
         NEW c \in Callers, NEW p, NEW q, NEW m, Moves(c, p, q, m), AloneOK(p, q, m)
  PROVE  AloneInv'
<1>1. Quiet /\ allocated' = allocated
  BY DEF Reading, Quiet, Still, vars, tables, history
<1> QED
  BY <1>1, AloneQuiet

LEMMA BlankIsAlone == NoWork(Blank) /\ AloneOK("idle", NoRequest, Blank)
BY DEF Blank, NoWork, AloneOK

LEMMA AloneReturns ==
  ASSUME OneCaller, EIInv, AloneInv, Quiet, allocated \subseteq allocated',
         NEW c \in Callers, Return(c)
  PROVE  AloneInv'
BY ReturnMoves, BlankIsAlone, AloneQuiet

(* A call whose memory changes but for its work.                           *)
SameWork(m, n) ==
  n.rows = m.rows /\ n.merges = m.merges /\ n.grants = m.grants /\ n.last = m.last

LEMMA SameWorkIsOK ==
  ASSUME NEW m, NEW n, SameWork(m, n)
  PROVE  /\ NoWork(m) => NoWork(n)
         /\ \A q, rows : WorkOK(m, q, rows) => WorkOK(n, q, rows)
<1>1. LessWork(m, n)
  BY DEF SameWork, LessWork
<1> QED
  BY <1>1, LessWorkIsOK DEF SameWork, NoWork

(* A call with a transaction to apply, faithful to the rows it will find,  *)
(* and work that will be due of those it leaves.                           *)
LEMMA ReadyIsAlone ==
  ASSUME NEW m \in Locals, NEW q, NEW p \in {"apply", "target"}, NEW x, NEW n,
         n = [m EXCEPT !.txn = x], \A t \in x : Faithful(t, q),
         \/ NoWork(m)
         \/ p = "apply" /\ \A t \in x : WorkOK(m, q, Result(t))
  PROVE  AloneOK(p, q, n)
<1>1. n.txn = x /\ SameWork(m, n)
  BY DEF Locals, SameWork
<1>2. ASSUME NEW t \in x, p = "apply" PROVE WorkOK(n, q, Result(t))
  <2>1. WorkOK(m, q, Result(t))
    BY <1>2, NothingLeft
  <2> QED
    BY <1>1, <2>1, SameWorkIsOK
<1>3. p = "target" => NoWork(n)
  BY <1>1, SameWorkIsOK
<1> QED
  BY <1>1, <1>2, <1>3 DEF AloneOK

(* A reading step of a call, which then has a transaction to apply.        *)
LEMMA AloneReady ==
  ASSUME OneCaller, EIInv, AloneInv, Quiet, allocated \subseteq allocated',
         NEW c \in Callers, NEW m \in Locals, NEW p \in {"apply", "target"}, NEW t, NEW n,
         n = [m EXCEPT !.txn = {t}], Keep(c, n), Goto(c, p), UNCHANGED req,
         Faithful(t, req[c]),
         NoWork(m) \/ (p = "apply" /\ WorkOK(m, req[c], Result(t)))
  PROVE  AloneInv'
<1> PICK q : q = req[c]
  OBVIOUS
<1>1. AloneOK(p, q, n)
  BY ReadyIsAlone
<1>2. Moves(c, p, q, n)
  BY GoesOn
<1> QED
  BY <1>1, <1>2, AloneQuiet

LEMMA ReadingIsQuiet ==
  ASSUME Reading
  PROVE  Quiet /\ allocated \subseteq allocated'
BY DEF Reading, Quiet, Still, vars, tables, history

LEMMA NeighboursAlone ==
  ASSUME OneCaller, EIInv, AloneInv, NEW c \in Callers, ReadNeighbours(c)
  PROVE  AloneInv'
<1> PICK q, a : q = req[c] /\ a = mem[c]
  OBVIOUS
<1>1. At(c, "neighbours") /\ Goto(c, "capacity") /\ UNCHANGED req /\ Reading
  BY DEF ReadNeighbours
<1>2. q.op = "remember" /\ a \in Locals
  BY <1>1, Calling DEF At, OwnStage
<1>3. NoWork(a)
  BY <1>1 DEF AloneInv, AloneOK, At
<1>4. PICK n : Keep(c, n) /\ SameWork(a, n)
  <2>1. PICK e \in Embeds :
          \/ Keep(c, [[a EXCEPT !.embedded = e] EXCEPT !.verdict = "NearDuplicate"])
          \/ Keep(c, [a EXCEPT !.embedded = e])
          \/ \E r \in items : Keep(c, [[a EXCEPT !.embedded = e] EXCEPT
                                        !.verdict = "Mergeable", !.into = {r.id}])
    BY Zenon DEF ReadNeighbours, InScope
  <2> PICK b : b = [a EXCEPT !.embedded = e]
    OBVIOUS
  <2>2. SameWork(a, b)
    BY <1>2 DEF SameWork, Locals
  <2>3. SameWork(a, [b EXCEPT !.verdict = "NearDuplicate"])
    BY <1>2 DEF SameWork, Locals
  <2>4. \A r \in items : SameWork(a, [b EXCEPT !.verdict = "Mergeable", !.into = {r.id}])
    BY <1>2 DEF SameWork, Locals
  <2> QED
    BY <2>1, <2>2, <2>3, <2>4
<1>5. AloneOK("capacity", q, n)
  BY <1>2, <1>3, <1>4, SameWorkIsOK DEF AloneOK
<1> QED
  BY <1>1, <1>4, <1>5, GoesOn, AloneReads

LEMMA CapacityAlone ==
  ASSUME OneCaller, EIInv, AloneInv, NEW c \in Callers, ReadCapacity(c)
  PROVE  AloneInv'
<1> PICK q, a : q = req[c] /\ a = mem[c]
  OBVIOUS
<1> PICK n : n = [a EXCEPT !.capacity = capacity[q.scope]]
  OBVIOUS
<1> DEFINE p == IF q.op = "maintain" THEN "decide" ELSE "candidates"
<1>1. At(c, "capacity") /\ Goto(c, p) /\ Keep(c, n) /\ UNCHANGED req /\ Reading
  BY DEF ReadCapacity
<1>2. a \in Locals
  BY <1>1, Calling DEF At
<1>3. AloneOK("capacity", q, a)
  BY <1>1 DEF AloneInv, At
<1>4. SameWork(a, n) /\ n.seen = a.seen /\ n.capacity = capacity[q.scope]
  BY <1>2 DEF SameWork, Locals
<1>5. AloneOK(p, q, n)
  BY <1>3, <1>4, SameWorkIsOK DEF AloneOK
<1> QED
  BY <1>1, <1>5, GoesOn, AloneReads

LEMMA CandidatesAre ==
  ASSUME EIInv, NEW s, NEW k, NEW b, NEW n, NEW E \in Evictions(k, Candidates(s, k), n, b)
  PROVE  E \subseteq InScope(items, s) /\ \A r \in E : r.meta.prot # Never
<1>1. \A r \in E : r \in InScope(items, s) /\ Evictable(r)
  BY DEF Evictions, Candidates
<1> QED
  BY <1>1, NeverIs DEF Evictable, EIInv

LEMMA AdmitAlone ==
  ASSUME OneCaller, EIInv, AloneInv, NEW c \in Callers, Admit(c)
  PROVE  AloneInv'
<1> PICK r, m : r = req[c] /\ m = mem[c]
  OBVIOUS
<1> DEFINE rejected == Keyed(Txn(r.scope, "Rejected", {}), r)
           Takes(t) == Keep(c, [m EXCEPT !.txn = {t}])
<1>1. At(c, "candidates") /\ UNCHANGED <<req, vars, now, begun, history>>
  BY DEF Admit
<1>2. /\ r \in Requests /\ r.op = "remember" /\ m \in Locals /\ r.scope \in Scopes
      /\ r.body \in Bodies
  BY <1>1, Calling DEF At, OwnStage, Asked
<1>3. m.capacity = capacity[r.scope] /\ NoWork(m)
  BY <1>1 DEF At, AloneInv, AloneOK
<1>4. Quiet /\ IInv
  BY <1>1 DEF Quiet, Still, vars, tables, history, EIInv
<1>5. Faithful(rejected, r)
  <2>1. FieldsAre(rejected, r.scope, "Rejected", {}, {}, {}, {})
    BY PlainFields
  <2> HIDE DEF rejected
  <2> QED
    BY <1>4, <2>1, PlainIsFaithful
<1> HIDE DEF rejected
<1>6. ASSUME allocated \subseteq allocated', NEW t, Faithful(t, r), Takes(t),
             NEW p \in {"apply", "target"}, Goto(c, p)
      PROVE  AloneInv'
  <2> PICK n : n = [m EXCEPT !.txn = {t}]
    OBVIOUS
  <2> QED
    BY <1>1, <1>2, <1>3, <1>4, <1>6, AloneReady
<1>7. CASE m.verdict = "NearDuplicate"
  <2>1. Takes(rejected) /\ Goto(c, "apply") /\ UNCHANGED allocated
    BY <1>7 DEF Admit, rejected
  <2> QED
    BY <1>5, <1>6, <2>1
<1>8. CASE m.verdict = "Mergeable"
  <2>1. PICK id \in m.into : Takes(AdmissionMergeTxn(r, id, m.embedded))
    BY <1>8 DEF Admit
  <2>2. Goto(c, "target") /\ UNCHANGED allocated
    BY <1>8 DEF Admit
  <2>3. Faithful(AdmissionMergeTxn(r, id, m.embedded), r)
    BY AdmissionMergeFields, AdmissionMergeIsFaithful
  <2> QED
    BY <1>6, <2>1, <2>2, <2>3
<1>9. CASE m.verdict = "Novel"
  <2> DEFINE cands == Candidates(r.scope, m.capacity)
             Fits(E) == ~WouldExceed(Freed(m.capacity, E), 1, BodySize[r.body])
  <2>1. /\ Goto(c, "apply")
        /\ \E E \in Evictions(m.capacity, cands, 1, BodySize[r.body]),
               prot \in {0} \cup {now + 1 : x \in r.fragile} :
             \/ Takes(rejected) /\ UNCHANGED allocated
             \/ \E id \in FreshIds :
                  /\ Fits(E)
                  /\ Takes(RetainTxn(r, id, m.embedded, prot, E))
                  /\ allocated' = allocated \cup {id}
    BY <1>9 DEF Admit, rejected
  <2>2. CASE Takes(rejected) /\ UNCHANGED allocated
    BY <1>5, <1>6, <2>1, <2>2
  <2>3. ASSUME NEW E \in Evictions(m.capacity, cands, 1, BodySize[r.body]),
               NEW prot \in {0} \cup {now + 1 : x \in r.fragile}, NEW id \in FreshIds, Fits(E),
               Takes(RetainTxn(r, id, m.embedded, prot, E)),
               allocated' = allocated \cup {id}
        PROVE  AloneInv'
    <3> PICK t : t = RetainTxn(r, id, m.embedded, prot, E)
      OBVIOUS
    <3>1. E \subseteq InScope(items, r.scope) /\ \A v \in E : v.meta.prot # Never
      BY CandidatesAre
    <3>2. PICK w : /\ w.id = id /\ w.scope = r.scope /\ w.body = r.body /\ w.tags = {}
                   /\ FieldsAre(t, r.scope, "Admitted", {id}, Ids(E), {w}, {})
      BY RetainFields
    <3>3. id \in ItemIds /\ id \notin Ids(items) /\ id \notin erased
      BY DEF FreshIds, EIInv, AloneInv
    <3>4. ~WouldExceed(Freed(capacity[r.scope], E), 1, BodySize[w.body])
      BY <1>3, <2>3, <3>2
    <3>5. Faithful(t, r)
      BY <1>2, <1>4, <3>1, <3>2, <3>3, <3>4, RetainIsFaithful
    <3>6. allocated \subseteq allocated'
      BY <2>3
    <3> QED
      BY <1>6, <2>1, <2>3, <3>5, <3>6
  <2> QED
    BY <2>1, <2>2, <2>3, ZenonT(40)
<1> QED
  BY <1>2, <1>7, <1>8, <1>9 DEF Locals

(* One that only files an audit row.                                       *)
LEMMA NoticeIsFaithful ==
  ASSUME IInv, NEW q, NEW e \in {"Rejected", "Exported", "Imported", "PolicyChanged"}, NEW refs,
         NEW t, t = Txn(q.scope, e, refs)
  PROVE  Faithful(t, q)
<1>1. FieldsAre(t, q.scope, e, refs, {}, {}, {})
  BY PlainFields
<1> QED
  BY <1>1, PlainIsFaithful

LEMMA TargetAlone ==
  ASSUME OneCaller, EIInv, AloneInv, NEW c \in Callers, CheckTarget(c)
  PROVE  AloneInv'
<1> PICK r, m : r = req[c] /\ m = mem[c]
  OBVIOUS
<1> PICK t : t = Txn(r.scope, "Rejected", {})
  OBVIOUS
<1>1. At(c, "target") /\ Goto(c, "apply") /\ UNCHANGED req /\ Reading
  BY DEF CheckTarget
<1>2. m \in Locals /\ IInv
  BY <1>1, Calling DEF At, EIInv
<1>3. NoWork(m) /\ \A x \in m.txn : Faithful(x, r)
  BY <1>1 DEF At, AloneInv, AloneOK
<1>4. Keep(c, m) \/ Keep(c, [m EXCEPT !.txn = {t}])
  BY DEF CheckTarget, EIInv, CallsOK, Keep
<1>5. CASE Keep(c, m)
  <2>1. AloneOK("apply", r, m)
    BY <1>3, NothingLeft DEF AloneOK
  <2> QED
    BY <1>1, <1>5, <2>1, GoesOn, AloneReads
<1>6. CASE Keep(c, [m EXCEPT !.txn = {t}])
  <2> PICK n : n = [m EXCEPT !.txn = {t}]
    OBVIOUS
  <2>1. Faithful(t, r)
    BY <1>2, NoticeIsFaithful
  <2>2. Quiet /\ allocated \subseteq allocated'
    BY <1>1, ReadingIsQuiet
  <2>3. Keep(c, n) /\ Goto(c, "apply") /\ UNCHANGED req
    BY <1>1, <1>6
  <2> QED
    BY <1>2, <1>3, <2>1, <2>2, <2>3, AloneReady
<1> QED
  BY <1>4, <1>5, <1>6

LEMMA ReplayAlone ==
  ASSUME OneCaller, EIInv, AloneInv, NEW c \in Callers, ReplayOutcome(c)
  PROVE  AloneInv'
<1>1. Return(c) /\ Quiet /\ allocated' = allocated
  BY DEF ReplayOutcome, Quiet, Still, vars, tables
<1> QED
  BY <1>1, AloneReturns

LEMMA MatchAlone ==
  ASSUME OneCaller, EIInv, AloneInv, NEW c \in Callers, Match(c)
  PROVE  AloneInv'
<1> PICK q, m : q = req[c] /\ m = mem[c]
  OBVIOUS
<1> PICK matched : matched = Ids({r \in InScope(items, q.scope) : r.id \in q.ids})
  OBVIOUS
<1> PICK t : t = [Txn(q.scope, "Forgotten", matched) EXCEPT !.evictions = matched]
  OBVIOUS
<1> PICK n : n = [m EXCEPT !.txn = {t}]
  OBVIOUS
<1>1. /\ At(c, "match") /\ Goto(c, "apply") /\ UNCHANGED req /\ Reading
      /\ Keep(c, n)
  BY DEF Match
<1>2. m \in Locals /\ IInv /\ q.scope \in Scopes /\ q.op = "forget"
  BY <1>1, Calling DEF At, EIInv, OwnStage
<1>3. NoWork(m)
  BY <1>1 DEF At, AloneInv, AloneOK
<1>4. Faithful(t, q)
  BY <1>2, PlainFields, ForgetIsFaithful
<1> QED
  BY <1>1, <1>2, <1>3, <1>4, ReadingIsQuiet, AloneReady

LEMMA GrantAlone ==
  ASSUME OneCaller, EIInv, AloneInv, NEW c \in Callers, Grant(c)
  PROVE  AloneInv'
<1> PICK q, m : q = req[c] /\ m = mem[c]
  OBVIOUS
<1>1. At(c, "work") /\ Reading /\ m.merges = {}
  BY DEF Grant
<1>2. m \in Locals /\ IInv /\ q.scope \in Scopes /\ q \in Requests
  BY <1>1, Calling DEF At, EIInv
<1>3. WorkOK(m, q, items)
  BY <1>1 DEF At, AloneInv, AloneOK
<1>4. CASE Return(c)
  BY <1>1, <1>4, ReadingIsQuiet, AloneReturns
<1>5. CASE ~Return(c)
  <2>1. PICK g \in m.grants, r \in InScope(items, q.scope), e \in Embeds :
          /\ r.id = g.id
          /\ Keep(c, [m EXCEPT !.grants = @ \ {g},
                       !.txn = {Replacement([r EXCEPT !.meta.prot = g.prot], "Admitted", e)}])
          /\ Goto(c, "apply") /\ UNCHANGED req
    BY <1>5 DEF Grant
  <2> PICK v, n : v = [r EXCEPT !.meta.prot = g.prot] /\ n = [m EXCEPT !.grants = @ \ {g}]
    OBVIOUS
  <2> PICK t : t = Replacement(v, "Admitted", e)
    OBVIOUS
  <2> PICK k : k = [n EXCEPT !.txn = {t}]
    OBVIOUS
  <2>2. Keep(c, k)
    BY <2>1, Zenon
  <2>3. r \in ItemRow /\ r.scope = q.scope
    BY RowsOfScope
  <2>4. /\ v.id = r.id /\ v.scope = r.scope /\ v.body = r.body /\ v.tags = r.tags
        /\ v.meta.prot = g.prot /\ v.meta.expires = r.meta.expires
    BY <2>3, EngineAssumption DEF ItemRow, Meta
  <2>5. PICK w : WriteOf(w, v) /\ FieldsAre(t, q.scope, "Admitted", {r.id}, {r.id}, {w}, {})
    BY <2>3, <2>4, ReplacementFields
  <2>6. /\ w.id = r.id /\ w.scope = r.scope /\ w.body = r.body /\ w.tags = r.tags
        /\ w.meta.prot = g.prot /\ w.meta.expires = r.meta.expires
    BY <2>4, <2>5 DEF WriteOf
  <2>7. Faithful(t, q)
    BY <1>2, <2>5, <2>6, ReplacementIsFaithful DEF AloneInv
  <2>8. WorkOK(m, q, Result(t))
    BY <1>1, <1>2, <1>3, <2>1, <2>5, <2>6, WorkSurvivesGrant
  <2>9. n \in Locals /\ LessWork(m, n)
    BY <1>2 DEF Locals, LessWork
  <2>10. WorkOK(n, q, Result(t))
    BY <2>8, <2>9, LessWorkIsOK
  <2> QED
    BY <1>1, <2>1, <2>2, <2>7, <2>9, <2>10, ReadingIsQuiet, AloneReady
<1> QED
  BY <1>4, <1>5

LEMMA ListAlone ==
  ASSUME OneCaller, EIInv, AloneInv, NEW c \in Callers, List(c)
  PROVE  AloneInv'
<1> PICK q, m, all : q = req[c] /\ m = mem[c] /\ all = InScope(items, q.scope)
  OBVIOUS
<1>1. At(c, "list") /\ Reading
  BY DEF List
<1>2. m \in Locals
  BY <1>1, Calling DEF At
<1>3. NoWork(m)
  BY <1>1 DEF At, AloneInv, AloneOK
<1>4. CASE Return(c)
  BY <1>1, <1>4, ReadingIsQuiet, AloneReturns
<1>5. CASE ~Return(c) /\ q.op = "maintain"
  <2> PICK n : n = [m EXCEPT !.seen = all]
    OBVIOUS
  <2>1. Keep(c, n) /\ Goto(c, "capacity") /\ UNCHANGED req
    BY <1>5 DEF List
  <2>2. SameWork(m, n) /\ n.seen = all
    BY <1>2 DEF Locals, SameWork
  <2>3. AloneOK("capacity", q, n)
    BY <1>3, <2>2, SameWorkIsOK DEF AloneOK
  <2> QED
    BY <1>1, <2>1, <2>3, GoesOn, AloneReads
<1>6. CASE ~Return(c) /\ q.op # "maintain"
  <2> PICK some : some = {r \in all : q.pendingOnly => r.pending}
    OBVIOUS
  <2> PICK n : n = [m EXCEPT !.rows = some]
    OBVIOUS
  <2>1. Keep(c, n) /\ Goto(c, "work") /\ UNCHANGED req
    BY <1>6 DEF List
  <2>2. n.rows = some /\ n.merges = {} /\ n.grants = {} /\ n.last = {}
    BY <1>2, <1>3 DEF Locals, NoWork
  <2>3. some \subseteq items
    BY DEF InScope
  <2>4. AloneOK("work", q, n)
    BY <2>2, <2>3 DEF AloneOK, WorkOK
  <2> QED
    BY <1>1, <2>1, <2>4, GoesOn, AloneReads
<1> QED
  BY <1>4, <1>5, <1>6

LEMMA EmbedAlone ==
  ASSUME OneCaller, EIInv, AloneInv, NEW c \in Callers, Embed(c)
  PROVE  AloneInv'
<1> PICK q, m : q = req[c] /\ m = mem[c]
  OBVIOUS
<1>1. PICK r \in m.rows, e \in Embeds :
        /\ At(c, "work") /\ Reading /\ UNCHANGED req
        /\ LET n == [m EXCEPT !.rows = @ \ {r}] IN
           \/ Keep(c, [n EXCEPT !.txn = {Replacement(r, "Reembedded", TRUE)}]) /\ Goto(c, "apply")
           \/ Keep(c, n) /\ UNCHANGED pc
  BY DEF Embed
<1>2. CallOK(pc[c], q, m) /\ m \in Locals /\ IInv /\ q.scope \in Scopes
  BY <1>1, Calling DEF At, EIInv
<1> PICK n, t : n = [m EXCEPT !.rows = @ \ {r}] /\ t = Replacement(r, "Reembedded", TRUE)
  OBVIOUS
<1> PICK k : k = [n EXCEPT !.txn = {t}]
  OBVIOUS
<1>3. n \in Locals /\ LessWork(m, n) /\ n.rows = m.rows \ {r}
  BY <1>2 DEF Locals, LessWork
<1>4. WorkOK(m, q, items)
  BY <1>1 DEF At, AloneInv, AloneOK
<1>5. r \in InScope(items, q.scope) /\ r.scope = q.scope
  BY <1>2, <1>4 DEF CallOK, Listed, WorkOK, InScope
<1>6. CASE Keep(c, k) /\ Goto(c, "apply")
  <2>1. PICK w : WriteOf(w, r) /\ FieldsAre(t, q.scope, "Reembedded", {r.id}, {r.id}, {w}, {})
    BY <1>5, ReplacementFields
  <2>2. Faithful(t, q)
    BY <1>2, <1>5, <2>1, ReplacementIsFaithful DEF AloneInv, WriteOf
  <2>3. WorkOK(n, q, Result(t))
    BY <1>2, <1>3, <1>4, <1>5, <2>1, BatchSurvivesEmbedding
  <2> QED
    BY <1>1, <1>3, <1>6, <2>2, <2>3, ReadingIsQuiet, AloneReady
<1>7. CASE Keep(c, n) /\ UNCHANGED pc
  <2>1. AloneOK("work", q, n)
    BY <1>3, <1>4, LessWorkIsOK DEF AloneOK
  <2>2. Moves(c, "work", q, n)
    BY <1>1, <1>7, StaysPut DEF At
  <2> QED
    BY <1>1, <2>1, <2>2, AloneReads
<1> QED
  BY <1>1, <1>6, <1>7

LEMMA FoldAlone ==
  ASSUME OneCaller, EIInv, AloneInv, NEW c \in Callers, Fold(c)
  PROVE  AloneInv'
<1> PICK q, m : q = req[c] /\ m = mem[c]
  OBVIOUS
<1>1. At(c, "work") /\ UNCHANGED req /\ Reading
  BY DEF Fold
<1>2. m \in Locals /\ IInv /\ q.scope \in Scopes
  BY <1>1, Calling DEF At, EIInv
<1>3. PICK p \in m.merges :
        LET n == [m EXCEPT !.merges = @ \ {p}] IN
        \/ Keep(c, n) /\ UNCHANGED pc
        \/ /\ Goto(c, "apply")
           /\ \E target \in InScope(items, q.scope), e \in Embeds :
                /\ target.id = p[2].id
                /\ Keep(c, [n EXCEPT !.txn =
                   {[Txn(q.scope, "Merged", {p[1].id, target.id}) EXCEPT
                       !.evictions = {p[1].id},
                       !.merge = {[target |-> target.id, body |-> Folded(target, p[1]),
                                   tags |-> p[1].tags, pending |-> ~e,
                                   embedded |-> e]}]}])
  BY ZenonT(40) DEF Fold
<1> PICK n : n = [m EXCEPT !.merges = @ \ {p}]
  OBVIOUS
<1>4. n \in Locals /\ LessWork(m, n) /\ n.merges = m.merges \ {p}
  BY <1>2 DEF Locals, Merges, LessWork
<1>5. WorkOK(m, q, items)
  BY <1>1 DEF At, AloneInv, AloneOK
<1>6. CASE Keep(c, n) /\ UNCHANGED pc
  <2>1. AloneOK("work", q, n)
    BY <1>4, <1>5, LessWorkIsOK DEF AloneOK
  <2>2. Moves(c, "work", q, n)
    BY <1>1, <1>6, StaysPut DEF At
  <2> QED
    BY <1>1, <2>1, <2>2, AloneReads
<1>7. ASSUME Goto(c, "apply"), NEW target \in InScope(items, q.scope), NEW e \in Embeds,
             target.id = p[2].id,
             NEW t, t = [Txn(q.scope, "Merged", {p[1].id, target.id}) EXCEPT
                           !.evictions = {p[1].id},
                           !.merge = {[target |-> target.id, body |-> Folded(target, p[1]),
                                       tags |-> p[1].tags, pending |-> ~e, embedded |-> e]}],
             Keep(c, [n EXCEPT !.txn = {t}])
      PROVE  AloneInv'
  <2> PICK k, refs : k = [n EXCEPT !.txn = {t}] /\ refs = {p[1].id, target.id}
    OBVIOUS
  <2>1. PICK x : /\ FoldOf(x, target, p[1])
                 /\ FieldsAre(t, q.scope, "Merged", refs, {p[1].id}, {}, {x})
    BY <1>7, FoldFields
  <2>2. MergeDue(p, q.scope, items)
    BY <1>5 DEF WorkOK
  <2>3. refs # {}
    OBVIOUS
  <2>4. Faithful(t, q)
    BY <1>2, <1>7, <2>1, <2>2, <2>3, FoldIsFaithful
  <2>5. WorkOK(n, q, Result(t))
    BY <1>2, <1>4, <1>5, <1>7, <2>1, WorkSurvivesFold
  <2> QED
    BY <1>1, <1>4, <1>7, <2>4, <2>5, ReadingIsQuiet, AloneReady
<1> QED
  BY <1>3, <1>6, <1>7, ZenonT(40)

LEMMA FinishAlone ==
  ASSUME OneCaller, EIInv, AloneInv, NEW c \in Callers, Finish(c)
  PROVE  AloneInv'
<1> PICK q, m : q = req[c] /\ m = mem[c]
  OBVIOUS
<1>1. At(c, "work") /\ Reading /\ m.merges = {} /\ m.grants = {} /\ m.rows = {}
  BY DEF Finish
<1>2. CallOK(pc[c], q, m) /\ m \in Locals /\ IInv /\ q.scope \in Scopes
  BY <1>1, Calling DEF At, EIInv
<1>3. CASE Return(c)
  BY <1>1, <1>3, ReadingIsQuiet, AloneReturns
<1>4. CASE ~Return(c)
  <2> PICK n1 : n1 = [m EXCEPT !.txn = m.last]
    OBVIOUS
  <2> PICK n2 : n2 = [n1 EXCEPT !.last = {}]
    OBVIOUS
  <2>1. Keep(c, [m EXCEPT !.txn = m.last, !.last = {}]) /\ Goto(c, "apply") /\ UNCHANGED req
    BY <1>4 DEF Finish
  <2>2. Keep(c, n2)
    BY <2>1, Zenon
  <2>3. n2.txn = m.last /\ NoWork(n2)
    BY <1>1, <1>2 DEF Locals, NoWork
  <2>4. ASSUME NEW t \in m.last PROVE Faithful(t, q)
    <3>1. t.scope = q.scope
      BY <1>2 DEF CallOK, Sound, SoundFor
    <3>2. RunDue(t, m, q.scope, items)
      BY <1>1 DEF At, AloneInv, AloneOK, WorkOK
    <3> QED
      BY <1>1, <1>2, <3>1, <3>2, RunIsFaithful
  <2>5. AloneOK("apply", q, n2)
    BY <2>3, <2>4, NothingLeft DEF AloneOK
  <2> QED
    BY <1>1, <2>1, <2>2, <2>5, GoesOn, AloneReads
<1> QED
  BY <1>3, <1>4

LEMMA RetrieveAlone ==
  ASSUME OneCaller, EIInv, AloneInv, NEW c \in Callers, Retrieve(c)
  PROVE  AloneInv'
<1> PICK q, m : q = req[c] /\ m = mem[c]
  OBVIOUS
<1>1. At(c, "retrieve") /\ Goto(c, "record") /\ UNCHANGED req /\ Reading
  BY DEF Retrieve
<1>2. m \in Locals
  BY <1>1, Calling DEF At
<1>3. PICK ws : Keep(c, [m EXCEPT !.seen = ws])
  BY DEF Retrieve
<1> PICK n : n = [m EXCEPT !.seen = ws]
  OBVIOUS
<1>4. NoWork(m) /\ SameWork(m, n)
  BY <1>1, <1>2 DEF At, AloneInv, AloneOK, SameWork, Locals
<1>5. AloneOK("record", q, n)
  BY <1>4, SameWorkIsOK DEF AloneOK
<1> QED
  BY <1>1, <1>3, <1>5, GoesOn, AloneReads

LEMMA ExportAlone ==
  ASSUME OneCaller, EIInv, AloneInv, NEW c \in Callers, Export(c)
  PROVE  AloneInv'
<1> PICK q, m : q = req[c] /\ m = mem[c]
  OBVIOUS
<1> PICK t, n : t = Txn(AdminScope, "Exported", {}) /\ n = [m EXCEPT !.txn = {t}]
  OBVIOUS
<1>1. At(c, "export") /\ Keep(c, n) /\ Goto(c, "apply") /\ UNCHANGED req /\ Reading
  BY DEF Export
<1>2. m \in Locals /\ q.scope = AdminScope /\ IInv
  BY <1>1, Calling DEF At, OwnStage, Asked, EIInv
<1>3. NoWork(m)
  BY <1>1 DEF At, AloneInv, AloneOK
<1>4. Faithful(t, q)
  BY <1>2, NoticeIsFaithful
<1> QED
  BY <1>1, <1>2, <1>3, <1>4, ReadingIsQuiet, AloneReady

LEMMA BeginAlone ==
  ASSUME OneCaller, EIInv, AloneInv, NEW c \in Callers, Begin(c)
  PROVE  AloneInv'
<1>1. PICK r \in Requests :
        /\ req' = [req EXCEPT ![c] = r]
        /\ Goto(c, FirstStep(r.op))
        /\ IF r.op = "protect"
           THEN Keep(c, [Blank EXCEPT !.grants = {[id |-> r.id, prot |-> r.prot]}])
           ELSE Keep(c, Blank)
  BY DEF Begin
<1>2. Quiet /\ allocated' = allocated
  BY DEF Begin, Quiet, Still, vars, tables, history
<1> PICK p : p = FirstStep(r.op)
  OBVIOUS
<1>3. p \in {"neighbours", "retrieve", "match", "work", "list", "budget", "purge", "import", "export"}
      /\ (p = "work" <=> r.op = "protect")
  BY EngineAssumption DEF Asked, FirstStep
<1>4. CASE r.op # "protect"
  <2>1. Moves(c, p, r, Blank)
    BY <1>1, <1>4 DEF Moves, Goto, Keep
  <2>2. AloneOK(p, r, Blank)
    BY <1>3, <1>4, BlankIsAlone DEF AloneOK
  <2> QED
    BY <1>2, <2>1, <2>2, AloneQuiet
<1>5. CASE r.op = "protect"
  <2> PICK n : n = [Blank EXCEPT !.grants = {[id |-> r.id, prot |-> r.prot]}]
    OBVIOUS
  <2>1. Moves(c, p, r, n)
    BY <1>1, <1>5 DEF Moves, Goto, Keep
  <2>2. n.rows = {} /\ n.merges = {} /\ n.last = {}
    BY DEF Blank
  <2>3. WorkOK(n, r, items)
    BY <2>2 DEF WorkOK
  <2>4. AloneOK(p, r, n)
    BY <1>3, <1>5, <2>3 DEF AloneOK
  <2> QED
    BY <1>2, <2>1, <2>4, AloneQuiet
<1> QED
  BY <1>4, <1>5

LEMMA DropAlone ==
  ASSUME OneCaller, EIInv, AloneInv, NEW c \in Callers, Drop(c)
  PROVE  AloneInv'
BY ReadingIsQuiet, AloneReturns DEF Drop

LEMMA DecideAlone ==
  ASSUME OneCaller, EIInv, AloneInv, NEW c \in Callers, Decide(c)
  PROVE  AloneInv'
<1> PICK q, m : q = req[c] /\ m = mem[c]
  OBVIOUS
<1> PICK all, k : all = InScope(items, q.scope) /\ k = capacity[q.scope]
  OBVIOUS
<1>1. At(c, "decide") /\ Goto(c, "work") /\ UNCHANGED req /\ Reading
  BY DEF Decide
<1>2. m \in Locals /\ q.scope \in Scopes /\ q.op = "maintain"
  BY <1>1, Calling DEF At, OwnStage
<1>3. m.seen = all /\ m.capacity = k /\ NoWork(m)
  BY <1>1, <1>2 DEF At, AloneInv, AloneOK
<1> PICK expired : expired = {r \in all : MustForget(r)}
  OBVIOUS
<1> PICK able : able = {r \in all \ expired : Evictable(r)}
  OBVIOUS
<1>4. PICK R \in (IF IsBounded(k.budget) THEN Evictions(Freed(k, expired), able, 0, 0) ELSE {{}}) :
        \E regrants \in (IF expired \cup R = {} THEN {{}}
                         ELSE SUBSET {r \in all \ (expired \cup R) : Evictable(r)}) :
        \E M \in Consolidations(all \ (expired \cup R),
                   Ids((expired \cup R) \cup regrants
                         \cup {r \in (all \ (expired \cup R)) \ regrants : r.meta.prot \in 1..now})) :
          Plan(c, expired \cup R, regrants,
               {r \in (all \ (expired \cup R)) \ regrants : r.meta.prot \in 1..now}, M)
  BY <1>3 DEF Decide
<1>5. R \subseteq able /\ (R = able \/ Fit(all \ (expired \cup R), q.scope))
  <2>1. R \subseteq able
    BY DEF Evictions
  <2> QED
    BY <1>2, <2>1, DecidedRoom
<1> PICK removed : removed = expired \cup R
  OBVIOUS
<1> PICK rest : rest = all \ removed
  OBVIOUS
<1>6. PICK regrants \in SUBSET {r \in rest : Evictable(r)} :
        \E M \in Consolidations(rest, Ids((removed \cup regrants)
                         \cup {r \in rest \ regrants : r.meta.prot \in 1..now})) :
          Plan(c, removed, regrants, {r \in rest \ regrants : r.meta.prot \in 1..now}, M)
  <2>1. expired \cup R = removed /\ all \ removed = rest
    OBVIOUS
  <2>2. PICK g \in (IF removed = {} THEN {{}} ELSE SUBSET {r \in rest : Evictable(r)}) :
          \E M \in Consolidations(rest, Ids((removed \cup g)
                           \cup {r \in rest \ g : r.meta.prot \in 1..now})) :
            Plan(c, removed, g, {r \in rest \ g : r.meta.prot \in 1..now}, M)
    <3> DEFINE Goes(gone, left) ==
                 \E g \in (IF gone = {} THEN {{}} ELSE SUBSET {r \in left : Evictable(r)}) :
                 \E M \in Consolidations(left, Ids((gone \cup g)
                                  \cup {r \in left \ g : r.meta.prot \in 1..now})) :
                   Plan(c, gone, g, {r \in left \ g : r.meta.prot \in 1..now}, M)
    <3>1. Goes(expired \cup R, all \ (expired \cup R))
      BY <1>4
    <3> HIDE DEF Goes
    <3>2. Goes(removed, rest)
      BY <2>1, <3>1
    <3> QED
      BY <3>2 DEF Goes
  <2>3. g \in SUBSET {r \in rest : Evictable(r)}
    OBVIOUS
  <2> QED
    BY <2>2, <2>3, ZenonT(40)
<1> PICK released : released = {r \in rest \ regrants : r.meta.prot \in 1..now}
  OBVIOUS
<1>7. PICK M \in Consolidations(rest, Ids(removed \cup regrants \cup released)) :
        Plan(c, removed, regrants, released, M)
  BY <1>6
<1> PICK given : given = {[id |-> r.id, prot |-> now + 1] : r \in regrants} \cup
                         {[id |-> r.id, prot |-> 0] : r \in released}
  OBVIOUS
<1> PICK gone : gone = Ids({r \in removed : r.meta.prot # Never})
  OBVIOUS
<1> PICK run : run = [Txn(q.scope, "MaintenanceRun", gone) EXCEPT !.evictions = gone]
  OBVIOUS
<1> PICK last : last = IF gone = {} /\ given = {} THEN {} ELSE {run}
  OBVIOUS
<1> PICK n : n = Planned(m, M, given, last)
  OBVIOUS
<1>8. Keep(c, n)
  BY <1>7, Zenon DEF Plan, Planned
<1>9. n.rows = {} /\ n.merges = M /\ n.grants = given /\ n.last \subseteq {run}
  <2>1. n = [m EXCEPT !.seen = {}, !.merges = M, !.grants = given, !.last = last]
    BY Zenon DEF Planned
  <2>2. n.rows = m.rows /\ n.merges = M /\ n.grants = given /\ n.last = last
    BY <1>2, <2>1 DEF Locals
  <2> QED
    BY <1>3, <2>2 DEF NoWork
<1>10. FieldsAre(run, q.scope, "MaintenanceRun", gone, gone, {}, {})
  BY PlainFields
<1>11. \A g \in given : \E r \in regrants \cup released :
         g.id = r.id /\ (g.prot = now + 1 \/ g.prot = 0)
  BY SMTT(20)
<1>12. /\ \A r \in regrants : r \in rest /\ Evictable(r)
       /\ \A r \in released : r \in rest /\ r.meta.prot \in 1..now
  OBVIOUS
<1>13. PlanOf(q, all, expired, able, R, removed, rest, regrants, released, given, M, gone,
              run, n)
  BY <1>5, <1>7, <1>9, <1>10, <1>11, <1>12 DEF PlanOf
<1>14. WorkOK(n, q, items)
  BY <1>2, <1>13, PlannedIsDue
<1>15. AloneOK("work", q, n)
  BY <1>14 DEF AloneOK
<1> QED
  BY <1>1, <1>8, <1>15, GoesOn, AloneReads

-----------------------------------------------------------------------------
(* Steps that write.                                                       *)

(* Nothing is due of a call that has ended.                                *)
LEMMA BlankLater == AloneOK("idle", NoRequest, Blank)'
BY DEF AloneOK, Blank, NoWork

LEMMA AloneEnds ==
  ASSUME OneCaller, EIInv, AloneInv, NEW c \in Callers, Return(c),
         erased' \subseteq allocated', ErasedStaysErased'
  PROVE  AloneInv'
BY BlankLater, ReturnMoves, AloneMoves

LEMMA RecordAlone ==
  ASSUME OneCaller, EIInv, AloneInv, NEW c \in Callers, Record(c)
  PROVE  AloneInv'
<1> PICK s, refs : s = req[c].scope /\ refs = Ids(mem[c].seen)
  OBVIOUS
<1>1. /\ RecordRecall(s, refs, minted + 1, AnyMeta) /\ Return(c)
      /\ UNCHANGED <<allocated, erased>>
  BY DEF Record, history
<1>2. items' = {IF r.scope = s /\ r.id \in refs THEN [r EXCEPT !.access = @ + 1] ELSE r
                : r \in items}
  BY <1>1 DEF RecordRecall
<1>3. \A r \in items : [r EXCEPT !.access = @ + 1].id = r.id
  BY DEF EIInv, IInv, TypeOK, ItemRow
<1>4. \A r \in items' : r.id \notin erased
  BY <1>2, <1>3 DEF AloneInv, ErasedStaysErased
<1> QED
  BY <1>1, <1>4, AloneEnds DEF AloneInv, ErasedStaysErased

LEMMA PurgeAlone ==
  ASSUME OneCaller, EIInv, AloneInv, NEW c \in Callers, Purge(c)
  PROVE  AloneInv'
<1> PICK j : j = SubjectOf(req[c].scope)
  OBVIOUS
<1> PICK gone : gone = OfSubject(items, j)
  OBVIOUS
<1>1. items' = items \ gone
  BY DEF Purge, PurgeSubject
<1>2. Return(c) /\ allocated' = allocated /\ erased' = erased \cup Ids(gone)
  BY DEF Purge
<1>3. gone \subseteq items
  BY DEF OfSubject
<1>4. \A r \in items' : r.id \notin erased'
  BY <1>1, <1>2, <1>3 DEF AloneInv, ErasedStaysErased, EIInv, IInv, PrimaryKeys, Ids
<1>5. erased' \subseteq allocated'
  BY <1>2, <1>3 DEF AloneInv, EIInv, Ids
<1> QED
  BY <1>2, <1>4, <1>5, AloneEnds DEF ErasedStaysErased

(* What only files an audit row is faithful to any rows.                   *)
Notices ==
  \A q, t, refs : \A e \in {"Rejected", "Exported", "Imported", "PolicyChanged"} :
    t = Txn(q.scope, e, refs) => Faithful(t, q)

LEMMA NoticesAreFaithful == IInv => Notices
BY NoticeIsFaithful DEF Notices

(* A step that writes, and leaves the call an audit row to file.           *)
LEMMA AloneFiles ==
  ASSUME OneCaller, EIInv, AloneInv, IInv', NEW c \in Callers, NEW m \in Locals, NoWork(m),
         NEW q, q = req[c], NEW e \in {"Imported", "PolicyChanged"}, NEW refs,
         NEW t, t = Txn(q.scope, e, refs), NEW n, n = [m EXCEPT !.txn = {t}],
         Keep(c, n), Goto(c, "apply"), UNCHANGED req,
         erased' \subseteq allocated', ErasedStaysErased'
  PROVE  AloneInv'
<1>1. n.txn = {t} /\ SameWork(m, n)
  BY DEF Locals, SameWork
<1>2. n.rows = {} /\ n.merges = {} /\ n.grants = {} /\ n.last = {}
  BY <1>1, SameWorkIsOK DEF NoWork
<1>3. Notices'
  BY NoticesAreFaithful, PTL
<1>4. Faithful(t, q)'
  BY <1>3 DEF Notices
<1>5. WorkOK(n, q, Result(t))'
  BY <1>2 DEF WorkOK
<1>6. AloneOK("apply", q, n)'
  BY <1>1, <1>4, <1>5 DEF AloneOK
<1>7. Moves(c, "apply", q, n)
  BY GoesOn
<1> QED
  BY <1>6, <1>7, AloneMoves

LEMMA BudgetAlone ==
  ASSUME OneCaller, EIInv, AloneInv, NEW c \in Callers, ChangeBudget(c)
  PROVE  AloneInv'
<1> PICK q, m : q = req[c] /\ m = mem[c]
  OBVIOUS
<1> PICK t : t = Txn(q.scope, "PolicyChanged", {})
  OBVIOUS
<1> PICK n : n = [m EXCEPT !.txn = {t}]
  OBVIOUS
<1>1. /\ At(c, "budget") /\ SetBudget(q.scope, q.budget)
      /\ Keep(c, n) /\ Goto(c, "apply") /\ UNCHANGED req /\ UNCHANGED <<allocated, erased>>
  BY DEF ChangeBudget, history
<1>2. m \in Locals /\ NoWork(m)
  BY <1>1, Calling DEF At, AloneInv, AloneOK
<1>3. IInv'
  BY BudgetKeeps DEF EIInv
<1>4. erased' \subseteq allocated' /\ ErasedStaysErased'
  BY <1>1 DEF SetBudget, AloneInv, ErasedStaysErased
<1> QED
  BY <1>1, <1>2, <1>3, <1>4, AloneFiles

LEMMA ImportAlone ==
  ASSUME OneCaller, EIInv, AloneInv, NEW c \in Callers, ImportStreamOf(c)
  PROVE  AloneInv'
<1> PICK q, m : q = req[c] /\ m = mem[c]
  OBVIOUS
<1>1. PICK st \in Streams :
        LET s2 == [st EXCEPT !.items = {Reassessed(w) : w \in st.items}] IN
        /\ Import(s2)
        /\ IF ImportCommits(s2)
           THEN /\ allocated' = allocated \cup Ids(st.items)
                /\ erased' = erased \ Ids(st.items)
                /\ Keep(c, [m EXCEPT !.txn = {Txn(AdminScope, "Imported", Ids(st.items))}])
                /\ Goto(c, "apply") /\ UNCHANGED req
           ELSE Return(c) /\ UNCHANGED <<allocated, erased>>
  BY DEF ImportStreamOf
<1> PICK s2, refs : s2 = [st EXCEPT !.items = {Reassessed(w) : w \in st.items}]
                    /\ refs = Ids(st.items)
  OBVIOUS
<1>2. At(c, "import") /\ now' = now
  BY DEF ImportStreamOf
<1>3. m \in Locals /\ NoWork(m) /\ q.scope = AdminScope
  BY <1>2, Calling DEF At, OwnStage, Asked, AloneInv, AloneOK
<1>4. IInv'
  BY ImportStepKeeps DEF EIInv
<1>5. Ids(s2.items) = refs
  BY ReassessedIsSound DEF EIInv
<1>6. CASE ImportCommits(s2)
  <2> PICK t : t = Txn(q.scope, "Imported", refs)
    OBVIOUS
  <2> PICK n : n = [m EXCEPT !.txn = {t}]
    OBVIOUS
  <2>1. /\ allocated' = allocated \cup refs /\ erased' = erased \ refs
        /\ Keep(c, n) /\ Goto(c, "apply") /\ UNCHANGED req
    BY <1>1, <1>3, <1>6
  <2>2. \A r \in items' : r \in items \/ r.id \in refs
    <3>1. items' = items \cup ImportedRows(s2)
      BY <1>1, <1>6 DEF Import, ImportCommit
    <3>2. \A r \in ImportedRows(s2) : r.id \in Ids(s2.items)
      BY DEF ImportedRows, NewItems, Ids
    <3> QED
      BY <1>5, <3>1, <3>2
  <2>3. erased' \subseteq allocated' /\ ErasedStaysErased'
    BY <2>1, <2>2 DEF AloneInv, ErasedStaysErased
  <2> QED
    BY <1>3, <1>4, <2>1, <2>3, AloneFiles
<1>7. CASE ~ImportCommits(s2)
  <2>1. Return(c) /\ UNCHANGED <<allocated, erased, items, capacity>>
    BY <1>1, <1>7 DEF Import, tables
  <2> QED
    BY <1>2, <2>1, AloneReturns DEF Quiet, Still
<1> QED
  BY <1>6, <1>7

(* What a transaction that commits does.                                   *)
LEMMA CommitIs ==
  ASSUME EIInv, NEW t, t.scope \in Scopes, NEW id, Commits(t), Apply(t, id)
  PROVE  /\ items' = Result(t)
         /\ \A s \in Scopes : capacity'[s].budget = capacity[s].budget
         /\ audit' = audit \cup {[id |-> id, scope |-> t.auditScope, event |-> t.event,
                                  items |-> t.refs, meta |-> t.auditMeta]}
<1>1. capacity' = [capacity EXCEPT ![t.scope] = Adjusted(@, DeltaItems(t), DeltaBytes(t))]
  BY DEF Apply, ApplyCommit
<1>2. \A k \in CapacityRow : \A a, b : Adjusted(k, a, b).budget = k.budget
  BY DEF Adjusted, CapacityRow
<1>3. capacity \in [Scopes -> CapacityRow]
  BY DEF EIInv, IInv, TypeOK
<1>4. \A s \in Scopes : capacity'[s].budget = capacity[s].budget
  BY <1>1, <1>2, <1>3
<1> QED
  BY <1>4 DEF Apply, ApplyCommit, AuditInserted, Result

(* What a forget removes is not there afterwards; nothing else is erased.  *)
LEMMA CommitErases ==
  ASSUME EIInv, AloneInv, NEW t, NEW q, NEW id, Commits(t), Apply(t, id), Faithful(t, q),
         erased' = IF t.event = "Forgotten" THEN erased \cup Ids(Victims(t)) ELSE erased
  PROVE  ErasedStaysErased' /\ erased' \subseteq allocated
<1>1. Victims(t) \subseteq items
  BY DEF Victims, InScope
<1>2. erased' \subseteq allocated
  BY <1>1 DEF AloneInv, EIInv, Ids
<1>3. CASE t.event # "Forgotten"
  <2>1. Ids(items') \subseteq Ids(items) \cup Ids(t.upsert)
    BY ApplyIds
  <2>2. Ids(items) \cap erased = {} /\ Ids(t.upsert) \cap erased = {}
    BY DEF AloneInv, ErasedStaysErased, Ids, Faithful, NoneErased
  <2> QED
    BY <1>2, <1>3, <2>1, <2>2 DEF ErasedStaysErased, Ids
<1>4. CASE t.event = "Forgotten"
  <2>1. t.upsert = {}
    BY <1>4 DEF Faithful, ForgetsItsRefs
  <2>2. items' = (Kept(t) \ Targets(t)) \cup Merged(t)
    BY <2>1 DEF Apply, ApplyCommit, Inserted
  <2>3. Targets(t) \subseteq Kept(t)
    BY DEF Targets, InScope
  <2>4. \A r \in Merged(t) : \E k \in Kept(t) : r.id = k.id
    <3>1. \A k \in Kept(t) : \A x : MergedRow(k, x).id = k.id
      BY DEF Kept, MergedRow, ItemRow, EIInv, IInv, TypeOK
    <3> QED
      BY <2>3, <3>1 DEF Merged
  <2>5. \A r \in items' : \E k \in Kept(t) : r.id = k.id
    BY <2>2, <2>4
  <2>6. \A k \in Kept(t) : k.id \notin erased /\ k.id \notin Ids(Victims(t))
    BY <1>1 DEF Kept, AloneInv, ErasedStaysErased, EIInv, IInv, PrimaryKeys, Ids
  <2> QED
    BY <1>2, <1>4, <2>5, <2>6 DEF ErasedStaysErased
<1> QED
  BY <1>3, <1>4

LEMMA TransactionAlone ==
  ASSUME OneCaller, EIInv, AloneInv, NEW c \in Callers, DoTransaction(c)
  PROVE  AloneInv'
<1> PICK q, m : q = req[c] /\ m = mem[c]
  OBVIOUS
<1>1. PICK t \in m.txn :
        /\ At(c, "apply") /\ Apply(t, minted + 1)
        /\ UNCHANGED <<now, allocated>>
        /\ \/ /\ Commits(t) /\ AfterCommit(c)
              /\ erased' = IF t.event = "Forgotten" THEN erased \cup Ids(Victims(t)) ELSE erased
           \/ /\ ~Commits(t) /\ erased' = erased
              /\ \E x \in Prior(t) : Keep(c, [m EXCEPT !.replayed = {x.outcome}])
              /\ Goto(c, "replay") /\ UNCHANGED req
           \/ ~Commits(t) /\ erased' = erased /\ Return(c)
  BY DEF DoTransaction, Replays, Commits, history
<1>2. CallOK(pc[c], q, m) /\ m \in Locals /\ q.scope \in Scopes
  BY <1>1, Calling DEF At
<1>3. Faithful(t, q) /\ WorkOK(m, q, Result(t))
  BY <1>1 DEF At, AloneInv, AloneOK
<1>4. t.scope = q.scope
  BY <1>2 DEF CallOK, Sound, SoundFor
<1>5. CASE ~Commits(t)
  <2>1. Quiet /\ allocated \subseteq allocated'
    BY <1>1, <1>5 DEF Apply, tables, Quiet, Still
  <2>2. CASE Return(c)
    BY <2>1, <2>2, AloneReturns
  <2>3. ASSUME NEW n, Keep(c, n), Goto(c, "replay"), UNCHANGED req PROVE AloneInv'
    <3>1. AloneOK("replay", q, n)
      BY DEF AloneOK
    <3> QED
      BY <2>1, <2>3, <3>1, GoesOn, AloneQuiet
  <2> QED
    BY <1>1, <1>5, <2>2, <2>3
<1>6. CASE Commits(t)
  <2>1. AfterCommit(c)
    BY <1>1, <1>6
  <2>2. ErasedStaysErased' /\ erased' \subseteq allocated'
    BY <1>1, <1>3, <1>6, CommitErases
  <2>3. CASE Return(c)
    BY <2>2, <2>3, AloneEnds
  <2>4. CASE ~Return(c)
    <3> PICK n : n = [m EXCEPT !.txn = {}]
      OBVIOUS
    <3> PICK rows : rows = Result(t)
      OBVIOUS
    <3>1. Goto(c, "work") /\ Keep(c, n) /\ UNCHANGED req
      BY <2>1, <2>4 DEF AfterCommit
    <3>2. SameWork(m, n)
      BY <1>2 DEF SameWork, Locals
    <3>3. WorkOK(n, q, rows)
      BY <1>3, <3>2, SameWorkIsOK
    <3>4. /\ items' = rows /\ Later(rows)
          /\ capacity'[q.scope].budget = capacity[q.scope].budget
      BY <1>1, <1>2, <1>4, <1>6, CommitIs DEF Later, MustForget
    <3>5. WorkOK(n, q, rows)'
      BY <3>3, <3>4, WorkLater
    <3>6. WorkOK(n, q, items)'
      BY <3>4, <3>5, ZenonT(40) DEF WorkOK, RunDue, MergeDue, Unnamed, Named, InScope, SpentPin
    <3>7. AloneOK("work", q, n)'
      BY <3>6 DEF AloneOK
    <3> QED
      BY <2>2, <3>1, <3>7, GoesOn, AloneMoves
  <2> QED
    BY <2>3, <2>4
<1> QED
  BY <1>5, <1>6

(* Every row a transaction may leave has columns the engine can read.      *)
LEMMA ResultMetas ==
  ASSUME EIInv, NEW t \in WriteTransaction, NEW r \in Result(t)
  PROVE  r.meta \in Meta
<1>1. \A k \in items : k \in ItemRow /\ k.meta \in Meta
  BY EngineAssumption DEF EIInv, IInv, TypeOK, ItemRow
<1>2. \A k \in Inserted(t) : k.meta \in Meta
  BY EngineAssumption DEF Inserted, WriteTransaction, AtMostOne, ItemWrite
<1>3. \A k \in ItemRow : \A x : MergedRow(k, x).meta = k.meta
  BY DEF MergedRow, ItemRow
<1>4. \A k \in Merged(t) : k.meta \in Meta
  BY <1>1, <1>3 DEF Merged, Targets, Kept, InScope
<1> QED
  BY <1>1, <1>2, <1>4 DEF Result, Kept

LEMMA TickAlone ==
  ASSUME OneCaller, EIInv, AloneInv, Tick
  PROVE  AloneInv'
<1>1. Still /\ allocated' = allocated /\ UNCHANGED calls /\ now' = now + 1 /\ now \in Nat
  BY NeverIs DEF Tick, Still, vars, tables, history, EIInv
<1>2. ASSUME NEW rows, \A r \in rows : r.meta \in Meta PROVE Later(rows)
  BY <1>1, <1>2, NeverIs DEF Later, MustForget, Meta
<1>3. Later(items)
  BY <1>2, EngineAssumption DEF EIInv, IInv, TypeOK, ItemRow
<1>4. ASSUME NEW d \in Callers, NEW x, NEW y, NEW z, pc'[d] = x, req'[d] = y, mem'[d] = z
      PROVE  AloneOK(x, y, z)'
  <2>1. pc[d] = x /\ req[d] = y /\ mem[d] = z
    BY <1>1, <1>4 DEF calls
  <2>2. AloneOK(x, y, z) /\ z \in Locals
    BY <2>1 DEF AloneInv, EIInv, CallsOK
  <2>3. \A t \in z.txn : Later(Result(t))
    BY <1>2, <2>2, ResultMetas DEF Locals
  <2> QED
    BY <1>1, <1>3, <2>2, <2>3, AloneLater
<1>5. erased' \subseteq allocated' /\ ErasedStaysErased'
  BY <1>1 DEF Still, AloneInv, ErasedStaysErased
<1>6. AloneEach'
  BY <1>4, <1>5 DEF AloneEach
<1> QED
  BY <1>6, AloneEachIs, PTL

-----------------------------------------------------------------------------
(* The invariant holds at the start, and every step keeps it.              *)

LEMMA EngineInitAlone == EngineInit => AloneInv
BY BlankIsAlone DEF EngineInit, AloneInv, ErasedStaysErased

LEMMA StepAlone ==
  ASSUME OneCaller, EIInv, AloneInv, NEW c \in Callers, Step(c)
  PROVE  AloneInv'
<1>1. ReadNeighbours(c) \/ ReadCapacity(c) \/ Admit(c) \/ CheckTarget(c) => AloneInv'
  BY NeighboursAlone, CapacityAlone, AdmitAlone, TargetAlone
<1>2. DoTransaction(c) \/ ReplayOutcome(c) \/ Match(c) \/ Grant(c) => AloneInv'
  BY TransactionAlone, ReplayAlone, MatchAlone, GrantAlone
<1>3. List(c) \/ Decide(c) \/ Fold(c) \/ Embed(c) \/ Finish(c) => AloneInv'
  BY ListAlone, DecideAlone, FoldAlone, EmbedAlone, FinishAlone
<1>4. Retrieve(c) \/ Record(c) \/ ChangeBudget(c) \/ Purge(c) => AloneInv'
  BY RetrieveAlone, RecordAlone, BudgetAlone, PurgeAlone
<1>5. ImportStreamOf(c) \/ Export(c) => AloneInv'
  BY ImportAlone, ExportAlone
<1> QED
  BY <1>1, <1>2, <1>3, <1>4, <1>5 DEF Step

LEMMA EngineNextAlone ==
  ASSUME OneCaller, EIInv, AloneInv, [EngineNext]_engineVars
  PROVE  AloneInv'
<1>1. CASE Tick
  BY <1>1, TickAlone
<1>2. ASSUME NEW c \in Callers, Begin(c) \/ Step(c) \/ Drop(c) PROVE AloneInv'
  BY <1>2, BeginAlone, StepAlone, DropAlone
<1>3. CASE UNCHANGED engineVars
  <2>1. Quiet /\ allocated' = allocated /\ UNCHANGED calls
    BY <1>3 DEF engineVars, Quiet, Still, vars, tables, history
  <2>2. ASSUME NEW d \in Callers, NEW x, NEW y, NEW z, pc'[d] = x, req'[d] = y, mem'[d] = z
        PROVE  AloneOK(x, y, z)'
    <3>1. AloneOK(x, y, z)
      BY <2>1, <2>2 DEF calls, AloneInv
    <3> QED
      BY <2>1, <3>1, AloneSame
  <2>3. AloneEach'
    BY <2>1, <2>2 DEF AloneEach, Quiet, Still, AloneInv, ErasedStaysErased
  <2> QED
    BY <2>3, AloneEachIs, PTL
<1> QED
  BY <1>1, <1>2, <1>3 DEF EngineNext

(* With a single caller, what a call read is still so when it writes.      *)
LEMMA AloneInvariant ==
  ASSUME OneCaller
  PROVE  EngineSpec => [](EIInv /\ AloneInv)
<1>1. EngineInit => EIInv /\ AloneInv
  BY EngineInitIInv, EngineInitAlone
<1>2. EIInv /\ AloneInv /\ [EngineNext]_engineVars => (EIInv /\ AloneInv)'
  BY EngineNextKeeps, EngineNextAlone
<1> QED
  BY <1>1, <1>2, PTL DEF EngineSpec

(* What a forget or a purge reported removed is never seen again, unless   *)
(* an import brings it back.                                               *)
THEOREM ErasedStaysErasedAlways ==
  ASSUME OneCaller
  PROVE  EngineSpec => []ErasedStaysErased
<1>1. EIInv /\ AloneInv => ErasedStaysErased
  BY DEF AloneInv
<1> QED
  BY <1>1, AloneInvariant, PTL

-----------------------------------------------------------------------------
(* What a step does to the rows, the counters and the audit trail.         *)

(* Nothing to the rows, and no audit row.                                  *)
Idle == UNCHANGED <<items, audit>> /\ (capacity' = capacity \/ minted' = minted)

(* A transaction commits.                                                  *)
Wrote(t, q) ==
  /\ t \in WriteTransaction /\ IsValid(t) /\ Commits(t) /\ Apply(t, minted + 1)
  /\ q.scope \in Scopes /\ t.scope = q.scope /\ Faithful(t, q)

(* A recall is recorded.                                                   *)
Recalled(s, refs) == RecordRecall(s, refs, minted + 1, AnyMeta)

(* A subject is purged.                                                    *)
Purged(s, cascade, n) == PurgeSubject(SubjectOf(s), cascade, <<SubjectOf(s), n>>, minted + 1, AnyMeta)

(* A stream is imported, believed in nothing.                              *)
Received(st, s2) ==
  /\ st \in Streams /\ s2 = [st EXCEPT !.items = {Reassessed(w) : w \in st.items}]
  /\ ImportCommits(s2) /\ ImportCommit(s2) /\ minted' = minted

StepIs ==
  \/ Idle
  \/ \E t, q : Wrote(t, q)
  \/ \E s, refs : Recalled(s, refs)
  \/ \E s, cascade, n : Purged(s, cascade, n)
  \/ \E st, s2 : Received(st, s2)

LEMMA CallStepIs ==
  ASSUME EIInv, AloneInv, NEW c \in Callers, Begin(c) \/ Step(c) \/ Drop(c)
  PROVE  StepIs
<1>1. Reading \/ Begin(c) \/ Admit(c) \/ ReplayOutcome(c) => Idle
  BY DEF Reading, Begin, Admit, ReplayOutcome, Idle, vars, tables
<1>2. \/ Drop(c) \/ ReadNeighbours(c) \/ ReadCapacity(c) \/ CheckTarget(c) \/ Match(c)
      \/ Grant(c) \/ List(c) \/ Decide(c) \/ Fold(c) \/ Embed(c) \/ Finish(c)
      \/ Retrieve(c) \/ Export(c)
      => Reading
  BY DEF Drop, ReadNeighbours, ReadCapacity, CheckTarget, Match, Grant, List,
         Decide, Fold, Embed, Finish, Retrieve, Export
<1>3. CASE Record(c)
  <2>1. Recalled(req[c].scope, Ids(mem[c].seen))
    BY <1>3 DEF Record, Recalled
  <2> QED
    BY <2>1 DEF StepIs
<1>4. CASE ChangeBudget(c)
  BY <1>4 DEF ChangeBudget, SetBudget, Idle, StepIs
<1>5. CASE Purge(c)
  <2>1. PICK n \in Namespaces : Purged(req[c].scope, req[c].cascade, n)
    BY <1>5 DEF Purge, Purged
  <2> QED
    BY <2>1 DEF StepIs
<1>6. CASE ImportStreamOf(c)
  <2>1. PICK st \in Streams : Import([st EXCEPT !.items = {Reassessed(w) : w \in st.items}])
    BY <1>6 DEF ImportStreamOf
  <2> PICK s2 : s2 = [st EXCEPT !.items = {Reassessed(w) : w \in st.items}]
    OBVIOUS
  <2>2. minted' = minted
    BY <1>6 DEF ImportStreamOf
  <2>3. Received(st, s2) \/ Idle
    BY <2>1, <2>2 DEF Import, Received, Idle, tables
  <2> QED
    BY <2>3 DEF StepIs
<1>7. CASE DoTransaction(c)
  <2> PICK q : q = req[c]
    OBVIOUS
  <2>1. PICK t \in mem[c].txn : At(c, "apply") /\ Apply(t, minted + 1)
    BY <1>7 DEF DoTransaction
  <2>2. CallOK(pc[c], q, mem[c]) /\ q.scope \in Scopes
    BY <2>1, Calling DEF At
  <2>3. SoundFor(t, q.scope, allocated) /\ Faithful(t, q)
    BY <2>1, <2>2 DEF CallOK, Sound, At, AloneInv, AloneOK
  <2>4. t \in WriteTransaction /\ IsValid(t) /\ t.scope = q.scope
    BY <2>3, SoundIsTyped DEF SoundFor
  <2>5. Commits(t) => Wrote(t, q)
    BY <2>1, <2>2, <2>3, <2>4 DEF Wrote
  <2>6. ~Commits(t) => Idle
    BY <2>1 DEF Apply, tables, Idle
  <2> QED
    BY <2>5, <2>6 DEF StepIs
<1> QED
  BY <1>1, <1>2, <1>3, <1>4, <1>5, <1>6, <1>7 DEF Step, StepIs

LEMMA EngineStepIs ==
  ASSUME EIInv, AloneInv, [EngineNext]_engineVars
  PROVE  StepIs
<1>1. CASE Tick
  BY <1>1 DEF Tick, StepIs, Idle, vars, tables
<1>2. CASE UNCHANGED engineVars
  BY <1>2 DEF engineVars, StepIs, Idle, vars, tables
<1> QED
  BY <1>1, <1>2, CallStepIs DEF EngineNext

(* The audit rows such a step files.                                       *)
FiledOnly(row) == \A e, a : a \in Filed(e) <=> a = row /\ row.event = e

LEMMA FilesOne ==
  ASSUME EIInv, NEW old, old \subseteq audit, NEW row, row.id = minted + 1,
         audit' = old \cup {row}
  PROVE  FiledOnly(row)
<1>1. minted \in Nat /\ \A a \in audit : a.id \in Int /\ a.id =< minted
  BY DEF EIInv, IInv, TypeOK, AuditIdsMinted, AuditRow
<1> QED
  BY <1>1 DEF Filed, FiledOnly

LEMMA FilesNone ==
  ASSUME EIInv, NEW rows, audit' = audit \cup rows, \A a \in rows : a.id \in Int /\ a.id < 0
  PROVE  \A e : Filed(e) = {}
<1>1. minted \in Nat /\ \A a \in audit : a.id \in Int /\ a.id =< minted
  BY DEF EIInv, IInv, TypeOK, AuditIdsMinted, AuditRow
<1> QED
  BY <1>1 DEF Filed

LEMMA IdleFiles ==
  ASSUME EIInv, Idle
  PROVE  \A e : Filed(e) = {}
<1> PICK none : none = {}
  OBVIOUS
<1>1. audit' = audit \cup none /\ \A a \in none : a.id \in Int /\ a.id < 0
  BY DEF Idle
<1> QED
  BY <1>1, FilesNone

LEMMA WroteIs ==
  ASSUME EIInv, NEW t, NEW q, Wrote(t, q)
  PROVE  /\ items' = Result(t)
         /\ \A s \in Scopes : capacity'[s].budget = capacity[s].budget
         /\ \E row : /\ row.scope = t.scope /\ row.event = t.event /\ row.items = t.refs
                     /\ FiledOnly(row)
<1>1. PICK row : row = [id |-> minted + 1, scope |-> t.auditScope, event |-> t.event,
                        items |-> t.refs, meta |-> t.auditMeta]
  OBVIOUS
<1>2. /\ items' = Result(t)
      /\ \A s \in Scopes : capacity'[s].budget = capacity[s].budget
      /\ audit' = audit \cup {row}
  BY <1>1, CommitIs DEF Wrote
<1>3. /\ row.id = minted + 1 /\ row.event = t.event /\ row.items = t.refs
      /\ row.scope = t.scope
  BY <1>1 DEF Wrote, IsValid
<1>4. FiledOnly(row)
  BY <1>2, <1>3, FilesOne
<1> QED
  BY <1>2, <1>3, <1>4

LEMMA RecalledIs ==
  ASSUME EIInv, NEW s, NEW refs, Recalled(s, refs)
  PROVE  /\ \A r \in items : \E v \in items' : v.id = r.id /\ v.scope = r.scope
         /\ \A v \in items' : \E r \in items : r.id = v.id /\ r.scope = v.scope /\ r.meta = v.meta
         /\ capacity' = capacity
         /\ \E row : row.event = "Recalled" /\ FiledOnly(row)
<1>1. /\ items' = {IF r.scope = s /\ r.id \in refs THEN [r EXCEPT !.access = @ + 1] ELSE r
                   : r \in items}
      /\ capacity' = capacity
  BY DEF Recalled, RecordRecall
<1>2. \A r \in items : LET v == [r EXCEPT !.access = @ + 1] IN
                       v.id = r.id /\ v.scope = r.scope /\ v.meta = r.meta
  BY DEF EIInv, IInv, TypeOK, ItemRow
<1>3. PICK row : row = [id |-> minted + 1, scope |-> s, event |-> "Recalled", items |-> refs,
                        meta |-> AnyMeta]
  OBVIOUS
<1>4. audit' = audit \cup {row}
  BY <1>3 DEF Recalled, RecordRecall, AuditInserted
<1>5. row.id = minted + 1 /\ row.event = "Recalled"
  BY <1>3
<1>6. FiledOnly(row)
  BY <1>4, <1>5, FilesOne
<1> QED
  BY <1>1, <1>2, <1>5, <1>6, ZenonT(40)

LEMMA PurgedIs ==
  ASSUME EIInv, NEW s, NEW cascade, NEW n, Purged(s, cascade, n)
  PROVE  /\ items' = items \ OfSubject(items, SubjectOf(s))
         /\ capacity' = PurgedCapacity(SubjectOf(s))
         /\ \E row : /\ row.event = "SubjectPurged" /\ SubjectOf(row.scope) = SubjectOf(s)
                     /\ FiledOnly(row)
<1> PICK j : j = SubjectOf(s)
  OBVIOUS
<1>1. PICK row : row = [id |-> minted + 1, scope |-> <<j, n>>, event |-> "SubjectPurged",
                        items |-> {}, meta |-> AnyMeta]
  OBVIOUS
<1>2. PICK old : old = PurgedAudit(j, cascade)
  OBVIOUS
<1>3. audit' = old \cup {row} /\ old \subseteq audit
  BY <1>1, <1>2 DEF Purged, PurgeSubject, PurgedAudit
<1>4. row.id = minted + 1 /\ row.event = "SubjectPurged" /\ SubjectOf(row.scope) = j
  BY <1>1 DEF SubjectOf
<1>5. FiledOnly(row)
  BY <1>3, <1>4, FilesOne
<1> QED
  BY <1>4, <1>5 DEF Purged, PurgeSubject

LEMMA ReceivedIs ==
  ASSUME EIInv, NEW st, NEW s2, Received(st, s2)
  PROVE  /\ items \subseteq items'
         /\ \A v \in items' \ items : v.id \notin Ids(items) /\ v.meta.prot =< now + 1
         /\ minted' = minted
         /\ \A e : Filed(e) = {}
<1>1. st \in ImportStream /\ \A a \in st.audits : a.id \in Int /\ a.id < 0
  BY CallersAreSound DEF Received, SoundStreams, ImportStream, AuditRow
<1>2. /\ items' = items \cup ImportedRows(s2) /\ audit' = audit \cup s2.audits
      /\ \A w \in NewItems(s2) : w.id \notin Ids(items)
  BY DEF Received, ImportCommit, ImportCommits, AuditInserted
<1>3. s2.items = {Reassessed(w) : w \in st.items} /\ s2.audits = st.audits
  BY <1>1 DEF Received, ImportStream
<1>4. ASSUME NEW w \in st.items PROVE Reassessed(w).meta.prot =< now + 1
  <2>1. w \in ExportItem /\ w.meta \in Meta /\ w.meta.prot \in Nat /\ now \in Nat
    BY <1>1, EngineAssumption, NeverIs DEF ImportStream, ExportItem, Meta, EIInv
  <2> PICK p : p = IF w.meta.prot = Never THEN 0
                   ELSE IF w.meta.prot > now + 1 THEN now + 1 ELSE w.meta.prot
    OBVIOUS
  <2>2. p =< now + 1
    BY <2>1
  <2>3. Reassessed(w).meta.prot = p
    BY <2>1 DEF Reassessed, ExportItem, Meta
  <2> QED
    BY <2>2, <2>3
<1>5. \A v \in ImportedRows(s2) : v.id \notin Ids(items) /\ v.meta.prot =< now + 1
  <2>1. \A w \in NewItems(s2) : w.id \notin Ids(items) /\ w.meta.prot =< now + 1
    BY <1>2, <1>3, <1>4 DEF NewItems
  <2> QED
    BY <2>1 DEF ImportedRows
<1>6. \A e : Filed(e) = {}
  BY <1>1, <1>2, <1>3, FilesNone
<1> QED
  BY <1>2, <1>5, <1>6 DEF Received

-----------------------------------------------------------------------------
(* What such steps never do.                                               *)

(* A pinned row goes only by a Forgotten row that names it, or a purge.    *)
PinnedStay ==
  \A r \in items : r.meta.prot = Never /\ ~Survives(r) =>
    \/ \E a \in Filed("Forgotten") : a.scope = r.scope /\ r.id \in a.items
    \/ \E a \in Filed("SubjectPurged") : SubjectOf(a.scope) = SubjectOf(r.scope)

LEMMA MergedStays ==
  ASSUME EIInv, NEW t, NEW r \in Targets(t)
  PROVE  \E m \in t.merge : LET v == MergedRow(r, m) IN
           /\ m.target = r.id /\ v \in Merged(t)
           /\ v.id = r.id /\ v.scope = r.scope /\ v.meta = r.meta /\ v.body = m.body
<1>1. r \in ItemRow
  BY DEF Targets, Kept, InScope, EIInv, IInv, TypeOK
<1>2. PICK m \in t.merge : m.target = r.id
  BY DEF Targets
<1>3. MergedRow(r, m) \in Merged(t)
  BY DEF Merged
<1>4. LET v == MergedRow(r, m) IN
      v.id = r.id /\ v.scope = r.scope /\ v.meta = r.meta /\ v.body = m.body
  BY <1>1 DEF MergedRow, ItemRow
<1> QED
  BY <1>2, <1>3, <1>4

LEMMA KeptStays ==
  ASSUME EIInv, NEW t, NEW r \in Kept(t)
  PROVE  \E v \in Result(t) : v.id = r.id /\ v.scope = r.scope
<1>1. CASE r \in Targets(t)
  BY <1>1, MergedStays DEF Result
<1>2. CASE r \notin Targets(t)
  BY <1>2 DEF Result
<1> QED
  BY <1>1, <1>2

LEMMA PinnedStep ==
  ASSUME EIInv, StepIs
  PROVE  PinnedStay
<1>1. CASE Idle
  BY <1>1 DEF Idle, PinnedStay, Survives
<1>2. ASSUME NEW t, NEW q, Wrote(t, q), NEW r \in items, r.meta.prot = Never, ~Survives(r)
      PROVE  \E a \in Filed("Forgotten") : a.scope = r.scope /\ r.id \in a.items
  <2>1. PICK row : /\ row.scope = t.scope /\ row.event = t.event /\ row.items = t.refs
                   /\ FiledOnly(row)
    BY <1>2, WroteIs
  <2>2. items' = Result(t)
    BY <1>2, WroteIs
  <2>3. r \notin Kept(t)
    BY <1>2, <2>2, KeptStays DEF Survives
  <2>4. r.scope = t.scope /\ r.id \in t.evictions
    BY <2>3 DEF Kept, Victims, InScope
  <2>5. r \in Named(items, q.scope, t.evictions)
    BY <1>2, <2>4 DEF Named, InScope, Wrote
  <2>6. CASE t.event = "Forgotten"
    <3>1. r.id \in t.refs
      BY <1>2, <2>4, <2>6 DEF Wrote, Faithful, ForgetsItsRefs
    <3>2. row \in Filed("Forgotten")
      BY <2>1, <2>6 DEF FiledOnly
    <3> QED
      BY <2>1, <2>4, <3>1, <3>2
  <2>7. CASE t.event # "Forgotten"
    <3>1. r.id \in Ids(t.upsert)
      BY <1>2, <2>5, <2>7 DEF Wrote, Faithful, SparesPins
    <3>2. PICK w \in t.upsert : w.id = r.id /\ w.scope = t.scope
      BY <1>2, <3>1 DEF Ids, Wrote, IsValid
    <3> PICK v : v = [id |-> w.id, scope |-> w.scope, body |-> w.body, tags |-> w.tags,
                      meta |-> w.meta, pending |-> w.pending, access |-> CarriedAccess(t, w)]
      OBVIOUS
    <3>3. v \in Inserted(t) /\ v.id = r.id /\ v.scope = r.scope
      BY <2>4, <3>2 DEF Inserted
    <3> QED
      BY <1>2, <2>2, <3>3 DEF Result, Survives
  <2> QED
    BY <2>6, <2>7
<1>3. ASSUME NEW s, NEW refs, Recalled(s, refs)
      PROVE  PinnedStay
  BY <1>3, RecalledIs DEF PinnedStay, Survives
<1>4. ASSUME NEW s, NEW cascade, NEW n, Purged(s, cascade, n)
      PROVE  PinnedStay
  <2>1. PICK row : /\ row.event = "SubjectPurged" /\ SubjectOf(row.scope) = SubjectOf(s)
                   /\ FiledOnly(row)
    BY <1>4, PurgedIs
  <2>2. row \in Filed("SubjectPurged")
    BY <2>1 DEF FiledOnly
  <2>3. items' = items \ OfSubject(items, SubjectOf(s))
    BY <1>4, PurgedIs
  <2> QED
    BY <2>1, <2>2, <2>3 DEF PinnedStay, Survives, OfSubject
<1>5. ASSUME NEW st, NEW s2, Received(st, s2)
      PROVE  PinnedStay
  BY <1>5, ReceivedIs DEF PinnedStay, Survives
<1> QED
  BY <1>1, <1>2, <1>3, <1>4, <1>5 DEF StepIs, PinnedStay

(* Protection changes only with an Admitted row that names the item.       *)
ProtectedByName ==
  \A q \in items' :
    \/ \E r \in items : r.id = q.id /\ r.scope = q.scope /\ r.meta.prot = q.meta.prot
    \/ q.id \notin Ids(items) /\ q.meta.prot =< now + 1
    \/ \E a \in Filed("Admitted") : a.scope = q.scope /\ q.id \in a.items

LEMMA ProtectionStep ==
  ASSUME EIInv, StepIs
  PROVE  ProtectedByName
<1>1. CASE Idle
  BY <1>1 DEF Idle, ProtectedByName
<1>2. ASSUME NEW t, NEW q, Wrote(t, q), NEW v \in items'
      PROVE  \/ \E r \in items : r.id = v.id /\ r.scope = v.scope /\ r.meta.prot = v.meta.prot
             \/ \E a \in Filed("Admitted") : a.scope = v.scope /\ v.id \in a.items
  <2>1. PICK row : /\ row.scope = t.scope /\ row.event = t.event /\ row.items = t.refs
                   /\ FiledOnly(row)
    BY <1>2, WroteIs
  <2>2. v \in Result(t)
    BY <1>2, WroteIs
  <2>3. CASE v \in Kept(t)
    BY <2>3 DEF Kept
  <2>4. CASE v \in Merged(t)
    <3>1. PICK r \in Targets(t), m \in t.merge : v = MergedRow(r, m)
      BY <2>4 DEF Merged
    <3>2. r \in items /\ r \in ItemRow
      BY DEF Targets, Kept, InScope, EIInv, IInv, TypeOK
    <3>3. v.id = r.id /\ v.scope = r.scope /\ v.meta = r.meta
      BY <3>1, <3>2 DEF MergedRow, ItemRow
    <3> QED
      BY <3>2, <3>3
  <2>5. CASE v \in Inserted(t)
    <3>1. PICK w \in t.upsert : v.id = w.id /\ v.scope = w.scope /\ v.meta = w.meta
      BY <2>5 DEF Inserted
    <3>2. w.scope = t.scope
      BY <1>2 DEF Wrote, IsValid
    <3>3. CASE t.event = "Admitted" /\ w.id \in t.refs
      <4>1. row \in Filed("Admitted")
        BY <2>1, <3>3 DEF FiledOnly
      <4> QED
        BY <2>1, <3>1, <3>2, <3>3, <4>1
    <3>4. CASE \E r \in items : r.id = w.id /\ r.scope = w.scope /\ r.meta.prot = w.meta.prot
      BY <3>1, <3>4
    <3> QED
      BY <1>2, <3>3, <3>4 DEF Wrote, Faithful, ProtectsByName
  <2> QED
    BY <2>2, <2>3, <2>4, <2>5 DEF Result
<1>3. ASSUME NEW s, NEW refs, Recalled(s, refs)
      PROVE  ProtectedByName
  BY <1>3, RecalledIs DEF ProtectedByName
<1>4. ASSUME NEW s, NEW cascade, NEW n, Purged(s, cascade, n)
      PROVE  ProtectedByName
  BY <1>4, PurgedIs DEF ProtectedByName
<1>5. ASSUME NEW st, NEW s2, Received(st, s2)
      PROVE  ProtectedByName
  BY <1>5, ReceivedIs DEF ProtectedByName
<1> QED
  BY <1>1, <1>2, <1>3, <1>4, <1>5 DEF StepIs, ProtectedByName

(* A fold loses no fact of its scope.                                      *)
FoldsKeepContent ==
  \A a \in Filed("Merged") :
    a.items # {} => Facts(items, a.scope) \subseteq Facts(items', a.scope)

LEMMA ContentStep ==
  ASSUME EIInv, StepIs
  PROVE  FoldsKeepContent
<1>1. CASE Idle
  BY <1>1, IdleFiles DEF FoldsKeepContent
<1>2. ASSUME NEW t, NEW q, Wrote(t, q)
      PROVE  FoldsKeepContent
  <2>1. PICK row : /\ row.scope = t.scope /\ row.event = t.event /\ row.items = t.refs
                   /\ FiledOnly(row)
    BY <1>2, WroteIs
  <2>2. SUFFICES ASSUME t.event = "Merged", t.refs # {}
                 PROVE  Facts(items, t.scope) \subseteq Facts(items', t.scope)
    BY <2>1 DEF FoldsKeepContent, FiledOnly
  <2>3. /\ t.upsert = {} /\ t.merge # {} /\ q.scope = t.scope
        /\ \A m \in t.merge : \A r \in Named(items, t.scope, t.evictions \cup {m.target}) :
             r.body \subseteq m.body
    BY <1>2, <2>2 DEF Wrote, Faithful, LosesNothing, IsFold
  <2>4. items' = Result(t)
    BY <1>2, WroteIs
  <2>5. ASSUME NEW r \in InScope(items, t.scope)
        PROVE  \E v \in InScope(items', t.scope) : r.body \subseteq v.body
    <3>1. CASE r \in Victims(t)
      <4>1. PICK k \in Targets(t) : TRUE
        BY <1>2, <2>3 DEF Wrote, Commits, TargetMissing
      <4>2. PICK m \in t.merge, v \in Merged(t) : v.scope = k.scope /\ v.body = m.body
        BY MergedStays
      <4>3. r \in Named(items, t.scope, t.evictions \cup {m.target})
        BY <3>1 DEF Named, Victims, InScope
      <4>4. k.scope = t.scope
        BY DEF Targets, InScope
      <4> QED
        BY <2>3, <2>4, <4>2, <4>3, <4>4 DEF Result, InScope
    <3>2. CASE r \in Targets(t)
      <4>1. PICK m \in t.merge, v \in Merged(t) :
              m.target = r.id /\ v.scope = r.scope /\ v.body = m.body
        BY <3>2, MergedStays
      <4>2. r \in Named(items, t.scope, t.evictions \cup {m.target})
        BY <4>1 DEF Named, InScope
      <4> QED
        BY <2>3, <2>4, <4>1, <4>2 DEF Result, InScope
    <3>3. CASE r \in Kept(t) \ Targets(t)
      BY <2>4, <3>3 DEF Result, InScope
    <3> QED
      BY <3>1, <3>2, <3>3 DEF Kept, InScope
  <2> QED
    BY <2>5 DEF Facts
<1>3. ASSUME NEW s, NEW refs, Recalled(s, refs)
      PROVE  FoldsKeepContent
  BY <1>3, RecalledIs DEF FoldsKeepContent, FiledOnly
<1>4. ASSUME NEW s, NEW cascade, NEW n, Purged(s, cascade, n)
      PROVE  FoldsKeepContent
  BY <1>4, PurgedIs DEF FoldsKeepContent, FiledOnly
<1>5. ASSUME NEW st, NEW s2, Received(st, s2)
      PROVE  FoldsKeepContent
  BY <1>5, ReceivedIs DEF FoldsKeepContent
<1> QED
  BY <1>1, <1>2, <1>3, <1>4, <1>5 DEF StepIs

(* A run of maintenance leaves nothing that is spent, and its scope within *)
(* its budget or nothing unprotected, unless a spent pin is there.         *)
RunsReclaim ==
  \A a \in Filed("MaintenanceRun") :
    \A r \in InScope(items', a.scope) : r.meta.prot = 0 =>
      /\ r.meta.expires # 0
      /\ \/ Within(capacity'[a.scope])
         \/ \E q \in InScope(items', a.scope) : q.meta.prot = Never /\ MustForget(q)

(* The counters say what fits.                                             *)
CountersSay ==
  \A s \in Scopes : \A rows : rows = InScope(items, s) => (Within(capacity[s]) <=> Fit(rows, s))

LEMMA CountersDoSay == IInv => CountersSay
BY FitIsWithin DEF CountersSay

LEMMA FitsNow ==
  ASSUME IInv', NEW s \in Scopes, capacity'[s].budget = capacity[s].budget,
         NEW rows, rows = InScope(items', s), Fit(rows, s)
  PROVE  Within(capacity'[s])
<1>1. CountersSay'
  BY CountersDoSay, PTL
<1>2. Fit(rows, s)'
  BY FitSame
<1>3. rows = InScope(items, s)'
  BY DEF InScope
<1>4. Within(capacity[s])'
  BY <1>1, <1>2, <1>3 DEF CountersSay
<1> QED
  BY <1>4 DEF Within, WouldExceed

LEMMA RunStep ==
  ASSUME EIInv, IInv', StepIs
  PROVE  RunsReclaim
<1>1. CASE Idle
  BY <1>1, IdleFiles DEF RunsReclaim
<1>2. ASSUME NEW t, NEW q, Wrote(t, q)
      PROVE  RunsReclaim
  <2>1. PICK row : /\ row.scope = t.scope /\ row.event = t.event /\ row.items = t.refs
                   /\ FiledOnly(row)
    BY <1>2, WroteIs
  <2> PICK s, left : s = t.scope /\ left = Unnamed(items, s, t.evictions)
    OBVIOUS
  <2>2. SUFFICES ASSUME t.event = "MaintenanceRun", NEW r \in InScope(items', s), r.meta.prot = 0
                 PROVE  /\ r.meta.expires # 0
                        /\ \/ Within(capacity'[s])
                           \/ \E v \in InScope(items', s) : v.meta.prot = Never /\ MustForget(v)
    BY <2>1 DEF RunsReclaim, FiledOnly
  <2>3. /\ t.upsert = {} /\ t.merge = {} /\ q.scope = s /\ s \in Scopes
        /\ \A v \in left : v.meta.prot = 0 => v.meta.expires # 0
        /\ \/ \A v \in left : v.meta.prot # 0
           \/ Fit(left, s)
           \/ SpentPin(left)
    BY <1>2, <2>2 DEF Wrote, Faithful, Reclaims
  <2>4. items' = items \ Named(items, s, t.evictions)
    BY <1>2, <2>3, WroteIs, PlainResult
  <2>5. InScope(items', s) = left
    BY <2>4, ScopeLess
  <2>6. Fit(left, s) => Within(capacity'[s])
    BY <1>2, <2>3, <2>5, WroteIs, FitsNow
  <2> QED
    BY <2>2, <2>3, <2>5, <2>6 DEF SpentPin
<1>3. ASSUME NEW s, NEW refs, Recalled(s, refs)
      PROVE  RunsReclaim
  BY <1>3, RecalledIs DEF RunsReclaim, FiledOnly
<1>4. ASSUME NEW s, NEW cascade, NEW n, Purged(s, cascade, n)
      PROVE  RunsReclaim
  BY <1>4, PurgedIs DEF RunsReclaim, FiledOnly
<1>5. ASSUME NEW st, NEW s2, Received(st, s2)
      PROVE  RunsReclaim
  BY <1>5, ReceivedIs DEF RunsReclaim
<1> QED
  BY <1>1, <1>2, <1>3, <1>4, <1>5 DEF StepIs

(* No step takes a scope over its budget, but for those that are named.    *)
RoomIsKept ==
  \A s \in Scopes :
    capacity'[s].budget = capacity[s].budget /\ Within(capacity[s]) =>
      \/ Within(capacity'[s])
      \/ minted' = minted
      \/ \E a \in Filed("Merged") : a.scope = s /\ a.items = {}

LEMMA BudgetStep ==
  ASSUME EIInv, IInv', StepIs
  PROVE  RoomIsKept
<1>1. CASE Idle
  BY <1>1 DEF Idle, RoomIsKept
<1>2. ASSUME NEW t, NEW q, Wrote(t, q), NEW s \in Scopes, Within(capacity[s])
      PROVE  \/ Within(capacity'[s])
             \/ \E a \in Filed("Merged") : a.scope = s /\ a.items = {}
  <2>1. PICK row : /\ row.scope = t.scope /\ row.event = t.event /\ row.items = t.refs
                   /\ FiledOnly(row)
    BY <1>2, WroteIs
  <2>2. CASE s # t.scope
    <3>1. capacity' = [capacity EXCEPT ![t.scope] = Adjusted(@, DeltaItems(t), DeltaBytes(t))]
      BY <1>2 DEF Wrote, Apply, ApplyCommit
    <3>2. capacity'[s] = capacity[s]
      BY <2>2, <3>1 DEF EIInv, IInv, TypeOK
    <3> QED
      BY <1>2, <3>2
  <2>3. CASE s = t.scope /\ IsAdmissionMerge(t)
    <3>1. row \in Filed("Merged") /\ row.items = {}
      BY <2>1, <2>3 DEF FiledOnly, IsAdmissionMerge
    <3> QED
      BY <2>1, <2>3, <3>1
  <2>4. CASE s = t.scope /\ ~IsAdmissionMerge(t)
    <3> PICK rows : rows = InScope(Result(t), s)
      OBVIOUS
    <3>1. Fit(InScope(items, s), s)
      BY <1>2, FitIsWithin DEF EIInv
    <3>2. Fit(rows, s)
      BY <1>2, <2>4, <3>1 DEF Wrote, Faithful, StaysWithin
    <3>3. rows = InScope(items', s) /\ capacity'[s].budget = capacity[s].budget
      BY <1>2, WroteIs
    <3> QED
      BY <3>2, <3>3, FitsNow
  <2> QED
    BY <2>2, <2>3, <2>4
<1>3. ASSUME NEW s, NEW refs, Recalled(s, refs)
      PROVE  RoomIsKept
  BY <1>3, RecalledIs DEF RoomIsKept
<1>4. ASSUME NEW s, NEW cascade, NEW n, Purged(s, cascade, n)
      PROVE  RoomIsKept
  <2>1. capacity' = PurgedCapacity(SubjectOf(s))
    BY <1>4, PurgedIs
  <2>2. Within(NoCapacity)
    BY EngineAssumption DEF Within, WouldExceed, NoCapacity, Over
  <2>3. \A x \in Scopes : capacity'[x] = capacity[x] \/ capacity'[x] = NoCapacity
    BY <2>1 DEF PurgedCapacity
  <2> QED
    BY <2>2, <2>3 DEF RoomIsKept
<1>5. ASSUME NEW st, NEW s2, Received(st, s2)
      PROVE  RoomIsKept
  BY <1>5, ReceivedIs DEF RoomIsKept
<1> QED
  BY <1>1, <1>2, <1>3, <1>4, <1>5 DEF StepIs, RoomIsKept

-----------------------------------------------------------------------------
(* What the engine promises a single caller.                               *)

LEMMA EngineSteps ==
  ASSUME EIInv, AloneInv, (EIInv /\ AloneInv)', [EngineNext]_engineVars
  PROVE  PinnedStay /\ ProtectedByName /\ FoldsKeepContent /\ RunsReclaim /\ RoomIsKept
<1>1. IInv'
  BY DEF EIInv
<1> QED
  BY <1>1, EngineStepIs, PinnedStep, ProtectionStep, ContentStep, RunStep, BudgetStep

(* A pinned item goes only by an explicit forget or by a purge of its      *)
(* subject: never by admission, maintenance or consolidation.              *)
THEOREM PinnedSurviveAlways ==
  ASSUME OneCaller
  PROVE  EngineSpec => PinnedSurvive
<1>1. EIInv /\ AloneInv /\ (EIInv /\ AloneInv)' /\ [EngineNext]_engineVars
        => [PinnedStay]_engineVars
  BY EngineSteps
<1> QED
  BY <1>1, AloneInvariant, PTL DEF EngineSpec, PinnedSurvive, PinnedStay

(* The protection of an item changes only with an Admitted row that names  *)
(* it, and what an import brings is protected no longer than an admission. *)
THEOREM ProtectionIsExplicitAlways ==
  ASSUME OneCaller
  PROVE  EngineSpec => ProtectionIsExplicit
<1>1. EIInv /\ AloneInv /\ (EIInv /\ AloneInv)' /\ [EngineNext]_engineVars
        => [ProtectedByName]_engineVars
  BY EngineSteps
<1> QED
  BY <1>1, AloneInvariant, PTL DEF EngineSpec, ProtectionIsExplicit, ProtectedByName

(* Maintenance that folds an item into another loses no fact of the scope. *)
THEOREM ConsolidationKeepsContentAlways ==
  ASSUME OneCaller
  PROVE  EngineSpec => ConsolidationKeepsContent
<1>1. EIInv /\ AloneInv /\ (EIInv /\ AloneInv)' /\ [EngineNext]_engineVars
        => [FoldsKeepContent]_engineVars
  BY EngineSteps
<1> QED
  BY <1>1, AloneInvariant, PTL DEF EngineSpec, ConsolidationKeepsContent, FoldsKeepContent

(* A run of maintenance leaves no unprotected item whose ttl ended before  *)
(* the first instant, and none at all while its scope is over its budget,  *)
(* unless a pin outlived its ttl.                                          *)
THEOREM MaintenanceReclaimsAlways ==
  ASSUME OneCaller
  PROVE  EngineSpec => MaintenanceReclaims
<1>1. EIInv /\ AloneInv /\ (EIInv /\ AloneInv)' /\ [EngineNext]_engineVars
        => [RunsReclaim]_engineVars
  BY EngineSteps
<1> QED
  BY <1>1, AloneInvariant, PTL DEF EngineSpec, MaintenanceReclaims, RunsReclaim

(* A scope within its budget is not taken over it, unless the budget is    *)
(* changed, an admission is merged into a row or an import brings rows in. *)
THEOREM BudgetKeptAlways ==
  ASSUME OneCaller
  PROVE  EngineSpec => BudgetKept
<1>1. EIInv /\ AloneInv /\ (EIInv /\ AloneInv)' /\ [EngineNext]_engineVars
        => [RoomIsKept]_engineVars
  BY EngineSteps
<1> QED
  BY <1>1, AloneInvariant, PTL DEF EngineSpec, BudgetKept, RoomIsKept
=============================================================================
