--------------------------- MODULE ContractProofs ---------------------------
(***************************************************************************)
(* The tables of module Store implement module Contract, for any number of *)
(* scopes, items and callers: every initial state of the tables is one of  *)
(* the contract, and every step of theirs a step of the contract or none.  *)
(* The readings are exact by the inductive invariant of StoreProofs.       *)
(***************************************************************************)
EXTENDS StoreContract, StoreProofs

(* The contract counts as the tables do: one definition, in two instances. *)
LEMMA OneCardinality == \A S : C!Cardinality(S) = Cardinality(S)
BY DEF C!Cardinality, Cardinality

(* The contract reads a row's vectors as the tables' invariant does.       *)
LEMMA OneReading ==
  /\ \A V, r : C!Reached(V, r) = FoundFor(V, r)
  /\ \A r : C!Now(r) = Exact(r)
BY DEF C!Reached, C!Now, FoundFor, Exact

(* The counters say what the items say, and every vector is an item's.     *)
LEMMA ReadingsAreExact == IInv => C!ExactUsage /\ C!ReachesMemories /\ C!UniqueIds
<1> SUFFICES ASSUME IInv PROVE C!ExactUsage /\ C!ReachesMemories /\ C!UniqueIds
  OBVIOUS
<1> USE DEF IInv
<1>1. [s \in Scopes |-> [items |-> capacity[s].items, bytes |-> capacity[s].bytes]]
      = [s \in Scopes |-> [items |-> C!Cardinality({r.id : r \in C!Of(items, s)}),
                           bytes |-> TotalCharge(C!Of(items, s))]]
  BY OneCardinality DEF ItemsCounted, BytesCounted, C!Of, InScope, Ids
<1>2. C!ReachesMemories
  BY DEF C!ReachesMemories, VectorsFollowItems
<1>3. C!UniqueIds
  BY DEF C!UniqueIds, PrimaryKeys
<1> QED
  BY <1>1, <1>2, <1>3 DEF C!ExactUsage

-----------------------------------------------------------------------------
(* One lemma for each operation.                                           *)

(* A row under the next audit id is new. *)
LEMMA NextIdIsNew ==
  ASSUME IInv, NEW row, row.id = minted + 1
  PROVE  row \notin audit
BY DEF IInv, AuditIdsMinted, TypeOK

LEMMA ApplyIsAWrite ==
  ASSUME IInv, NEW t \in SoundTransactions, Mint, Apply(t, minted + 1)
  PROVE  C!Write \/ UNCHANGED C!cvars
<1> USE DEF IInv
<1> DEFINE row == [id |-> minted + 1, scope |-> t.auditScope, event |-> t.event,
                   items |-> t.refs, meta |-> t.auditMeta]
<1>1. CASE ~Commits(t)
  <2>1. UNCHANGED tables
    BY <1>1 DEF Apply
  <2> QED
    BY <2>1 DEF tables, C!cvars
<1>2. CASE Commits(t)
  <2>1. /\ items' = ((Kept(t) \ Targets(t)) \cup Inserted(t)) \cup Merged(t)
        /\ capacity' = [capacity EXCEPT ![t.scope] =
                          Adjusted(@, DeltaItems(t), DeltaBytes(t))]
        /\ audit' = audit \cup {row}
        /\ idempotency' = idempotency \cup
             {[scope |-> t.scope, key |-> k, digest |-> t.digest,
               outcome |-> AppliedWrite(t, minted + 1)] : k \in t.key}
    BY <1>2 DEF Apply, ApplyCommit, AuditInserted
  <2>0. /\ \A r \in items \cap items' :
             FoundFor(vectors', r) = FoundFor(vectors, r) \/ FoundFor(vectors', r) = Exact(r)
        /\ \A r \in items' \ items : FoundFor(vectors', r) = Exact(r)
    BY <1>2, ApplyVectors DEF Apply
  <2>2. t.auditScope = t.scope /\ Prior(t) = {}
    BY <1>2 DEF Commits, IsValid
  <2>3. C!Files(row)
    BY <2>1, NextIdIsNew DEF C!Files
  <2>4. \A r \in items \ items' : r.scope = row.scope
    BY <2>1, <2>2 DEF Kept, Victims, Targets, InScope
  <2>5. ASSUME NEW q \in items' \ items
        PROVE  /\ q.scope = row.scope
               /\ \A r \in items : r.id = q.id => r.scope = q.scope /\ r.access = q.access
               /\ (\A r \in items : r.id # q.id) => q.access = 0
               /\ C!Reached(vectors', q) = C!Now(q)
    <3>0. C!Reached(vectors', q) = C!Now(q)
      BY <2>0, <2>5, OneReading
    <3>1. q \in Inserted(t) \/ q \in Merged(t)
      BY <2>1, <2>5 DEF Kept
    <3>2. CASE q \in Inserted(t)
      <4>1. PICK w \in t.upsert :
              q = [id |-> w.id, scope |-> w.scope, body |-> w.body, tags |-> w.tags,
                   meta |-> w.meta, pending |-> w.pending, access |-> CarriedAccess(t, w)]
        BY <3>2 DEF Inserted
      <4>2. q.id = w.id /\ q.scope = t.scope /\ q.access = CarriedAccess(t, w)
        BY <4>1, <1>2 DEF Commits, IsValid
      <4>3. w.id \notin Ids(Kept(t))
        BY <1>2 DEF Commits, KeyTaken
      <4>4. \A r \in items : r.id = q.id => r \in Victims(t)
        BY <4>2, <4>3 DEF Ids, Kept
      <4>5. ASSUME NEW r \in items, r.id = q.id
            PROVE  r.scope = q.scope /\ r.access = q.access
        <5>1. r \in Victims(t) /\ Victims(t) \subseteq items
          BY <4>4, <4>5 DEF Victims, InScope
        <5>2. (CHOOSE x \in Victims(t) : x.id = w.id) = r
          BY <5>1, <4>5, <4>2 DEF PrimaryKeys
        <5>3. w.id \in Ids(Victims(t))
          BY <5>1, <4>5, <4>2 DEF Ids
        <5>4. r.scope = t.scope
          BY <5>1 DEF Victims, InScope
        <5> QED
          BY <5>2, <5>3, <5>4, <4>2 DEF CarriedAccess
      <4>6. ASSUME \A r \in items : r.id # q.id
            PROVE  q.access = 0
        <5>1. w.id \notin Ids(Victims(t))
          BY <4>6, <4>2 DEF Ids, Victims, InScope
        <5> QED
          BY <5>1, <4>2 DEF CarriedAccess
      <4> QED
        BY <3>0, <4>2, <4>5, <4>6, <2>2
    <3>3. CASE q \in Merged(t)
      <4>1. PICK r \in Targets(t), m \in t.merge : q = MergedRow(r, m)
        BY <3>3 DEF Merged
      <4>2. r \in items /\ r.scope = t.scope
        BY DEF Targets, Kept, InScope
      <4>3. r \in ItemRow
        BY <4>2 DEF TypeOK
      <4>4. q.id = r.id /\ q.scope = r.scope /\ q.access = r.access
        BY <4>1, <4>3 DEF MergedRow, ItemRow
      <4>5. \A x \in items : x.id = q.id => x = r
        BY <4>2, <4>4 DEF PrimaryKeys
      <4> QED
        BY <3>0, <4>2, <4>4, <4>5, <2>2
    <3> QED
      BY <3>1, <3>2, <3>3
  <2>6. ASSUME NEW p \in idempotency' \ idempotency
        PROVE  /\ p.scope = row.scope /\ p.outcome.audit = row.id
               /\ \A o \in idempotency : ~(o.scope = p.scope /\ o.key = p.key)
    <3>1. PICK k \in t.key :
            p = [scope |-> t.scope, key |-> k, digest |-> t.digest,
                 outcome |-> AppliedWrite(t, minted + 1)]
      BY <2>1, <2>6
    <3>2. p.scope = t.scope /\ p.key = k /\ p.outcome.audit = minted + 1
      BY <3>1 DEF AppliedWrite
    <3> QED
      BY <3>2, <2>2 DEF Prior
  <2>7. [s \in Scopes |-> capacity'[s].budget] = [s \in Scopes |-> capacity[s].budget]
    <3>1. capacity \in [Scopes -> CapacityRow]
      BY DEF TypeOK
    <3>2. \A s \in Scopes : capacity'[s].budget = capacity[s].budget
      BY <2>1, <3>1 DEF Adjusted, CapacityRow
    <3> QED
      BY <3>2
  <2>8. row \in audit' /\ idempotency \subseteq idempotency'
    BY <2>1
  <2>9. \A r \in items \cap items' :
          C!Reached(vectors', r) \in {C!Reached(vectors, r), C!Now(r)}
    BY <2>0, OneReading
  <2> QED
    BY <2>3, <2>4, <2>5, <2>6, <2>7, <2>8, <2>9 DEF C!Write
<1> QED
  BY <1>1, <1>2

LEMMA RecallIsARecall ==
  ASSUME IInv, NEW s \in Scopes, NEW refs \in SUBSET ItemIds, NEW m \in AuditMetas, Mint,
         RecordRecall(s, refs, minted + 1, m)
  PROVE  C!Recall
<1> DEFINE row == [id |-> minted + 1, scope |-> s, event |-> "Recalled", items |-> refs,
                   meta |-> m]
<1>1. /\ audit' = audit \cup {row}
      /\ items' = {IF r.scope = s /\ r.id \in refs THEN [r EXCEPT !.access = @ + 1] ELSE r
                   : r \in items}
      /\ UNCHANGED <<vectors, capacity, idempotency>>
  BY DEF RecordRecall, AuditInserted
<1>2. C!Files(row) /\ row \in audit'
  BY <1>1, NextIdIsNew DEF C!Files
<1>3. row.event = "Recalled" /\ row.scope = s /\ row.items = refs
  OBVIOUS
<1> QED
  BY <1>1, <1>2, <1>3 DEF C!Recall

LEMMA SetBudgetIsOne ==
  ASSUME IInv, NEW s \in Scopes, NEW b \in Budgets, SetBudget(s, b)
  PROVE  C!SetBudgetOf
<1>1. /\ capacity' = [capacity EXCEPT ![s].budget = b]
      /\ UNCHANGED <<items, vectors, audit, idempotency>>
  BY DEF SetBudget
<1>2. \A x \in Scopes \ {s} : capacity'[x].budget = capacity[x].budget
  BY <1>1 DEF IInv, TypeOK
<1> QED
  BY <1>1, <1>2 DEF C!SetBudgetOf

LEMMA PurgeIsAPurge ==
  ASSUME IInv, NEW s \in Scopes, NEW cascade \in BOOLEAN, NEW m \in AuditMetas, Mint,
         PurgeSubject(SubjectOf(s), cascade, s, minted + 1, m)
  PROVE  C!Purge
<1> DEFINE j == SubjectOf(s)
           marker == [id |-> minted + 1, scope |-> s, event |-> "SubjectPurged", items |-> {},
                      meta |-> m]
<1>1. /\ items' = items \ OfSubject(items, j)
      /\ idempotency' = idempotency \ OfSubject(idempotency, j)
      /\ capacity' = [x \in Scopes |-> IF SubjectOf(x) = j THEN NoCapacity ELSE capacity[x]]
      /\ audit' = PurgedAudit(j, cascade) \cup {marker}
  BY DEF PurgeSubject, PurgedIdempotency, PurgedCapacity
<1>2. marker \notin audit /\ marker \in audit'
  BY <1>1, NextIdIsNew
<1>3. marker.event = "SubjectPurged" /\ marker.scope = s
  OBVIOUS
<1>4. audit' \in {audit \cup {marker}, (audit \ C!OfOneSubject(audit, j)) \cup {marker}}
  BY <1>1 DEF PurgedAudit, OfSubject, C!OfOneSubject
<1>5. /\ items' = items \ C!OfOneSubject(items, j)
      /\ idempotency' = idempotency \ C!OfOneSubject(idempotency, j)
  BY <1>1 DEF OfSubject, C!OfOneSubject
<1>6. [x \in Scopes |-> capacity'[x].budget]
      = [x \in Scopes |-> IF SubjectOf(x) = j THEN Unbounded
                          ELSE [y \in Scopes |-> capacity[y].budget][x]]
  BY <1>1 DEF NoCapacity
<1>7. vectors' = vectors \ C!OfOneSubject(vectors, j)
  <2>1. vectors' = {v \in Cascaded(OfSubject(items, j)) : SubjectOf(v.scope) # j}
    BY DEF PurgeSubject
  <2>2. \A v \in vectors : SubjectOf(v.scope) # j => v.id \notin Ids(OfSubject(items, j))
    BY DEF IInv, VectorsFollowItems, PrimaryKeys, Ids, OfSubject
  <2> QED
    BY <2>1, <2>2 DEF Cascaded, C!OfOneSubject
<1> QED
  BY <1>2, <1>3, <1>4, <1>5, <1>6, <1>7 DEF C!Purge

LEMMA ImportIsAnImport ==
  ASSUME IInv, NEW st \in Streams, Import(st)
  PROVE  C!ImportInto \/ UNCHANGED C!cvars
<1>1. CASE ~ImportCommits(st)
  <2>1. UNCHANGED tables
    BY <1>1 DEF Import
  <2> QED
    BY <2>1 DEF tables, C!cvars
<1>2. CASE ImportCommits(st)
  <2>1. /\ items' = items \cup ImportedRows(st)
        /\ capacity' = [s \in Scopes |->
             Adjusted(capacity[s], Cardinality(Ids(InScope(ImportedRows(st), s))),
                      TotalCharge(InScope(ImportedRows(st), s)))]
        /\ audit' = audit \cup st.audits
        /\ vectors' = vectors \cup ImportedVectors(st)
        /\ UNCHANGED idempotency
    BY <1>2 DEF Import, ImportCommit, AuditInserted
  <2>2. \A q \in items' \ items : q.access = 0 /\ \A r \in items : r.id # q.id
    BY <2>1, <1>2 DEF ImportedRows, ImportCommits, Ids
  <2>3. \A a \in audit' \ audit : \A b \in audit : b.id # a.id
    BY <2>1, <1>2 DEF ImportCommits, Ids
  <2>4. [s \in Scopes |-> capacity'[s].budget] = [s \in Scopes |-> capacity[s].budget]
    <3>1. capacity \in [Scopes -> CapacityRow]
      BY DEF IInv, TypeOK
    <3>2. \A s \in Scopes : capacity'[s].budget = capacity[s].budget
      BY <2>1, <3>1 DEF Adjusted, CapacityRow
    <3> QED
      BY <3>2
  <2>5. \A r \in items : C!Reached(vectors', r) = C!Reached(vectors, r)
    <3>1. \A v \in ImportedVectors(st) : v.id \notin Ids(items)
      BY <1>2 DEF ImportedVectors, ImportCommits
    <3>2. \A r \in items : \A v : v.id = r.id => (v \in vectors' <=> v \in vectors)
      BY <2>1, <3>1 DEF Ids
    <3> QED
      BY <3>2, SameFound, OneReading
  <2> QED
    BY <2>1, <2>2, <2>3, <2>4, <2>5 DEF C!ImportInto
<1> QED
  BY <1>1, <1>2

-----------------------------------------------------------------------------
(* The refinement.                                                         *)

LEMMA InitRefines == Init => C!CInit
<1> SUFFICES ASSUME Init PROVE C!CInit
  OBVIOUS
<1>1. IInv
  BY InitIInv
<1>2. C!ExactUsage
  BY <1>1, ReadingsAreExact
<1>3. [s \in Scopes |-> capacity[s].budget] = [s \in Scopes |-> Unbounded]
  BY DEF Init, NoCapacity
<1> QED
  BY <1>2, <1>3 DEF Init, C!CInit

LEMMA StepRefines == IInv /\ IInv' /\ [Next]_vars => [C!CNext]_(C!cvars)
<1> SUFFICES ASSUME IInv, IInv', [Next]_vars PROVE C!CNext \/ UNCHANGED C!cvars
  OBVIOUS
<1>1. (C!ExactUsage)' /\ (C!ReachesMemories)' /\ (C!UniqueIds)'
  BY ReadingsAreExact, PTL
<1>2. CASE DoApply
  BY <1>1, <1>2, ApplyIsAWrite, CallersAreSound DEF DoApply, C!CNext
<1>3. CASE DoRecall
  <2>1. PICK r \in Recalls : Mint /\ RecordRecall(r[1], r[2], minted + 1, r[3])
    BY <1>3 DEF DoRecall
  <2>2. r[1] \in Scopes /\ r[2] \in SUBSET ItemIds /\ r[3] \in AuditMetas
    BY StoreAssumption
  <2> QED
    BY <1>1, <2>1, <2>2, RecallIsARecall DEF C!CNext
<1>4. CASE DoSetBudget
  <2>1. PICK b \in Ceilings : SetBudget(b[1], b[2])
    BY <1>4 DEF DoSetBudget
  <2>2. b[1] \in Scopes /\ b[2] \in Budgets
    BY StoreAssumption
  <2> QED
    BY <1>1, <2>1, <2>2, SetBudgetIsOne DEF C!CNext
<1>5. CASE DoPurge
  <2>1. PICK p \in Purges : Mint /\ PurgeSubject(SubjectOf(p[1]), p[2], p[1], minted + 1, p[3])
    BY <1>5 DEF DoPurge
  <2>2. p[1] \in Scopes /\ p[2] \in BOOLEAN /\ p[3] \in AuditMetas
    BY StoreAssumption
  <2> QED
    BY <1>1, <2>1, <2>2, PurgeIsAPurge DEF C!CNext
<1>6. CASE DoImport
  BY <1>1, <1>6, ImportIsAnImport DEF DoImport, C!CNext
<1>7. CASE UNCHANGED vars
  BY <1>7 DEF vars, tables, C!cvars
<1> QED
  BY <1>2, <1>3, <1>4, <1>5, <1>6, <1>7 DEF Next

(* The SQLite backend keeps what the engine relies on a backend for: every *)
(* operation on its tables is one of the contract's or changes nothing,    *)
(* and what the tables read always is what the memories say.               *)
THEOREM RefinesTheContract == Spec => HonoursTheContract
BY Invariant, InitRefines, StepRefines, PTL DEF Spec, HonoursTheContract, C!CSpec
=============================================================================
