-------------------------------- MODULE Store --------------------------------
(***************************************************************************)
(* The SQLite backend of one tenant: the tables of one tenant file and the *)
(* operations of `impl Backend for SqliteBackend` that change them.  Every *)
(* operation is one IMMEDIATE transaction run under the tenant's write     *)
(* lock, so it is one step here (module TenantPool shows when it is not,   *)
(* and that a key then still commits once); what happens between two       *)
(* operations is the business of module Engine.                            *)
(*                                                                         *)
(* The tables are sets of rows, as in a relational schema, and an optional *)
(* value is a set of at most one element.  A vector is known by the body   *)
(* it embeds.                                                              *)
(***************************************************************************)
EXTENDS Integers, FiniteSets

CONSTANTS
  Subjects,      \* subjects of the tenant
  Namespaces,    \* namespaces; a scope is a subject and a namespace
  ItemIds,       \* item ids (ULIDs)
  Bodies,        \* item bodies
  BodySize,      \* charge of a body, with the fixed part of every row
  Tags,          \* tags, each charged 1
  Metas,         \* the columns no statement here reads: sensitivity, ttl, ...
  AuditMetas,    \* those of an audit row: at, decision, actor
  Buckets,       \* days and policies the aggregates tell apart
  BucketOf,      \* the day and the policy of an audit row's columns
  Keys,          \* idempotency keys, chosen by the caller
  Budgets,       \* budgets a scope may be given
  Unbounded,     \* Budget::UNBOUNDED
  Transactions,  \* write transactions the callers build
  Streams,       \* import streams the callers present
  Recalls,       \* recalls they record: scope, items, columns of the audit row
  Ceilings,      \* budgets they set: scope, budget
  Purges,        \* purges they ask for: scope of the marker, cascade, columns
  MaxAudit,      \* bound: audit ids minted here
  MaxAccess      \* bound: recorded recalls of one item

Scopes == Subjects \X Namespaces
SubjectOf(s) == s[1]

Events == {"Admitted", "Rejected", "Merged", "Forgotten", "Recalled", "Exported",
           "Imported", "SubjectPurged", "Reembedded", "PolicyChanged",
           "MaintenanceRun"}

AtMostOne(S) == {{}} \cup {{x} : x \in S}

ItemRow ==
  [id : ItemIds, scope : Scopes, body : Bodies, tags : SUBSET Tags,
   meta : Metas, pending : BOOLEAN, access : Nat]

VectorRow == [id : ItemIds, scope : Scopes, of : Bodies]

AuditRow ==
  [id : Int, scope : Scopes, event : Events, items : SUBSET ItemIds,
   meta : AuditMetas]

AggregateKeys == Buckets \X Events

Outcome == [item : AtMostOne(ItemIds), audit : Int, evicted : SUBSET ItemIds]

IdempotencyRow == [scope : Scopes, key : Keys, digest : Bodies, outcome : Outcome]

CapacityRow == [budget : Budgets, items : Nat, bytes : Nat]

(* ItemWrite: the row to insert, and whether its vector comes with it. *)
ItemWrite ==
  [id : ItemIds, scope : Scopes, body : Bodies, tags : SUBSET Tags,
   meta : Metas, pending : BOOLEAN, embedded : BOOLEAN]

MergeWrite ==
  [target : ItemIds, body : Bodies, tags : SUBSET Tags, pending : BOOLEAN,
   embedded : BOOLEAN]

WriteTransaction ==
  [scope : Scopes, upsert : AtMostOne(ItemWrite), merge : AtMostOne(MergeWrite),
   evictions : SUBSET ItemIds, auditScope : Scopes, event : Events,
   refs : SUBSET ItemIds, auditMeta : AuditMetas, key : AtMostOne(Keys),
   digest : Bodies]

(* ExportRecord::Item: an item and the vector its record carries, of       *)
(* whichever body.                                                         *)
ExportItem ==
  [id : ItemIds, scope : Scopes, body : Bodies, tags : SUBSET Tags,
   meta : Metas, pending : BOOLEAN, vector : AtMostOne(Bodies)]

(* ImportStream: whether its header, versions and tenants pass, its items  *)
(* (one per id; a repeated id is skipped or refused) and its audit rows.   *)
(* Nothing asks of an item that its vector be of its body, nor that it     *)
(* have one exactly when it is not pending.                                *)
ImportStream ==
  [wellFormed : BOOLEAN, items : SUBSET ExportItem, audits : SUBSET AuditRow]

Paired(w) == w.pending = ~w.embedded

ASSUME StoreAssumption ==
  /\ IsFiniteSet(ItemIds)
  /\ IsFiniteSet(Tags)
  /\ BodySize \in [Bodies -> Nat \ {0}]
  /\ BucketOf \in [AuditMetas -> Buckets]
  /\ AuditMetas # {}
  /\ Unbounded \in Budgets
  /\ Transactions \subseteq WriteTransaction
  /\ Streams \subseteq ImportStream
  /\ Recalls \subseteq Scopes \X (SUBSET ItemIds) \X AuditMetas
  /\ Ceilings \subseteq Scopes \X Budgets
  /\ Purges \subseteq Scopes \X BOOLEAN \X AuditMetas
  \* the construction sites of an upsert set pending_embedding from the vector
  /\ \A t \in Transactions : \A w \in t.upsert : Paired(w)
  \* the ids of a stream are unique, its audit rows were minted elsewhere
  /\ \A st \in Streams :
       /\ \A v, w \in st.items : v.id = w.id => v = w
       /\ \A a \in st.audits : a.id < 0
       /\ \A a, b \in st.audits : a.id = b.id => a = b
       /\ IsFiniteSet(st.audits)
  /\ MaxAudit \in Nat
  /\ MaxAccess \in Nat

VARIABLES
  items,         \* table items
  vectors,       \* table vectors
  capacity,      \* table capacity; a scope without a row reads as NoCapacity
  audit,         \* table audit
  aggregates,    \* table audit_aggregates: audit rows ever written, by bucket and event
  idempotency,   \* table idempotency
  minted         \* audit ids handed out so far (AuditId::new)

tables == <<items, vectors, capacity, audit, aggregates, idempotency>>
vars   == <<tables, minted>>

NoCapacity == [budget |-> Unbounded, items |-> 0, bytes |-> 0]

Init ==
  /\ items = {}
  /\ vectors = {}
  /\ capacity = [s \in Scopes |-> NoCapacity]
  /\ audit = {}
  /\ aggregates = [k \in AggregateKeys |-> 0]
  /\ idempotency = {}
  /\ minted = 0

-----------------------------------------------------------------------------
(* Reading and charging rows.                                              *)

Ids(rows) == {r.id : r \in rows}
InScope(rows, s) == {r \in rows : r.scope = s}
OfSubject(rows, j) == {r \in rows : SubjectOf(r.scope) = j}

(* MemoryItem::charge, and the sum over a set of rows: the number of units *)
(* charged, each unit told by its item and its place in the item's charge. *)
Charge(r) == BodySize[r.body] + Cardinality(r.tags)
Units(rows) == UNION {{r.id} \X (1..Charge(r)) : r \in rows}
TotalCharge(rows) == Cardinality(Units(rows))

AtLeastZero(n) == IF n < 0 THEN 0 ELSE n

(* capacity::adjust *)
Adjusted(c, deltaItems, deltaBytes) ==
  [c EXCEPT !.items = AtLeastZero(@ + deltaItems),
            !.bytes = AtLeastZero(@ + deltaBytes)]

(* vectors::insert: a conflicting row keeps its scope columns *)
WithVector(rows, id, s, body) ==
  LET old == {v \in rows : v.id = id} IN
  (rows \ old) \cup
    {[id |-> id, scope |-> IF old = {} THEN s ELSE (CHOOSE v \in old : TRUE).scope,
      of |-> body]}

(* AggregateKey of an audit row: its day and policy, and its event. *)
KeyOf(a) == <<BucketOf[a.meta], a.event>>

(* Variant: one increment for a batch of rows. *)
CountedOnce(agg, rows) ==
  [k \in AggregateKeys |-> IF \E a \in rows : KeyOf(a) = k THEN agg[k] + 1 ELSE agg[k]]

(* aggregates::increment, for a set of audit rows inserted together *)
Counted(agg, rows) ==
  [k \in AggregateKeys |-> agg[k] + Cardinality({a \in rows : KeyOf(a) = k})]

AuditInserted(rows) ==
  /\ audit' = audit \cup rows
  /\ aggregates' = Counted(aggregates, rows)

-----------------------------------------------------------------------------
(* Backend::apply.                                                         *)

(* WriteTransaction::is_valid.  An upsert's own pairing is not checked.    *)
IsValid(t) ==
  /\ t.upsert = {} \/ t.merge = {}
  /\ \A w \in t.upsert : w.scope = t.scope
  /\ \A m \in t.merge : m.pending = ~m.embedded
  /\ t.auditScope = t.scope

(* The idempotency row recorded for this transaction's key, if any. *)
Prior(t) == {p \in idempotency : p.scope = t.scope /\ p.key \in t.key}

Conflicts(t) == IsValid(t) /\ \E p \in Prior(t) : p.digest # t.digest
Replays(t)   == IsValid(t) /\ \E p \in Prior(t) : p.digest = t.digest

Victims(t) == {r \in InScope(items, t.scope) : r.id \in t.evictions}
Kept(t)    == items \ Victims(t)
Targets(t) == {r \in InScope(Kept(t), t.scope) : \E m \in t.merge : m.target = r.id}

(* Variant: the primary key taken for one within the scope. *)
KeyTakenInScope(t) ==
  \E w \in t.upsert : w.id \in Ids(InScope(Kept(t), t.scope))

(* INSERT INTO items fails on a primary key already in the tenant's file,  *)
(* in whichever scope; a merge fails when its target is not in the scope.  *)
KeyTaken(t)      == \E w \in t.upsert : w.id \in Ids(Kept(t))
TargetMissing(t) == t.merge # {} /\ Targets(t) = {}

Commits(t) ==
  /\ IsValid(t)
  /\ Prior(t) = {}
  /\ ~KeyTaken(t)
  /\ ~TargetMissing(t)

(* items::access_history and restore_access_history: an upsert that also   *)
(* evicts its own id is a replacement and keeps the row's access history.  *)
CarriedAccess(t, w) ==
  IF w.id \in Ids(Victims(t))
  THEN (CHOOSE r \in Victims(t) : r.id = w.id).access
  ELSE 0

Inserted(t) ==
  {[id |-> w.id, scope |-> w.scope, body |-> w.body, tags |-> w.tags,
    meta |-> w.meta, pending |-> w.pending, access |-> CarriedAccess(t, w)]
   : w \in t.upsert}

(* items::merge: the body is replaced, tags are united; the rest stays.    *)
MergedRow(r, m) ==
  [r EXCEPT !.body = m.body, !.tags = @ \cup m.tags, !.pending = m.pending]

Merged(t) == UNION {{MergedRow(r, m) : m \in t.merge} : r \in Targets(t)}

(* ON DELETE CASCADE removes the vectors of the rows that went; the upsert *)
(* or the merge then writes its own, and a merge without one removes the   *)
(* target's.                                                               *)
Cascaded(gone) == {v \in vectors : v.id \notin Ids(gone)}

\* Variant: a merge whose embedding failed leaves the old vector.
VectorsLeftByMerge(t) ==
  LET left == Cascaded(Victims(t)) IN
  IF \E w \in t.upsert : w.embedded
  THEN LET w == CHOOSE w \in t.upsert : TRUE IN WithVector(left, w.id, t.scope, w.body)
  ELSE IF \E m \in t.merge : m.embedded
  THEN LET m == CHOOSE m \in t.merge : TRUE IN WithVector(left, m.target, t.scope, m.body)
  ELSE left

VectorsAfter(t) ==
  LET left == Cascaded(Victims(t)) IN
  IF \E w \in t.upsert : w.embedded
  THEN LET w == CHOOSE w \in t.upsert : TRUE IN WithVector(left, w.id, t.scope, w.body)
  ELSE IF \E m \in t.merge : m.embedded
  THEN LET m == CHOOSE m \in t.merge : TRUE IN WithVector(left, m.target, t.scope, m.body)
  ELSE {v \in left : ~(v.scope = t.scope /\ \E m \in t.merge : m.target = v.id)}

DeltaItems(t) == Cardinality(t.upsert) - Cardinality(Ids(Victims(t)))

(* Variant: a merge charged as if it added a row. *)
DeltaBytesMergeAdds(t) ==
  (TotalCharge(Inserted(t)) - TotalCharge(Victims(t))) + TotalCharge(Merged(t))

DeltaBytes(t) ==
  (TotalCharge(Inserted(t)) - TotalCharge(Victims(t)))
    + (TotalCharge(Merged(t)) - TotalCharge(Targets(t)))

(* AppliedWrite, the result the idempotency row stores.                    *)
AppliedWrite(t, id) ==
  [item    |-> Ids(t.upsert) \cup {m.target : m \in t.merge},
   audit   |-> id,
   evicted |-> Ids(Victims(t))]

ApplyCommit(t, id) ==
  /\ items' = ((Kept(t) \ Targets(t)) \cup Inserted(t)) \cup Merged(t)
  /\ vectors' = VectorsAfter(t)
  /\ capacity' = [capacity EXCEPT ![t.scope] =
                    Adjusted(@, DeltaItems(t), DeltaBytes(t))]
  /\ AuditInserted({[id |-> id, scope |-> t.auditScope, event |-> t.event,
                     items |-> t.refs, meta |-> t.auditMeta]})
  /\ idempotency' = idempotency \cup
       {[scope |-> t.scope, key |-> k, digest |-> t.digest,
         outcome |-> AppliedWrite(t, id)] : k \in t.key}

(* A transaction commits whole or leaves every table as it was: a replay   *)
(* and every error return before the commit or roll it back.               *)
Apply(t, id) == IF Commits(t) THEN ApplyCommit(t, id) ELSE UNCHANGED tables

-----------------------------------------------------------------------------
(* The other operations of the backend that write.                         *)

(* Backend::record_recall: the Recalled row, and one access for every item *)
(* it names that is still in the scope.                                    *)
RecordRecall(s, refs, id, m) ==
  /\ AuditInserted({[id |-> id, scope |-> s, event |-> "Recalled", items |-> refs,
                     meta |-> m]})
  /\ items' = {IF r.scope = s /\ r.id \in refs THEN [r EXCEPT !.access = @ + 1] ELSE r
               : r \in items}
  /\ UNCHANGED <<vectors, capacity, idempotency>>

(* Backend::set_budget *)
SetBudget(s, b) ==
  /\ capacity' = [capacity EXCEPT ![s].budget = b]
  /\ UNCHANGED <<items, vectors, audit, aggregates, idempotency>>

(* Backend::purge_subject: the subject leaves every table but the          *)
(* aggregates, and under Cascade the audit too; the marker goes in last.   *)
\* Variants: the whole audit deleted; keys left behind.
PurgedAuditOfAll(j, cascade) == IF cascade THEN {} ELSE audit
KeysKept(j) == idempotency

PurgedAudit(j, cascade) == IF cascade THEN audit \ OfSubject(audit, j) ELSE audit

PurgedIdempotency(j) == idempotency \ OfSubject(idempotency, j)

PurgedCapacity(j) ==
  [x \in Scopes |-> IF SubjectOf(x) = j THEN NoCapacity ELSE capacity[x]]

PurgeSubject(j, cascade, s, id, m) ==
  LET marker == [id |-> id, scope |-> s, event |-> "SubjectPurged", items |-> {},
                 meta |-> m] IN
  /\ items' = items \ OfSubject(items, j)
  /\ vectors' = {v \in Cascaded(OfSubject(items, j)) : SubjectOf(v.scope) # j}
  /\ idempotency' = PurgedIdempotency(j)
  /\ capacity' = PurgedCapacity(j)
  /\ audit' = PurgedAudit(j, cascade) \cup {marker}
  /\ aggregates' = Counted(aggregates, {marker})

(* Backend::import: an item already in its scope is skipped; an id taken   *)
(* in another scope or an audit id already present fails the whole stream. *)
NewItems(st) ==
  {w \in st.items : ~\E r \in items : r.id = w.id /\ r.scope = w.scope}

ImportCommits(st) ==
  /\ st.wellFormed
  /\ \A w \in NewItems(st) : w.id \notin Ids(items)
  /\ Ids(st.audits) \cap Ids(audit) = {}

ImportedRows(st) ==
  {[id |-> w.id, scope |-> w.scope, body |-> w.body, tags |-> w.tags,
    meta |-> w.meta, pending |-> w.pending, access |-> 0] : w \in NewItems(st)}

ImportedVectors(st) ==
  UNION {{[id |-> w.id, scope |-> w.scope, of |-> b] : b \in w.vector} : w \in NewItems(st)}

\* Variant: an item already there is counted again.
ImportCommitChargesSkipped(st) ==
  LET new == ImportedRows(st) IN
  /\ items' = items \cup new
  /\ vectors' = vectors \cup ImportedVectors(st)
  /\ capacity' = [s \in Scopes |->
       Adjusted(capacity[s], Cardinality(Ids(InScope(st.items, s))),
                TotalCharge(InScope(st.items, s)))]
  /\ AuditInserted(st.audits)
  /\ UNCHANGED idempotency

ImportCommit(st) ==
  LET new == ImportedRows(st) IN
  /\ items' = items \cup new
  /\ vectors' = vectors \cup ImportedVectors(st)
  /\ capacity' = [s \in Scopes |->
       Adjusted(capacity[s], Cardinality(Ids(InScope(new, s))),
                TotalCharge(InScope(new, s)))]
  /\ AuditInserted(st.audits)
  /\ UNCHANGED idempotency

Import(st) == IF ImportCommits(st) THEN ImportCommit(st) ELSE UNCHANGED tables

-----------------------------------------------------------------------------
(* The backend driven by any callers: each call mints its audit id first.  *)

Mint == minted < MaxAudit /\ minted' = minted + 1

DoApply == \E t \in Transactions : Mint /\ Apply(t, minted + 1)

DoRecall ==
  \E r \in Recalls :
    /\ \A q \in InScope(items, r[1]) : q.id \in r[2] => q.access < MaxAccess
    /\ Mint
    /\ RecordRecall(r[1], r[2], minted + 1, r[3])

DoSetBudget == \E b \in Ceilings : SetBudget(b[1], b[2]) /\ UNCHANGED minted

(* Engine::purge_scope files the marker under the purged subject.          *)
DoPurge ==
  \E p \in Purges :
    Mint /\ PurgeSubject(SubjectOf(p[1]), p[2], p[1], minted + 1, p[3])

DoImport == \E st \in Streams : Import(st) /\ UNCHANGED minted

Next == DoApply \/ DoRecall \/ DoSetBudget \/ DoPurge \/ DoImport

Spec == Init /\ [][Next]_vars

-----------------------------------------------------------------------------
(* Properties.                                                             *)

TypeOK ==
  /\ items \subseteq ItemRow
  /\ vectors \subseteq VectorRow
  /\ capacity \in [Scopes -> CapacityRow]
  /\ audit \subseteq AuditRow
  /\ aggregates \in [AggregateKeys -> Nat]
  /\ idempotency \subseteq IdempotencyRow
  /\ minted \in Nat

(* A primary key names one row: of items and vectors across the whole      *)
(* tenant file, of audit, and of idempotency within a scope.               *)
PrimaryKeys ==
  /\ \A q, r \in items : q.id = r.id => q = r
  /\ \A u, v \in vectors : u.id = v.id => u = v
  /\ \A a, b \in audit : a.id = b.id => a = b
  /\ \A p, q \in idempotency : p.scope = q.scope /\ p.key = q.key => p = q

(* What the schema demands: the types of the columns and the primary keys. *)
SchemaHolds == TypeOK /\ PrimaryKeys

(* What a vector search knows of a row, and what it should: the body the   *)
(* row has now, or nothing while its embedding is pending.                 *)
FoundFor(rows, r) == {v.of : v \in {x \in rows : x.id = r.id}}
Exact(r) == IF r.pending THEN {} ELSE {r.body}

(* The row and its vector are as a stream carries them. *)
AsImported(r, found) ==
  \E st \in Streams : \E w \in st.items :
    /\ w.id = r.id /\ w.scope = r.scope /\ w.body = r.body
    /\ w.pending = r.pending /\ w.vector = found

(* A vector row is an item's, in the item's scope, and embeds the body the *)
(* item has now, and an item has one exactly when it is not pending: a     *)
(* forgotten or merged body can no longer be found by vector search        *)
(* (MergeWrite's doc, backend/src/write.rs).  An import stores item and    *)
(* vector unchecked, and they may disagree as long as the item is as it    *)
(* came: whatever writes its body again puts them right.                   *)
VectorsFollowItems ==
  /\ \A v \in vectors : \E r \in items : r.id = v.id /\ r.scope = v.scope
  /\ \A r \in items : FoundFor(vectors, r) = Exact(r) \/ AsImported(r, FoundFor(vectors, r))

(* The counters admission reads are the rows that are there, in every      *)
(* scope, whatever mix of evictions, replacements, merges, imports and     *)
(* purges led here; the clamp at zero never hides a difference.            *)
ItemsCounted == \A s \in Scopes : capacity[s].items = Cardinality(Ids(InScope(items, s)))

BytesCounted == \A s \in Scopes : capacity[s].bytes = TotalCharge(InScope(items, s))

CapacityCounted == ItemsCounted /\ BytesCounted

(* What a retry is told happened is in the audit trail of the same scope,  *)
(* under the audit id it is given.                                         *)
ReplaysAreAudited ==
  \A p \in idempotency : \E a \in audit : a.id = p.outcome.audit /\ a.scope = p.scope

(* The aggregates count at least every audit row there is, also the rows   *)
(* an import brought in and the marker a purge left.                       *)
AggregatesCoverAudit ==
  \A k \in AggregateKeys : Cardinality({a \in audit : KeyOf(a) = k}) =< aggregates[k]

(* An audit row and the outcome recorded for a key stay as they were until *)
(* a purge of their subject takes them; the aggregates survive even that.  *)
HistoryKept ==
  /\ \A r \in (audit \ audit') \cup (idempotency \ idempotency') :
       \E m \in audit' \ audit :
         m.event = "SubjectPurged" /\ SubjectOf(m.scope) = SubjectOf(r.scope)
  /\ \A k \in AggregateKeys : aggregates'[k] >= aggregates[k]

(* No step ever breaks with that: the audit log, the replays and the       *)
(* aggregates are a history (audit.rs, aggregates.rs, purge.rs).           *)
HistoryIsPermanent == [][HistoryKept]_vars

=============================================================================
