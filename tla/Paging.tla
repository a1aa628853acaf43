-------------------------------- MODULE Paging --------------------------------
(***************************************************************************)
(* The calls that walk a scope page by page while others write to it: the  *)
(* audit log read with a cursor (Engine::audit_page), maintenance and      *)
(* re-embedding resumed from an offset, and the scan of a forget by tag or *)
(* kind.  The pages are those of module Reads, in a store others write to  *)
(* between any two steps.                                                  *)
(*                                                                         *)
(* What maintenance decides about a row is in modules Engine and Decisions:*)
(* here a page may forget, fold and protect any of its rows.               *)
(***************************************************************************)
EXTENDS Reads

CONSTANTS
  Stored,          \* rows of the scope at the start
  Logged,          \* audit rows at the start
  Walked,          \* the scope that is walked
  Filters,         \* audit filters of the walks
  Requested,       \* page sizes callers ask for
  MaxAuditLimit,   \* MAX_AUDIT_LIMIT
  Batch,           \* MAINTAIN_BATCH, REEMBED_BATCH, FORGET_SCAN_LIMIT
  UsizeMax,        \* usize::MAX; i64::MAX is half of it
  MaxRewrites,     \* bound: rows of a page written again
  MaxWrites        \* bound: transactions of others during a walk

(* AuditFilter; its subject and namespace are those of the scope walked.   *)
AuditFilter ==
  [events : SUBSET Events, item : SUBSET ItemIds, since : SUBSET Int, until : SUBSET Int,
   after : SUBSET Int, limit : Nat]

(* The rows there are and those others bring. *)
Brought ==
  Stored \cup (UNION {t.upsert : t \in Transactions}) \cup (UNION {st.items : st \in Streams})

ASSUME PagingAssumption ==
  /\ Stored \subseteq ItemRow /\ Logged \subseteq AuditRow
  /\ \A q, r \in Stored : q.id = r.id => q = r
  /\ \A a, b \in Logged : a.id = b.id => a = b
  /\ IsFiniteSet(Logged) /\ \A a \in Logged : a.id =< Cardinality(Logged)
  \* created_at is set once, when the id is minted, and goes with it: a
  \* replacement carries it, and an export
  /\ \A v, w \in Brought : v.id = w.id => v.meta.created = w.meta.created
  /\ Bodies # {}
  /\ Walked \in Scopes
  /\ Filters \subseteq AuditFilter
  /\ UsizeMax \in Nat
  /\ Requested \subseteq 0..UsizeMax
  /\ MaxAuditLimit \in 1..(UsizeMax \div 2 - 1)
  /\ Batch \in 1..MaxPageLimit
  /\ MaxRewrites \in Nat /\ MaxWrites \in Nat

VARIABLES
  walk,     \* the walk under way
  start,    \* history: ids of the rows there when it began; of audit rows,
            \* of those that are there ever since
  seen,     \* history: ids it was given
  repeated, \* history: it was given one twice
  lost,     \* history: rows of the scope others removed during it
  written   \* transactions of others during it

pagingVars == <<vars, walk, start, seen, repeated, lost, written>>

NoWalk == [kind |-> "none", at |-> "idle"]

PagingInit ==
  /\ items = Stored
  /\ vectors = {[id |-> r.id, scope |-> r.scope, of |-> r.body] : r \in {q \in Stored : ~q.pending}}
  /\ capacity = [s \in Scopes |->
       [budget |-> Unbounded, items |-> Cardinality(InScope(Stored, s)),
        bytes |-> TotalCharge(InScope(Stored, s))]]
  /\ audit = Logged
  /\ aggregates = [k \in AggregateKeys |-> Cardinality({a \in Logged : KeyOf(a) = k})]
  /\ idempotency = {}
  /\ minted = Cardinality(Logged)
  /\ walk = NoWalk
  /\ start = {}
  /\ seen = {}
  /\ repeated = FALSE
  /\ lost = 0
  /\ written = 0

Reading == UNCHANGED <<vars, lost, written>>

Given(page) ==
  /\ seen' = seen \cup RangeOf(IdsOf(page))
  /\ repeated' = (repeated \/ seen \cap RangeOf(IdsOf(page)) # {})

-----------------------------------------------------------------------------
(* The audit log.                                                          *)

(* `limit as i64` wraps, and SQLite takes a negative LIMIT for none.       *)
SqlLimit(n) == IF n > UsizeMax \div 2 THEN Cardinality(audit) ELSE n

SaturatingAdd(n, k) == IF n + k > UsizeMax THEN UsizeMax ELSE n + k

Smaller(a, b) == IF a < b THEN a ELSE b

Clamped(requested) == Smaller(requested, MaxAuditLimit)

(* One row more than the page is asked for, to tell whether there is more. *)
AuditPage(s, f, requested) ==
  LET limit == Clamped(requested)
      rows == Audit(s, [f EXCEPT !.limit = SqlLimit(SaturatingAdd(limit, 1))]) IN
  [rows |-> Slice(rows, 0, limit), truncated |-> Len(rows) > limit,
   probe |-> IdsOf(rows)]

(* Variant: the row that told there is more counts as read. *)
CursorPastProbe(page) == page.probe[Len(page.probe)]

(* "continue with --after <id of the last record>" *)
Cursor(page) == page.rows[Len(page.rows)].id

BeginAudit ==
  /\ walk.at = "idle"
  /\ \E f \in Filters, n \in Requested :
       /\ walk' = [kind |-> "audit", at |-> "page", filter |-> f, requested |-> n]
       /\ start' = Ids({a \in InScope(audit, Walked) : AuditMatches(a, f) /\ AuditAfter(a, f)})
  /\ seen' = {}
  /\ repeated' = FALSE
  /\ Reading

(* A page of no rows, which is one of size 0, names no row to go on after. *)
ReadAudit ==
  /\ walk.kind = "audit" /\ walk.at = "page"
  /\ LET page == AuditPage(Walked, walk.filter, walk.requested) IN
     /\ Given(page.rows)
     /\ walk' = IF page.truncated /\ page.rows # <<>>
                THEN [walk EXCEPT !.filter.after = {Cursor(page)}]
                ELSE [walk EXCEPT !.at = "done"]
  /\ UNCHANGED start
  /\ Reading

-----------------------------------------------------------------------------
(* The walks over the items of the scope.                                  *)

Kinds == {"maintain", "reembed", "forget"}

BeginWalk ==
  /\ walk.at = "idle"
  /\ \E kind \in Kinds :
       walk' = [kind |-> kind, at |-> "page", offset |-> 0, scanned |-> 0, removed |-> 0,
                folds |-> {}, rewrites |-> {}, forget |-> {},
                released |-> FALSE]
  /\ start' = Ids(InScope(items, Walked))
  /\ seen' = {}
  /\ repeated' = FALSE
  /\ Reading

Again(batch) == {R \in SUBSET batch : Cardinality(R) =< MaxRewrites}

(* The work a page gives: maintenance folds a row into another, writes     *)
(* rows again with another protection, and forgets rows; a row is taken by *)
(* one of these.  Re-embedding writes rows again.  A forget only reads.    *)
Work(kind, batch) ==
  CASE kind = "forget" -> {[folds |-> {}, rewrites |-> {}, forget |-> {}]}
    [] kind = "reembed" -> {[folds |-> {}, rewrites |-> R, forget |-> {}] : R \in Again(batch)}
    [] kind = "maintain" ->
         {w \in [folds : AtMostOne(batch \X batch), rewrites : SUBSET batch,
                 forget : SUBSET Ids(batch)] :
            /\ Ids(w.rewrites) \cap w.forget = {}
            /\ \A p \in w.folds :
                 /\ p[1] # p[2]
                 /\ p[1] \notin w.rewrites
                 /\ {p[1].id, p[2].id} \cap w.forget = {}}

ReadPage ==
  /\ walk.kind \in Kinds /\ walk.at = "page"
  /\ LET page == List(Walked, walk.offset, Batch) IN
     /\ Given(page)
     /\ \E w \in Work(walk.kind, RangeOf(page)) :
          walk' = [walk EXCEPT
            !.at = IF page = <<>> THEN "done" ELSE "work",
            !.scanned = Len(page), !.removed = Cardinality(w.forget),
            !.folds = w.folds, !.rewrites = w.rewrites, !.forget = w.forget,
            !.released = walk.kind = "maintain" /\ w.rewrites # {}]
  /\ UNCHANGED start
  /\ Reading

AnyAuditMeta == CHOOSE m \in AuditMetas : TRUE

Writing(event, refs) ==
  [scope |-> Walked, upsert |-> {}, merge |-> {}, evictions |-> {}, auditScope |-> Walked,
   event |-> event, refs |-> refs, auditMeta |-> AnyAuditMeta, key |-> {},
   digest |-> CHOOSE b \in Bodies : TRUE]

Rewriting(event, r) ==
  [Writing(event, {r.id}) EXCEPT
     !.evictions = {r.id},
     !.upsert = {[id |-> r.id, scope |-> r.scope, body |-> r.body, tags |-> r.tags,
                  meta |-> r.meta, pending |-> FALSE, embedded |-> TRUE]}]

Found(id) == {r \in InScope(items, Walked) : r.id = id}

(* apply_merge: a fold whose target is gone does not count as one.         *)
FoldOne ==
  /\ walk.at = "work"
  /\ \E p \in walk.folds :
       LET absorbed == p[1]
           target == Found(p[2].id)
           rest == [walk EXCEPT !.folds = @ \ {p}] IN
       IF target = {} THEN walk' = rest /\ UNCHANGED vars
       ELSE LET t == [Writing("Merged", {absorbed.id, p[2].id}) EXCEPT
                        !.evictions = {absorbed.id},
                        !.merge = {[target |-> p[2].id, body |-> p[2].body,
                                    tags |-> absorbed.tags, pending |-> FALSE,
                                    embedded |-> TRUE]}] IN
            /\ Mint
            /\ Apply(t, minted + 1)
            /\ walk' = [rest EXCEPT !.removed = @ + 1]
  /\ UNCHANGED <<start, seen, repeated, lost, written>>

(* protect reads the row again and fails when it is gone, and maintenance  *)
(* with it; reembed writes the row it listed.                              *)
RewriteOne ==
  /\ walk.at = "work" /\ walk.folds = {}
  /\ \E r \in walk.rewrites :
       LET rest == [walk EXCEPT !.rewrites = @ \ {r}]
           failed == [walk EXCEPT !.at = "failed"] IN
       IF walk.kind = "reembed"
       THEN /\ Mint
            /\ Apply(Rewriting("Reembedded", r), minted + 1)
            /\ walk' = IF Commits(Rewriting("Reembedded", r)) THEN rest ELSE failed
       ELSE IF Found(r.id) = {} THEN walk' = failed /\ UNCHANGED vars
       ELSE /\ Mint
            /\ \E q \in Found(r.id) : Apply(Rewriting("Admitted", q), minted + 1)
            /\ walk' = rest
  /\ UNCHANGED <<start, seen, repeated, lost, written>>

(* Variants: folded rows are not counted; the offset moves by what went.   *)
OffsetPastForgotten(w) == w.offset + AtLeastZero(w.scanned - Cardinality(w.forget))
OffsetPastRemoved(w) == w.offset + w.removed

(* Past what survived: what this page removed has shifted the rest.        *)
NextOffset(w) == w.offset + AtLeastZero(w.scanned - w.removed)

(* The rows to forget go in one transaction, written also when protections *)
(* changed and none goes, and the cursor moves.  A page that was not full  *)
(* was the last.                                                           *)
EndPage ==
  /\ walk.at = "work" /\ walk.folds = {} /\ walk.rewrites = {}
  /\ IF walk.forget = {} /\ ~walk.released THEN UNCHANGED vars
     ELSE /\ Mint
          /\ Apply([Writing("MaintenanceRun", walk.forget) EXCEPT !.evictions = walk.forget],
                   minted + 1)
  /\ walk' = IF walk.scanned < Batch THEN [walk EXCEPT !.at = "done"]
             ELSE [walk EXCEPT !.at = "page", !.offset = NextOffset(walk)]
  /\ UNCHANGED <<start, seen, repeated, lost, written>>

-----------------------------------------------------------------------------
(* The others.                                                             *)

Removed == Ids(InScope(items, Walked)) \ {r.id : r \in {q \in items' : q.scope = Walked}}

(* A step of others counts while a walk is under way.                      *)
Others ==
  /\ written < MaxWrites
  /\ walk.at \in {"page", "work"}
  /\ DoApply \/ DoImport \/ DoPurge
  /\ lost' = lost + Cardinality(Removed)
  /\ written' = written + 1
  /\ start' = IF walk.kind = "audit"
              THEN {i \in start : \E a \in audit' : a.id = i /\ a.scope = Walked}
              ELSE start
  /\ UNCHANGED <<walk, seen, repeated>>

(* One walk is followed. *)
Step == ReadAudit \/ ReadPage \/ FoldOne \/ RewriteOne \/ EndPage

PagingNext == BeginAudit \/ BeginWalk \/ Step \/ Others

(* `maintain --all`, and any client that follows its cursor, asks again.   *)
PagingSpec == PagingInit /\ [][PagingNext]_pagingVars /\ WF_pagingVars(Step)

-----------------------------------------------------------------------------
(* Properties.                                                             *)

(* The cursor arithmetic stays within the numbers the code computes with.  *)
PagingTypeOK ==
  /\ seen \subseteq Int
  /\ walk.kind \in Kinds => walk.offset \in Nat /\ walk.removed \in 0..walk.scanned

(* The audit's cursor skips nothing that stays and repeats nothing.        *)
CursorIsExact ==
  walk.kind = "audit" =>
    /\ ~repeated
    /\ walk.at = "done" /\ walk.requested # 0 => start \subseteq seen

(* Following the audit cursor gives every row that was there at the start  *)
(* and ever since, and none twice, whatever is written meanwhile; and no   *)
(* page is larger than the ceiling, not even one asked for with the        *)
(* largest number there is (Engine::audit_page, audit::query).             *)
AuditWalkIsExact ==
  [][/\ CursorIsExact'
     /\ walk.kind = "audit" => Cardinality(seen' \ seen) =< MaxAuditLimit]_pagingVars

(* A walk over the items reaches every row that was there at the start and *)
(* still is, but for at most as many as others removed meanwhile: what it  *)
(* removes itself skips nothing (maintain's next_offset, scan_all).        *)
WalkMissesAtMostTheLost ==
  walk.kind \in Kinds /\ walk.at = "done" =>
    Cardinality((start \cap Ids(InScope(items, Walked))) \ seen) =< lost

(* Undisturbed, it is given no row twice.                                  *)
UndisturbedWalkIsExact == walk.kind \in Kinds /\ written = 0 => ~repeated

(* A walk over items by offset is as exact as offsets can be. *)
ItemWalksAreExact == PagingTypeOK /\ WalkMissesAtMostTheLost /\ UndisturbedWalkIsExact

(* A client that follows its cursor comes to an end.                       *)
WalksEnd == walk.at = "page" ~> walk.at \in {"done", "failed"}

=============================================================================
