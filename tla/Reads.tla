-------------------------------- MODULE Reads --------------------------------
(***************************************************************************)
(* What the SQLite backend answers: its read operations as operators over  *)
(* the tables of module Store, and the answers of its write operations.    *)
(*                                                                         *)
(* Item and audit ids are numbers, which is what a ULID sorts like; a time *)
(* is a number; the words of a body stand for the body wherever a score is *)
(* computed.  Where SQL leaves an order open the operator is the set of    *)
(* the answers it may give.                                                *)
(***************************************************************************)
EXTENDS Store, Sequences

CONSTANTS
  Words,         \* words of a body
  Embedders,     \* embedder ids, with their dimension
  EmbedderOf,    \* the embedder of a body's vector
  DayLength,     \* seconds of a day
  MaxPageLimit   \* MAX_PAGE_LIMIT

ASSUME ReadsAssumption ==
  /\ ItemIds \subseteq Nat
  /\ Metas \subseteq [kind : STRING, sensitivity : Nat, occurred : SUBSET Nat,
                      created : Nat]
  /\ AuditMetas \subseteq [at : Int, policy : SUBSET (Nat \X Nat), actor : STRING]
  /\ DayLength \in Nat \ {0}
  \* day_bucket, div_euclid: a time before the epoch is of the day before it
  /\ BucketOf = [a \in AuditMetas |-> <<a.at \div DayLength, a.policy>>]
  /\ EmbedderOf \in [Bodies -> Embedders]
  /\ DOMAIN Words = Bodies
  /\ MaxPageLimit \in Nat

-----------------------------------------------------------------------------
(* Sequences of rows.                                                      *)

(* The rows of a finite set in the order of a strict total order on them.  *)
Ordered(rows, Before(_, _)) ==
  [n \in 1..Cardinality(rows) |->
     CHOOSE r \in rows : Cardinality({q \in rows : Before(q, r)}) = n - 1]

Slice(rows, offset, limit) ==
  SubSeq(rows, offset + 1,
         IF offset + limit < Len(rows) THEN offset + limit ELSE Len(rows))

IdsOf(rows) == [n \in DOMAIN rows |-> rows[n].id]

-----------------------------------------------------------------------------
(* Items and counters.                                                     *)

Get(s, id) == {r \in InScope(items, s) : r.id = id}

(* ORDER BY created_at ASC, id ASC *)
ListedBefore(q, r) ==
  \/ q.meta.created < r.meta.created
  \/ q.meta.created = r.meta.created /\ q.id < r.id

EffectiveLimit(limit) == IF limit < MaxPageLimit THEN limit ELSE MaxPageLimit

List(s, offset, limit) ==
  Slice(Ordered(InScope(items, s), ListedBefore), offset, EffectiveLimit(limit))

CapacityState(s) == capacity[s]

(* capacity::stats: the median is the row at OFFSET count / 2 by size.     *)
ScopeStats(s) ==
  LET rows == InScope(items, s)
      Smaller(q, r) == Charge(q) < Charge(r) \/ (Charge(q) = Charge(r) /\ q.id < r.id)
      sized == Ordered(rows, Smaller) IN
  [count |-> Cardinality(rows), bytes |-> TotalCharge(rows),
   median |-> IF rows = {} THEN 0 ELSE Charge(sized[(Len(sized) \div 2) + 1])]

-----------------------------------------------------------------------------
(* The audit log and its aggregates.                                       *)

AnyAudit ==
  [events |-> {}, item |-> {}, since |-> {}, until |-> {}, after |-> {}, limit |-> 100]

AuditMatches(a, f) ==
  /\ f.events = {} \/ a.event \in f.events
  /\ f.item \subseteq a.items
  /\ \A t \in f.since : a.meta.at >= t
  /\ \A t \in f.until : a.meta.at <= t

(* Variant: the cursor's own row again. *)
AuditAfterOrAt(a, f) == \A c \in f.after : a.id <= c

(* Newest first, so the cursor selects the ids below it. *)
AuditAfter(a, f) == \A c \in f.after : a.id < c

Audit(s, f) ==
  LET Newer(a, b) == a.id > b.id
      rows == {a \in InScope(audit, s) : AuditMatches(a, f) /\ AuditAfter(a, f)} IN
  Slice(Ordered(rows, Newer), 0, f.limit)

(* AuditEvent::as_str sorts like this. *)
EventNames ==
  <<"Admitted", "Exported", "Forgotten", "Imported", "MaintenanceRun", "Merged",
    "PolicyChanged", "Recalled", "Reembedded", "Rejected", "SubjectPurged">>

NameOf(e) == CHOOSE n \in DOMAIN EventNames : EventNames[n] = e

DayOf(k) == k[1][1]
PolicyOf(k) == k[1][2]
EventOf(k) == k[2]

(* AggregateKey::cmp and AGGREGATE_ORDER_SQL: day, no policy first, name,  *)
(* version, event.                                                         *)
PolicyBefore(p, q) ==
  \/ p = {} /\ q # {}
  \/ \E x \in p : \E y \in q : x[1] < y[1] \/ (x[1] = y[1] /\ x[2] < y[2])

KeyBefore(k, l) ==
  \/ DayOf(k) < DayOf(l)
  \/ DayOf(k) = DayOf(l) /\ PolicyBefore(PolicyOf(k), PolicyOf(l))
  \/ /\ k[1] = l[1]
     /\ NameOf(EventOf(k)) < NameOf(EventOf(l))

(* The cursor's predicate, spelt out over nullable columns; name and       *)
(* version of no policy coalesce to the empty string.                      *)
NameColumn(p) == IF p = {} THEN 0 ELSE (CHOOSE x \in p : TRUE)[1]
VersionColumn(p) == IF p = {} THEN 0 ELSE (CHOOSE x \in p : TRUE)[2]

KeyAfter(k, c) ==
  LET p == PolicyOf(k)
      q == PolicyOf(c)
      sameName == (p = {}) = (q = {}) /\ NameColumn(p) = NameColumn(q) IN
  \/ DayOf(k) > DayOf(c)
  \/ DayOf(k) = DayOf(c) /\ p # {} /\ q = {}
  \/ DayOf(k) = DayOf(c) /\ (p = {}) = (q = {}) /\ NameColumn(p) > NameColumn(q)
  \/ DayOf(k) = DayOf(c) /\ sameName /\ VersionColumn(p) > VersionColumn(q)
  \/ DayOf(k) = DayOf(c) /\ p = q /\ NameOf(EventOf(k)) > NameOf(EventOf(c))

AnyAggregate == [since |-> {}, until |-> {}, policy |-> {}, after |-> {}, limit |-> 100]

AggregateMatches(k, f) ==
  /\ \A d \in f.since : DayOf(k) >= d
  /\ \A d \in f.until : DayOf(k) <= d
  /\ \A p \in f.policy : PolicyOf(k) = {p}
  /\ \A c \in f.after : KeyAfter(k, c)

(* Rows of the table: a key is there once it was counted. *)
Aggregates(f) ==
  LET rows == {k \in AggregateKeys : aggregates[k] > 0 /\ AggregateMatches(k, f)}
      page == Slice(Ordered(rows, KeyBefore), 0, f.limit) IN
  [n \in DOMAIN page |-> <<page[n], aggregates[page[n]]>>]

-----------------------------------------------------------------------------
(* Retrieval.                                                              *)

AnyFilter ==
  [ceiling |-> 1, complete |-> FALSE, kinds |-> {}, tags |-> {}, after |-> {},
   before |-> {}]

(* retrieve::passes, and filter_sql, which says the same in SQL. *)
Passes(r, f) ==
  /\ r.meta.sensitivity <= f.ceiling
  /\ f.complete => ~r.pending
  /\ f.kinds = {} \/ r.meta.kind \in f.kinds
  /\ f.tags = {} \/ r.tags \cap f.tags # {}
  /\ \A t \in f.after : \E o \in r.meta.occurred : o >= t
  /\ \A t \in f.before : \E o \in r.meta.occurred : o <= t

(* The score of a vector for a probe, of a body for words.                 *)
Likeness(b, c) ==
  (100 * Cardinality(Words[b] \cap Words[c])) \div Cardinality(Words[b] \cup Words[c])

KeywordScore(b, text) == LET n == Cardinality(Words[b] \cap text) IN (100 * n) \div (1 + n)

(* The rows of a set that a LIMIT may leave: none left out is better.      *)
TopOf(rows, n, Score(_)) ==
  {T \in SUBSET rows :
     /\ Cardinality(T) = IF n < Cardinality(rows) THEN n ELSE Cardinality(rows)
     /\ \A r \in rows \ T : \A q \in T : Score(q) >= Score(r)}

Ranked(rows, Score(_)) ==
  LET Better(q, r) == Score(q) > Score(r) \/ (Score(q) = Score(r) /\ q.id < r.id) IN
  Ordered(rows, Better)

(* vectors::search: the rows of the scope with a vector of the probe's     *)
(* embedder, best first; equal scores by id before the cut.                *)
VectorOf(r) == {v \in vectors : v.id = r.id}

VectorHits(s, probe, f, k) ==
  LET rows == {r \in InScope(items, s) :
                 /\ \E v \in VectorOf(r) : EmbedderOf[v.of] = EmbedderOf[probe]
                 /\ Passes(r, f)}
      Score(r) == Likeness(probe, (CHOOSE v \in VectorOf(r) : TRUE).of) IN
  Slice(Ranked(rows, Score), 0, k)

(* keyword::search: any word, in bm25's order, which does not break ties.  *)
KeywordHits(s, text, f, k) ==
  LET Score(r) == KeywordScore(r.body, text) IN
  TopOf({r \in InScope(items, s) : Words[r.body] \cap text # {} /\ Passes(r, f)}, k, Score)

(* scope_embedder reads one row of the scope, whichever comes first.       *)
ScopeEmbedders(s) == {EmbedderOf[v.of] : v \in InScope(vectors, s)}

Neighbours(s, probe, k) ==
  LET hits == <<"ids", IdsOf(VectorHits(s, probe, [AnyFilter EXCEPT !.ceiling = 9], k))>>
      own == EmbedderOf[probe] IN
  (IF ScopeEmbedders(s) \subseteq {own} \/ own \in ScopeEmbedders(s) THEN {hits} ELSE {})
    \cup (IF ScopeEmbedders(s) \subseteq {own} THEN {} ELSE {<<"error", "EmbedderMismatch">>})

RangeOf(q) == {q[n] : n \in DOMAIN q}

(* retrieve::candidates: both signals over-fetched, filtered again, merged *)
(* by id and ranked by the weighted sum; one signal alone counts full.     *)
Relevance(r, v, k, probe, text) ==
  LET vs == Likeness(probe, r.body)  ks == KeywordScore(r.body, text) IN
  IF r \in v /\ r \in k THEN 7 * vs + 3 * ks
  ELSE IF r \in v THEN 10 * vs ELSE 10 * ks

AnyQuery == [embedding |-> {}, text |-> {}, filters |-> AnyFilter, limit |-> 50]

(* The vector signal: none without a probe, or when the row scope_embedder *)
(* read has another embedder.                                              *)
VectorSignals(s, q, fetch) ==
  {RangeOf(VectorHits(s, b, q.filters, fetch)) :
     b \in {x \in q.embedding : EmbedderOf[x] \in ScopeEmbedders(s)}}
  \cup (IF ScopeEmbedders(s) \subseteq {EmbedderOf[b] : b \in q.embedding}
           /\ ScopeEmbedders(s) # {}
        THEN {} ELSE {{}})

Candidates(s, q) ==
  IF q.embedding = {} /\ q.text = {} THEN {<<"error", "InvalidQuery">>}
  ELSE LET fetch == 4 * q.limit
           probe == IF q.embedding = {} THEN CHOOSE b \in Bodies : TRUE
                    ELSE CHOOSE b \in q.embedding : TRUE
           Answer(v, k) ==
             LET Score(r) == Relevance(r, v, k, probe, q.text)
                 rows == {r \in v \cup k : Passes(r, q.filters)} IN
             <<"ids", IdsOf(Slice(Ranked(rows, Score), 0, q.limit))>> IN
       {Answer(v, k) : v \in VectorSignals(s, q, fetch),
                       k \in KeywordHits(s, q.text, q.filters, fetch)}

-----------------------------------------------------------------------------
(* Export, and the streams import is given.                                *)

(* Items by id, each with its vector, then the audit rows by id.           *)
Export(sel) ==
  LET chosen(rows) == {r \in rows : /\ SubjectOf(r.scope) \in sel.subjects
                                    /\ r.scope[2] \in sel.namespaces}
      Older(q, r) == q.id < r.id
      rows == Ordered(chosen(items), Older) IN
  [items |-> [n \in DOMAIN rows |->
                LET r == rows[n] IN
                [id |-> r.id, scope |-> r.scope, body |-> r.body, tags |-> r.tags,
                 meta |-> r.meta, pending |-> r.pending,
                 vector |-> {v.of : v \in {x \in vectors : x.id = r.id}}]],
   audits |-> IF sel.audit THEN Ordered(chosen(audit), Older) ELSE <<>>]

(* A stream as presented: its header, the tenants its records name.        *)
Presented(x, header, tenants) ==
  [wellFormed |-> header = "current" /\ tenants \subseteq {"own"},
   items |-> RangeOf(x.items), audits |-> RangeOf(x.audits)]

-----------------------------------------------------------------------------
(* What the write operations answer.                                       *)

ApplyAnswer(t, id) ==
  IF ~IsValid(t) THEN <<"error", "InvalidTransaction">>
  ELSE IF Conflicts(t) THEN <<"error", "IdempotencyConflict">>
  ELSE IF Replays(t) THEN <<"replayed", (CHOOSE p \in Prior(t) : TRUE).outcome>>
  ELSE IF KeyTaken(t) THEN <<"error", "Storage">>
  ELSE IF TargetMissing(t) THEN <<"error", "MergeTargetMissing">>
  ELSE <<"applied", AppliedWrite(t, id)>>

(* PurgeReport: the marker counts neither as removed nor as preserved.     *)
PurgeAnswer(j, cascade) ==
  LET rows == Cardinality(OfSubject(audit, j)) IN
  [items |-> Cardinality(OfSubject(items, j)),
   vectors |-> Cardinality(OfSubject(vectors, j)),
   removed |-> IF cascade THEN rows ELSE 0,
   preserved |-> IF cascade THEN 0 ELSE rows]

ImportAnswer(st) ==
  IF ~st.wellFormed THEN <<"error", "MalformedImport">>
  ELSE IF ~ImportCommits(st) THEN <<"error", "Storage">>
  ELSE <<"imported",
         [items |-> Cardinality(NewItems(st)),
          vectors |-> Cardinality({w \in NewItems(st) : w.vector # {}}),
          audits |-> Cardinality(st.audits),
          skipped |-> Cardinality(st.items \ NewItems(st))]>>

=============================================================================
