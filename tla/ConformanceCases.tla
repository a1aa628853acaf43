--------------------------- MODULE ConformanceCases ---------------------------
(***************************************************************************)
(* The conformance suite of the backend contract, first part: the cases of *)
(* isolation.rs, atomicity.rs, retrieval.rs and capacity.rs.               *)
(*                                                                         *)
(* A case is the sequence of the calls its test makes.  Every call comes   *)
(* with `want`, the answers the test accepts; {} is unwrap(), any answer   *)
(* but an error.  An assertion on a part of an answer (a length, the ids)  *)
(* is completed to the answer that part belongs to.  Corpora of 12 to 40   *)
(* rows are cut to the few that tell the orders and limits apart.          *)
(***************************************************************************)
EXTENDS Reads

(* Fixtures.                                                               *)
Home     == <<"s", "n">>
Beside   == <<"s", "other-n">>
Stranger == <<"other-s", "n">>

Plain == [kind |-> "fact", sensitivity |-> 1, occurred |-> {}, created |-> 0]

System(at) == [at |-> at, policy |-> {}, actor |-> "system"]

(* fx::item: the epoch, Internal, no vector and not pending.               *)
Item(id, s, b) ==
  [id |-> id, scope |-> s, body |-> b, tags |-> {}, meta |-> Plain,
   pending |-> FALSE, embedded |-> FALSE]

Vectored(w) == [w EXCEPT !.embedded = TRUE]
At(w, t)    == [w EXCEPT !.meta.created = t]

(* An item in a stream: no vector comes with it. *)
Streamed(w) ==
  [id |-> w.id, scope |-> w.scope, body |-> w.body, tags |-> w.tags,
   meta |-> w.meta, pending |-> w.pending, vector |-> {}]

Transaction(s, event, at) ==
  [scope |-> s, upsert |-> {}, merge |-> {}, evictions |-> {}, auditScope |-> s,
   event |-> event, refs |-> {}, auditMeta |-> System(at), key |-> {},
   digest |-> "note"]

Admit(w) ==
  [Transaction(w.scope, "Admitted", w.meta.created) EXCEPT
     !.upsert = {w}, !.refs = {w.id}]

Keyed(w, k) == [Admit(w) EXCEPT !.key = {k}, !.digest = w.body]

EvictAt(s, ids, at) == [Transaction(s, "Forgotten", at) EXCEPT !.evictions = ids]
Evict(s, ids) == EvictAt(s, ids, 0)

(* The placeholder item's transaction, turned into a merge.                *)
MergeInto(id, s, b) ==
  [Transaction(s, "Admitted", 0) EXCEPT
     !.merge = {[target |-> id, body |-> b, tags |-> {}, pending |-> TRUE,
                 embedded |-> FALSE]}]

Row(w) ==
  [id |-> w.id, scope |-> w.scope, body |-> w.body, tags |-> w.tags,
   meta |-> w.meta, pending |-> w.pending, access |-> 0]

(* Calls.                                                                  *)
Answered(t, n, want) == [op |-> "apply", txn |-> t, audit |-> n, want |-> want]
Does(t, n)           == Answered(t, n, {})
Refused(t, n, error) == Answered(t, n, {<<"error", error>>})

Applied(ids, n, gone) == <<"applied", [item |-> ids, audit |-> n, evicted |-> gone]>>

Recall(s, ids, n, m) ==
  [op |-> "recall", scope |-> s, refs |-> ids, audit |-> n, meta |-> m, want |-> {}]

Budget(s, b) == [op |-> "set_budget", scope |-> s, budget |-> b, want |-> {}]

Holds(w, accesses) ==
  [op |-> "get", scope |-> w.scope, id |-> w.id,
   want |-> {<<"rows", {[Row(w) EXCEPT !.access = accesses]}>>}]

Has(w) == Holds(w, 0)
Lacks(s, id) == [op |-> "get", scope |-> s, id |-> id, want |-> {<<"rows", {}>>}]

Page(s, offset, limit, ids) ==
  [op |-> "list", scope |-> s, offset |-> offset, limit |-> limit,
   want |-> {<<"ids", ids>>}]

Lists(s, ids) == Page(s, 0, 50, ids)

Audits(s, filter, ids) ==
  [op |-> "audit", scope |-> s, filter |-> filter, want |-> {<<"ids", ids>>}]

Logs(s, ids) == Audits(s, AnyAudit, ids)

Counts(s, b, n, bytes) ==
  [op |-> "capacity", scope |-> s,
   want |-> {<<"capacity", [budget |-> b, items |-> n, bytes |-> bytes]>>}]

Stats(s, n, bytes, median) ==
  [op |-> "stats", scope |-> s,
   want |-> {<<"stats", [count |-> n, bytes |-> bytes, median |-> median]>>}]

Near(s, probe, k, ids) ==
  [op |-> "neighbours", scope |-> s, probe |-> probe, k |-> k, want |-> {<<"ids", ids>>}]

Retrieves(s, q, ids) ==
  [op |-> "candidates", scope |-> s, query |-> q, want |-> {<<"ids", ids>>}]

(* retrieval.rs query: both signals from one text. *)
Query(b, f) == [AnyQuery EXCEPT !.embedding = {b}, !.text = Words[b], !.filters = f]

(* Another tenant's file, or a fresh backend; the case goes on there. *)
Elsewhere == [op |-> "switch", want |-> {}]

-----------------------------------------------------------------------------
(* isolation.rs                                                            *)

(* Variant: without the reads that show the item is there at all.          *)
TenantsAreIsolatedByAbsence ==
  <<Does(Admit(Item(1, Home, "note")), 1), Elsewhere, Lists(Home, <<>>), Lacks(Home, 1)>>

TenantsAreIsolated ==
  LET w == Item(1, Home, "note") IN
  <<Does(Admit(w), 1), Lists(Home, <<1>>), Has(w),
    Elsewhere, Lists(Home, <<>>), Lacks(Home, 1)>>

SubjectsAreIsolated ==
  LET w == Item(1, Home, "note") IN
  <<Does(Admit(w), 1), Lists(Home, <<1>>), Has(w),
    Lists(Stranger, <<>>), Lacks(Stranger, 1)>>

NamespacesAreSeparated ==
  <<Does(Admit(Item(1, Home, "note")), 1), Does(Admit(Item(2, Beside, "note")), 2),
    Lists(Home, <<1>>), Lists(Beside, <<2>>)>>

AuditIsScoped ==
  <<Does(Admit(Item(1, Home, "note")), 1), Logs(Home, <<1>>), Logs(Stranger, <<>>)>>

RetrievalNeverCrossesAScopeBoundary ==
  <<Does(Admit(Vectored(Item(1, Home, "rug"))), 1),
    Does(Admit(Vectored(Item(2, Stranger, "mat"))), 2),
    Does(Admit(Vectored(Item(3, Beside, "mat"))), 3),
    Elsewhere, Does(Admit(Vectored(Item(4, Home, "mat"))), 4),
    Near(Home, "mat", 10, <<4>>), Elsewhere,
    Retrieves(Home, Query("mat", AnyFilter), <<1>>), Near(Home, "mat", 10, <<1>>),
    Near(Stranger, "mat", 10, <<2>>), Near(Beside, "mat", 10, <<3>>)>>

-----------------------------------------------------------------------------
(* atomicity.rs                                                            *)

AdmitEvictAndAuditCommitTogether ==
  LET new == Item(2, Home, "long") IN
  <<Does(Admit(Item(1, Home, "note")), 1),
    Answered([Admit(new) EXCEPT !.evictions = {1}], 2, {Applied({2}, 2, {1})}),
    Lacks(Home, 1), Has(new), Logs(Home, <<2, 1>>)>>

AFailedTransactionLeavesNoTrace ==
  LET survivor == Item(1, Home, "note") IN
  <<Does(Admit(survivor), 1), Logs(Home, <<1>>),
    Refused([MergeInto(9, Home, "long") EXCEPT !.evictions = {1}], 2, "MergeTargetMissing"),
    Has(survivor), Logs(Home, <<1>>)>>

AnInvalidTransactionIsRejectedAndWritesNothing ==
  LET target == Item(1, Home, "note")
      bystander == Item(2, Home, "note") IN
  <<Does(Admit(target), 1), Does(Admit(bystander), 2), Lists(Home, <<1, 2>>),
    Logs(Home, <<2, 1>>),
    Refused([Admit(Item(3, Home, "long")) EXCEPT
               !.merge = MergeInto(1, Home, "long").merge, !.evictions = {2}],
            3, "InvalidTransaction"),
    Lacks(Home, 3), Has(target), Has(bystander), Lists(Home, <<1, 2>>),
    Logs(Home, <<2, 1>>)>>

(* One corpus for each of the conditions; the second in a fresh backend.   *)
EveryIsValidRejectionIsRejectedByTheBackend ==
  LET misfiled == [Admit(Item(2, Stranger, "long")) EXCEPT !.scope = Home, !.auditScope = Home]
      misaudited == [Admit(Item(2, Home, "long")) EXCEPT !.auditScope = Beside]
      Survives(t, leak) ==
        <<Does(Admit(Item(1, Home, "note")), 1), Lists(Home, <<1>>), Logs(Home, <<1>>),
          Refused(t, 2, "InvalidTransaction"), Lacks(Home, 2), leak,
          Lists(Home, <<1>>), Logs(Home, <<1>>)>> IN
  Survives(misfiled, Lacks(Stranger, 2)) \o <<Elsewhere>>
    \o Survives(misaudited, Logs(Beside, <<>>))

EveryMutationWritesExactlyOneAuditRecord ==
  [n \in 1..5 |-> Does(Admit(Item(n, Home, "note")), n)] \o
  <<Lists(Home, <<1, 2, 3, 4, 5>>), Does(Evict(Home, {1}), 6),
    Audits(Home, [AnyAudit EXCEPT !.limit = 1000], <<6, 5, 4, 3, 2, 1>>)>>

IdempotentWritesReplayTheOriginalOutcome ==
  <<Answered(Keyed(Item(1, Home, "note"), "k"), 1, {Applied({1}, 1, {})}),
    Answered(Keyed(Item(2, Home, "note"), "k"), 2,
             {<<"replayed", [item |-> {1}, audit |-> 1, evicted |-> {}]>>}),
    Lists(Home, <<1>>)>>

IdempotencyConflictOnDifferentPayload ==
  <<Does(Keyed(Item(1, Home, "note"), "k"), 1),
    Refused(Keyed(Item(2, Home, "long"), "k"), 2, "IdempotencyConflict")>>

IdempotencyKeysDoNotCollideAcrossSubjects ==
  <<Answered(Keyed(Item(1, Home, "note"), "k"), 1, {Applied({1}, 1, {})}),
    Answered(Keyed(Item(2, Stranger, "long"), "k"), 2, {Applied({2}, 2, {})}),
    Lists(Home, <<1>>), Lists(Stranger, <<2>>),
    Answered(Keyed(Item(3, Beside, "short"), "k"), 3, {Applied({3}, 3, {})}),
    Lists(Home, <<1>>), Lists(Beside, <<3>>),
    Refused(Keyed(Item(4, Home, "mat"), "k"), 4, "IdempotencyConflict")>>

-----------------------------------------------------------------------------
(* retrieval.rs                                                            *)

Rated(id, b, level) ==
  Vectored([Item(id, Home, b) EXCEPT !.meta.sensitivity = level])

(* More rows above the ceiling than 4 * limit: a LIMIT before the filter   *)
(* would leave no room for the two below it.                               *)
SensitivityCeilingIsEnforcedInTheQuery ==
  [n \in 1..6 |-> Does(Admit(Rated(n, "record", IF n = 1 THEN 3 ELSE 4)), n)] \o
  <<Does(Admit(Rated(7, "public", 0)), 7), Does(Admit(Rated(8, "personal", 2)), 8),
    Retrieves(Home, [Query("record", [AnyFilter EXCEPT !.ceiling = 2]) EXCEPT !.limit = 1],
              <<7>>),
    Retrieves(Home, [Query("record", [AnyFilter EXCEPT !.ceiling = 2]) EXCEPT !.limit = 3],
              <<7, 8>>)>>

TagAndKindFiltersNarrowResults ==
  LET Tagged(id, b, kind, tag) ==
        Vectored([Item(id, Home, b) EXCEPT !.meta.kind = kind, !.tags = {tag}])
      facts == [AnyFilter EXCEPT !.kinds = {"fact"}] IN
  <<Does(Admit(Tagged(1, "alpha", "fact", "work")), 1),
    Does(Admit(Tagged(2, "beta", "preference", "work")), 2),
    Does(Admit(Tagged(3, "gamma", "fact", "home")), 3),
    Retrieves(Home, Query("cats", facts), <<1, 3>>),
    Retrieves(Home, Query("cats", [AnyFilter EXCEPT !.tags = {"home"}]), <<3>>),
    Retrieves(Home, Query("cats", [facts EXCEPT !.tags = {"work"}]), <<1>>)>>

OccurrenceTimeBoundsAreInclusiveAndExcludeUndatedItems ==
  LET Dated(id, times) == Vectored([Item(id, Home, "marker") EXCEPT !.meta.occurred = times])
      Within(after, before, ids) ==
        Retrieves(Home, Query("marker", [AnyFilter EXCEPT !.after = after, !.before = before]),
                  ids) IN
  <<Does(Admit(Dated(1, {1})), 1), Does(Admit(Dated(2, {2})), 2),
    Does(Admit(Dated(3, {3})), 3), Does(Admit(Dated(4, {})), 4),
    Within({2}, {}, <<2, 3>>), Within({}, {2}, <<1, 2>>), Within({1}, {3}, <<1, 2, 3>>),
    Within({2}, {2}, <<2>>), Within({1}, {2}, <<1, 2>>), Within({}, {}, <<1, 2, 3, 4>>)>>

VectorSearchRanksBySimilarity ==
  <<Does(Admit(Vectored(Item(1, Home, "revenue"))), 1),
    Does(Admit(Vectored(Item(2, Home, "rug"))), 2),
    Does(Admit(Vectored(Item(3, Home, "mat"))), 3),
    Near(Home, "mat", 3, <<3, 2, 1>>)>>

KeywordSearchFindsExactTerms ==
  <<Does(Admit(Vectored(Item(1, Home, "zstandard"))), 1),
    Does(Admit(Vectored(Item(2, Home, "note"))), 2),
    Retrieves(Home, [AnyQuery EXCEPT !.text = {"zstandard"}, !.limit = 10], <<1>>)>>

(* escape_fts_query: operators come out as quoted words no body has.       *)
KeywordSearchEscapesUserInput ==
  LET Hostile(text) ==
        [op |-> "candidates", scope |-> Home,
         query |-> [AnyQuery EXCEPT !.text = text, !.limit = 10],
         want |-> {<<"ids", <<>>>>} \cup {<<"ids", <<n>>>> : n \in 1..3}] IN
  <<Does(Admit(Vectored(Item(1, Home, "alpha"))), 1),
    Does(Admit(Vectored(Item(2, Home, "beta"))), 2),
    Does(Admit(Vectored(Item(3, Home, "gamma"))), 3),
    Hostile({"quote"}), Hostile({"OR", "1=1"}), Hostile({"a", "AND", "b"})>>

HybridReturnsBothSignalSources ==
  <<Does(Admit(Vectored(Item(1, Home, "zstandard"))), 1),
    Does(Admit(Vectored(Item(2, Home, "mat"))), 2),
    Retrieves(Home, Query("mat", AnyFilter), <<2, 1>>)>>

ListPagesAreDisjointAndComplete ==
  [n \in 1..7 |-> Does(Admit(At(Item(n, Home, "note"), n)), n)] \o
  <<Page(Home, 0, 3, <<1, 2, 3>>), Page(Home, 3, 3, <<4, 5, 6>>), Page(Home, 6, 3, <<7>>)>>

(* Ids against the order of the times, as ULIDs minted in one millisecond  *)
(* may be.                                                                 *)
ListOrdersOldestFirstByCreatedAt ==
  [n \in 1..6 |-> Does(Admit(At(Item(7 - n, Home, "note"), n)), n)] \o
  <<Page(Home, 0, 2, <<6, 5>>), Page(Home, 2, 2, <<4, 3>>), Page(Home, 4, 2, <<2, 1>>)>>

ListTieBreakIsTotalOverIdenticalTimestamps ==
  LET order == <<4, 1, 5, 2, 3>> IN
  [n \in 1..5 |-> Does(Admit(Item(order[n], Home, "note")), n)] \o
  <<Page(Home, 0, 2, <<1, 2>>), Page(Home, 2, 2, <<3, 4>>), Page(Home, 4, 2, <<5>>)>>

PendingEmbeddingItemsAreExcludedWhenAsked ==
  <<Does(Admit([Item(1, Home, "cats") EXCEPT !.pending = TRUE]), 1),
    Does(Admit(Vectored(Item(2, Home, "cats"))), 2), Lists(Home, <<1, 2>>),
    Retrieves(Home, Query("cats", [AnyFilter EXCEPT !.complete = TRUE]), <<2>>)>>

NeighboursBreakTiesBeforeTruncatingAtK ==
  LET order == <<3, 4, 1, 2>> IN
  <<Does(Admit(Vectored(Item(9, Home, "mat"))), 9)>> \o
  [n \in 1..4 |-> Does(Admit(Vectored(Item(order[n], Home, "revenue"))), n)] \o
  <<Near(Home, "mat", 3, <<9, 1, 2>>)>>

CrossModelVectorsAreRejected ==
  <<Does(Admit(Vectored(Item(1, Home, "note"))), 1),
    [op |-> "neighbours", scope |-> Home, probe |-> "other model", k |-> 5,
     want |-> {<<"error", "EmbedderMismatch">>, <<"ids", <<>>>>}]>>

RecallUpdatesAccessStatistics ==
  LET recalled == Vectored(Item(1, Home, "mat"))
      untouched == Vectored(Item(2, Home, "rug"))
      both == Retrieves(Home, Query("mat", AnyFilter), <<1, 2>>) IN
  <<Does(Admit(recalled), 1), Does(Admit(untouched), 2),
    both, Has(recalled), Has(untouched),
    Recall(Home, {1}, 3, System(3)), both, Holds(recalled, 1), Has(untouched)>>

-----------------------------------------------------------------------------
(* capacity.rs.  Sizes are the model's: note 1, short 1, long 3.           *)

CapacityAccountingTracksItemsAndBytes ==
  <<Budget(Home, "100 items"), Counts(Home, "100 items", 0, 0),
    Does(Admit(Item(1, Home, "long")), 1), Counts(Home, "100 items", 1, 3)>>

EvictionReleasesCapacity ==
  <<Budget(Home, "100 items"), Does(Admit(Item(1, Home, "long")), 1),
    Does(Admit(Item(2, Home, "note")), 2), Does(Admit(Item(3, Home, "note")), 3),
    Counts(Home, "100 items", 3, 5), Lists(Home, <<1, 2, 3>>),
    Does(Evict(Home, {1}), 4), Counts(Home, "100 items", 2, 2)>>

AMergeAdjustsCapacityByTheDeltaNotTheNewSize ==
  LET Becomes(b) == Has([Item(1, Home, b) EXCEPT !.pending = TRUE]) IN
  <<Budget(Home, "100 items"), Does(Admit(Item(1, Home, "note")), 1),
    Does(Admit(Item(2, Home, "long")), 2), Counts(Home, "100 items", 2, 4),
    Does(MergeInto(1, Home, "long"), 3), Becomes("long"),
    Counts(Home, "100 items", 2, 6),
    Does(MergeInto(1, Home, "short"), 4), Becomes("short"),
    Counts(Home, "100 items", 2, 4)>>

(* Concurrent admits, in one of the orders they may commit in.             *)
ConcurrentAdmitsDoNotDoubleCount(order) ==
  <<Budget(Home, "100 items")>> \o
  [n \in DOMAIN order |-> Does(Admit(Item(order[n], Home, "note")), n)] \o
  <<Counts(Home, "100 items", Len(order), Len(order)),
    Page(Home, 0, 100, [n \in DOMAIN order |-> n])>>

ScopeStatsReflectTheCorpus ==
  <<Stats(Home, 0, 0, 0), Does(Admit(Vectored(Item(1, Home, "note"))), 1),
    Does(Admit(Vectored(Item(2, Home, "mat"))), 2),
    Does(Admit(Vectored(Item(3, Home, "long"))), 3), Stats(Home, 3, 6, 2)>>

=============================================================================
