----------------------------- MODULE Conformance -----------------------------
(***************************************************************************)
(* The conformance suite run against the SQLite backend: a case makes its  *)
(* calls one after the other against the tables of module Store, while     *)
(* another subject of the same tenant writes, recalls and is purged in     *)
(* between, which the suite's own tests cannot provoke.  The backend that  *)
(* does nothing (null.rs) is the check on the suite itself.                *)
(***************************************************************************)
EXTENDS LifecycleCases

CONSTANTS
  MaxBystander   \* bound: calls of the other subject during a case

ASSUME ConformanceAssumption == MaxBystander \in Nat

(* run_conformance_suite: a case is the set of the scripts it may run as;  *)
(* only the one with concurrent tasks has more than one.                   *)
Orders == {f \in [1..3 -> 1..3] : {f[n] : n \in 1..3} = 1..3}

Suite ==
  [tenants_are_isolated |-> {TenantsAreIsolated},
   subjects_are_isolated |-> {SubjectsAreIsolated},
   namespaces_are_separated |-> {NamespacesAreSeparated},
   audit_is_scoped |-> {AuditIsScoped},
   retrieval_never_crosses_a_scope_boundary |-> {RetrievalNeverCrossesAScopeBoundary},
   admit_evict_and_audit_commit_together |-> {AdmitEvictAndAuditCommitTogether},
   a_failed_transaction_leaves_no_trace |-> {AFailedTransactionLeavesNoTrace},
   an_invalid_transaction_is_rejected_and_writes_nothing |->
     {AnInvalidTransactionIsRejectedAndWritesNothing},
   every_is_valid_rejection_is_rejected_by_the_backend |->
     {EveryIsValidRejectionIsRejectedByTheBackend},
   every_mutation_writes_exactly_one_audit_record |->
     {EveryMutationWritesExactlyOneAuditRecord},
   idempotent_writes_replay_the_original_outcome |->
     {IdempotentWritesReplayTheOriginalOutcome},
   idempotency_conflict_on_different_payload |-> {IdempotencyConflictOnDifferentPayload},
   idempotency_keys_do_not_collide_across_subjects |->
     {IdempotencyKeysDoNotCollideAcrossSubjects},
   sensitivity_ceiling_is_enforced_in_the_query |->
     {SensitivityCeilingIsEnforcedInTheQuery},
   tag_and_kind_filters_narrow_results |-> {TagAndKindFiltersNarrowResults},
   occurrence_time_bounds_are_inclusive_and_exclude_undated_items |->
     {OccurrenceTimeBoundsAreInclusiveAndExcludeUndatedItems},
   vector_search_ranks_by_similarity |-> {VectorSearchRanksBySimilarity},
   keyword_search_finds_exact_terms |-> {KeywordSearchFindsExactTerms},
   keyword_search_escapes_user_input |-> {KeywordSearchEscapesUserInput},
   hybrid_returns_both_signal_sources |-> {HybridReturnsBothSignalSources},
   list_pages_are_disjoint_and_complete |-> {ListPagesAreDisjointAndComplete},
   list_orders_oldest_first_by_created_at |-> {ListOrdersOldestFirstByCreatedAt},
   list_tie_break_is_total_over_identical_timestamps |->
     {ListTieBreakIsTotalOverIdenticalTimestamps},
   pending_embedding_items_are_excluded_when_asked |->
     {PendingEmbeddingItemsAreExcludedWhenAsked},
   cross_model_vectors_are_rejected |-> {CrossModelVectorsAreRejected},
   neighbours_break_ties_before_truncating_at_k |-> {NeighboursBreakTiesBeforeTruncatingAtK},
   recall_updates_access_statistics |-> {RecallUpdatesAccessStatistics},
   capacity_accounting_tracks_items_and_bytes |-> {CapacityAccountingTracksItemsAndBytes},
   eviction_releases_capacity |-> {EvictionReleasesCapacity},
   a_merge_adjusts_capacity_by_the_delta_not_the_new_size |->
     {AMergeAdjustsCapacityByTheDeltaNotTheNewSize},
   concurrent_admits_do_not_double_count |->
     {ConcurrentAdmitsDoNotDoubleCount(order) : order \in Orders},
   scope_stats_reflect_the_corpus |-> {ScopeStatsReflectTheCorpus},
   audit_filter_narrows_by_event_and_time |-> {AuditFilterNarrowsByEventAndTime},
   audit_filter_narrows_by_item |-> {AuditFilterNarrowsByItem},
   audit_returns_min_of_the_limit_and_the_rows_that_remain |->
     {AuditReturnsMinOfTheLimitAndTheRowsThatRemain},
   audit_pages_by_the_after_cursor_without_repeating_a_row |->
     {AuditPagesByTheAfterCursorWithoutRepeatingARow},
   audit_since_and_until_include_a_record_on_the_boundary |->
     {AuditSinceAndUntilIncludeARecordOnTheBoundary},
   purge_subject_removes_everything_for_that_subject |->
     {PurgeSubjectRemovesEverythingForThatSubject},
   purge_subject_leaves_other_subjects_intact |-> {PurgeSubjectLeavesOtherSubjectsIntact},
   purge_subject_preserves_audit_when_asked |-> {PurgeSubjectPreservesAuditWhenAsked},
   purge_subject_persists_the_record_it_was_given |->
     {PurgeSubjectPersistsTheRecordItWasGiven},
   apply_persists_the_audit_id_it_was_given |-> {ApplyPersistsTheAuditIdItWasGiven},
   record_recall_persists_the_audit_id_it_was_given |->
     {RecordRecallPersistsTheAuditIdItWasGiven},
   import_preserves_every_audit_id |-> {ImportPreservesEveryAuditId},
   export_narrows_to_the_selectors_subject_and_namespace |->
     {ExportNarrowsToTheSelectorsSubjectAndNamespace},
   export_orders_the_stream_by_kind_then_by_id |-> {ExportOrdersTheStreamByKindThenById},
   export_import_round_trips_exactly |-> {ExportImportRoundTripsExactly},
   import_is_idempotent |-> {ImportIsIdempotent},
   import_rejects_a_later_record_whose_tenant_disagrees |->
     {ImportRejectsALaterRecordWhoseTenantDisagrees},
   import_rejects_a_foreign_audit_record_even_when_every_item_agrees |->
     {ImportRejectsAForeignAuditRecordEvenWhenEveryItemAgrees},
   audit_aggregates_survive_a_cascading_purge |-> {AuditAggregatesSurviveACascadingPurge},
   audit_aggregates_page_in_the_documented_order |->
     {AuditAggregatesPageInTheDocumentedOrder},
   audit_aggregates_resume_from_a_cursor_that_names_no_stored_row |->
     {AuditAggregatesResumeFromACursorThatNamesNoStoredRow},
   audit_aggregates_narrow_by_day_window_and_policy |->
     {AuditAggregatesNarrowByDayWindowAndPolicy},
   every_audit_writing_path_increments_the_aggregates |->
     {EveryAuditWritingPathIncrementsTheAggregates}]

-----------------------------------------------------------------------------
VARIABLES
  case,     \* name of the case that runs
  script,   \* its calls
  done,     \* how many of them were made
  other,    \* the tables of the other tenant's file or backend
  kept,     \* the stream last exported
  said      \* calls of the other subject

conformanceVars == <<vars, case, script, done, other, kept, said>>

Tables ==
  [items |-> items, vectors |-> vectors, capacity |-> capacity, audit |-> audit,
   aggregates |-> aggregates, idempotency |-> idempotency]

NoTables ==
  [items |-> {}, vectors |-> {}, capacity |-> [s \in Scopes |-> NoCapacity], audit |-> {},
   aggregates |-> [k \in AggregateKeys |-> 0], idempotency |-> {}]

Opened(T) ==
  /\ items' = T.items
  /\ vectors' = T.vectors
  /\ capacity' = T.capacity
  /\ audit' = T.audit
  /\ aggregates' = T.aggregates
  /\ idempotency' = T.idempotency

NoStream == [items |-> <<>>, audits |-> <<>>]

ConformanceInit ==
  /\ Init
  /\ case \in DOMAIN Suite
  /\ script \in Suite[case]
  /\ done = 0
  /\ other = NoTables
  /\ kept = NoStream
  /\ said = 0

-----------------------------------------------------------------------------
(* The answers of the backend, and what a call does to the tables.         *)

StreamOf(c) ==
  IF c.stream = {} THEN Presented(kept, "current", {"own"})
  ELSE CHOOSE st \in c.stream : TRUE

RecordSequence(x) == <<<<"header", 0>>>> \o RecordsOf(IdsOf(x.items), IdsOf(x.audits))

Answers(c) ==
  CASE c.op = "apply"        -> {ApplyAnswer(c.txn, c.audit)}
    [] c.op = "recall"       -> {<<"recalled", c.audit>>}
    [] c.op = "purge"        -> {<<"purged", PurgeAnswer(SubjectOf(c.scope), c.cascade)>>}
    [] c.op = "import"       -> {ImportAnswer(StreamOf(c))}
    [] c.op = "export"       -> {<<"stream", RecordSequence(Export(c.sel))>>}
    [] c.op = "get"          -> {<<"rows", Get(c.scope, c.id)>>}
    [] c.op = "list"         -> {<<"ids", IdsOf(List(c.scope, c.offset, c.limit))>>}
    [] c.op = "audit"        -> {<<"ids", IdsOf(Audit(c.scope, c.filter))>>}
    [] c.op = "audit_rows"   -> {<<"rows", InScope(audit, c.scope)>>}
    [] c.op = "aggregates"   -> {<<"aggregates", Aggregates(c.filter)>>}
    [] c.op = "capacity"     -> {<<"capacity", CapacityState(c.scope)>>}
    [] c.op = "stats"        -> {<<"stats", ScopeStats(c.scope)>>}
    [] c.op = "neighbours"   -> Neighbours(c.scope, c.probe, c.k)
    [] c.op = "candidates"   -> Candidates(c.scope, c.query)
    [] OTHER                 -> {<<"done", 0>>}

Writes == {"apply", "recall", "set_budget", "purge", "import"}

WriteStep(c) ==
  /\ c.op \in Writes
  /\ CASE c.op = "apply"      -> Apply(c.txn, c.audit)
       [] c.op = "recall"     -> RecordRecall(c.scope, c.refs, c.audit, c.meta)
       [] c.op = "set_budget" -> SetBudget(c.scope, c.budget)
       [] c.op = "purge"      -> PurgeSubject(SubjectOf(c.scope), c.cascade, c.scope,
                                              c.audit, c.meta)
       [] c.op = "import"     -> Import(StreamOf(c))
  /\ UNCHANGED <<other, kept>>

SwitchStep(c) ==
  /\ c.op \in {"switch", "create"}
  /\ Opened(IF c.op = "switch" THEN other ELSE NoTables)
  /\ other' = Tables
  /\ UNCHANGED kept

ReadStep(c) ==
  /\ c.op \notin Writes \cup {"switch", "create"}
  /\ kept' = IF c.op = "export" THEN Export(c.sel) ELSE kept
  /\ UNCHANGED <<tables, other>>

(* The next call of the case.                                              *)
Call ==
  /\ done < Len(script)
  /\ LET c == script[done + 1] IN WriteStep(c) \/ SwitchStep(c) \/ ReadStep(c)
  /\ done' = done + 1
  /\ UNCHANGED <<minted, case, script, said>>

-----------------------------------------------------------------------------
(* The other subject.  A case that reads the aggregates or exports sees    *)
(* the whole tenant and has it to itself.                                  *)
Bystander == <<"bystander", "n">>

TenantWide(sc) == \E n \in DOMAIN sc : sc[n].op \in {"export", "import", "aggregates"}

BystanderWrites ==
  LET own == Vectored(Item(90, Bystander, "mat")) IN
  {Keyed(own, "k"), [Admit(own) EXCEPT !.evictions = 1..9], Evict(Bystander, 1..9 \cup {90}),
   [MergeInto(90, Bystander, "long") EXCEPT !.evictions = {1}]}

Meanwhile ==
  /\ said < MaxBystander
  /\ done < Len(script)
  /\ ~TenantWide(script)
  /\ LET n == 900 + said IN
     \/ \E t \in BystanderWrites : Apply(t, n)
     \/ RecordRecall(Bystander, {1, 90}, n, System(0))
     \/ SetBudget(Bystander, "100 items")
     \/ \E cascade \in BOOLEAN :
          PurgeSubject("bystander", cascade, Bystander, n, System(0))
  /\ said' = said + 1
  /\ UNCHANGED <<minted, case, script, done, other, kept>>

ConformanceNext == Call \/ Meanwhile

ConformanceSpec == ConformanceInit /\ [][ConformanceNext]_conformanceVars

-----------------------------------------------------------------------------
(* The backend that does nothing: every call succeeds and answers nothing. *)
NullAnswer(c) ==
  CASE c.op = "apply"        -> <<"applied", [item |-> {}, audit |-> 0, evicted |-> {}]>>
    [] c.op = "recall"       -> <<"recalled", 0>>
    [] c.op = "purge"        -> <<"purged", Report(0, 0, 0, 0)>>
    [] c.op = "import"       -> Reported(0, 0, 0, 0)
    [] c.op = "export"       -> <<"stream", <<>>>>
    [] c.op \in {"get", "audit_rows"} -> <<"rows", {}>>
    [] c.op \in {"list", "audit", "neighbours", "candidates"} -> <<"ids", <<>>>>
    [] c.op = "aggregates"   -> <<"aggregates", <<>>>>
    [] c.op = "capacity"     -> <<"capacity", NoCapacity>>
    [] c.op = "stats"        -> <<"stats", [count |-> 0, bytes |-> 0, median |-> 0]>>
    [] OTHER                 -> <<"done", 0>>

Accepts(c, answers) ==
  IF c.want = {} THEN \A a \in answers : a[1] # "error" ELSE answers \subseteq c.want

NullPasses(sc) == \A n \in DOMAIN sc : Accepts(sc[n], {NullAnswer(sc[n])})

(* A case the null backend passes, the sibling that asserts the presence   *)
(* of what it asserts the absence of, and the read they share.             *)
NullTolerant ==
  [keyword_search_escapes_user_input |->
     <<"keyword_search_finds_exact_terms", "candidates">>,
   cross_model_vectors_are_rejected |->
     <<"neighbours_break_ties_before_truncating_at_k", "neighbours">>]

-----------------------------------------------------------------------------
(* Properties.                                                             *)

(* The suite passes: whatever the other subject did before, every answer   *)
(* the backend may give to the next call of a case is one its test accepts *)
(* (run_conformance_suite, and the SQLite backend's test that runs it).    *)
Conforms == done < Len(script) => Accepts(script[done + 1], Answers(script[done + 1]))

(* The suite is not vacuous: the cases that pass against a backend that    *)
(* does nothing are the listed ones, and each of those has a sibling that  *)
(* fails there and makes the same read                                     *)
(* (no_conformance_test_passes_against_a_backend_that_does_nothing).       *)
SuiteIsNotVacuous ==
  /\ NullPasses(script) = (case \in DOMAIN NullTolerant)
  /\ case \in DOMAIN NullTolerant =>
       LET sibling == NullTolerant[case][1]
           Calls(sc) == \E n \in DOMAIN sc : sc[n].op = NullTolerant[case][2] IN
       \A sc \in Suite[sibling] : ~NullPasses(sc) /\ Calls(sc) /\ Calls(script)

=============================================================================
