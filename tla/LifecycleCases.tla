---------------------------- MODULE LifecycleCases ----------------------------
(***************************************************************************)
(* The conformance suite of the backend contract, second part: the cases   *)
(* of lifecycle.rs, about the audit log, purges, export and import, and    *)
(* the aggregates.                                                         *)
(*                                                                         *)
(* Audit ids ascend in the order the cases write them, unless a case says  *)
(* otherwise.  A policy is the places of its name and version in the byte  *)
(* order of those the cases use.                                           *)
(***************************************************************************)
EXTENDS ConformanceCases

(* More calls.                                                             *)

(* factory.create() once more. *)
Fresh == [op |-> "create", want |-> {}]

Purge(s, cascade, n, m, report) ==
  [op |-> "purge", scope |-> s, cascade |-> cascade, audit |-> n, meta |-> m,
   want |-> {<<"purged", report>>}]

Report(n, vecs, removed, preserved) ==
  [items |-> n, vectors |-> vecs, removed |-> removed, preserved |-> preserved]

(* The stream is kept; its records are told by kind and id.                *)
Exports(subjects, namespaces, withAudit, records) ==
  [op |-> "export",
   sel |-> [subjects |-> subjects, namespaces |-> namespaces, audit |-> withAudit],
   want |-> {<<"stream", <<<<"header", 0>>>> \o records>>}]

RecordsOf(ids, audits) ==
  [n \in DOMAIN ids |-> <<"item", ids[n]>>] \o [n \in DOMAIN audits |-> <<"audit", audits[n]>>]

ExportsAll(withAudit, ids, audits) ==
  Exports(Subjects, Namespaces, withAudit, RecordsOf(ids, audits))

Reported(ids, vecs, audits, skipped) ==
  <<"imported", [items |-> ids, vectors |-> vecs, audits |-> audits, skipped |-> skipped]>>

(* import of the kept stream, and of one built by hand.                    *)
Imports(want) == [op |-> "import", stream |-> {}, want |-> {want}]

Presents(x, tenants, want) ==
  [op |-> "import", stream |-> {Presented(x, "current", tenants)}, want |-> {want}]

Aggregated(f, rows) ==
  [op |-> "aggregates", filter |-> f, want |-> {<<"aggregates", rows>>}]

AllAggregated(rows) == Aggregated(AnyAggregate, rows)

Decided(t, p) == [t EXCEPT !.auditMeta.policy = {p}]

Embedded(id, b) == Does(Admit(Vectored(Item(id, Home, b))), id)
Forgets(ids, n, at) == Does(EvictAt(Home, ids, at), n)

Uncounted == Counts(Home, Unbounded, 0, 0)

-----------------------------------------------------------------------------
(* The audit log.                                                          *)

(* The eviction is the newest row and the second by its time.              *)
ThreeAdmitsAndAnEviction ==
  [n \in 1..3 |-> Does(Admit(At(Item(n, Home, "note"), 10 * (n - 1))), n)] \o
  <<Lists(Home, <<1, 2, 3>>), Forgets({1}, 4, 15)>>

AuditFilterNarrowsByEventAndTime ==
  ThreeAdmitsAndAnEviction \o
  <<Audits(Home, [AnyAudit EXCEPT !.events = {"Admitted"}], <<3, 2, 1>>),
    Audits(Home, [AnyAudit EXCEPT !.events = {"Forgotten"}], <<4>>),
    Audits(Home, [AnyAudit EXCEPT !.since = {5}, !.until = {25}], <<4, 3, 2>>),
    Audits(Home, [AnyAudit EXCEPT !.limit = 2], <<4, 3>>)>>

AuditFilterNarrowsByItem ==
  <<Does(Admit(Item(1, Home, "note")), 1), Does(Admit(Item(2, Home, "note")), 2),
    Does(Evict(Home, {9}), 3),
    Audits(Home, [AnyAudit EXCEPT !.item = {1}], <<1>>),
    Audits(Home, [AnyAudit EXCEPT !.item = {2}], <<2>>)>>

AuditReturnsMinOfTheLimitAndTheRowsThatRemain ==
  <<Does(Admit(Item(1, Home, "note")), 1), Forgets({1}, 2, 0)>> \o
  [n \in 1..4 |-> Does(Admit(Item(n + 1, Home, "note")), n + 2)] \o
  <<Logs(Home, <<6, 5, 4, 3, 2, 1>>),
    Audits(Home, [AnyAudit EXCEPT !.events = {"Forgotten"}, !.limit = 3], <<2>>),
    Audits(Home, [AnyAudit EXCEPT !.events = {"Admitted"}, !.limit = 2], <<6, 5>>)>>

AuditPagesByTheAfterCursorWithoutRepeatingARow ==
  LET From(cursor, ids) ==
        Audits(Home, [AnyAudit EXCEPT !.after = cursor, !.limit = 2], ids) IN
  ThreeAdmitsAndAnEviction \o <<From({}, <<4, 3>>), From({3}, <<2, 1>>), From({1}, <<>>)>>

AuditSinceAndUntilIncludeARecordOnTheBoundary ==
  [n \in 1..5 |-> Does(Admit(At(Item(n, Home, "note"), 10 * (n - 1))), n)] \o
  <<Audits(Home, [AnyAudit EXCEPT !.since = {10}, !.until = {30}], <<4, 3, 2>>)>>

ApplyPersistsTheAuditIdItWasGiven ==
  <<Answered(Admit(Item(1, Home, "note")), 50, {Applied({1}, 50, {})}), Logs(Home, <<50>>)>>

RecordRecallPersistsTheAuditIdItWasGiven ==
  <<Embedded(1, "note"),
    [Recall(Home, {1}, 51, System(1)) EXCEPT !.want = {<<"recalled", 51>>}],
    Audits(Home, [AnyAudit EXCEPT !.events = {"Recalled"}], <<51>>)>>

-----------------------------------------------------------------------------
(* Purges.  The doomed subject is Home's, with Home and Beside.            *)

PurgeSubjectRemovesEverythingForThatSubject ==
  [n \in 1..6 |-> Does(Admit(Vectored(Item(n, IF n < 4 THEN Home ELSE Beside, "note"))), n)] \o
  <<Lists(Home, <<1, 2, 3>>),
    Purge(Home, TRUE, 7, System(0), Report(6, 6, 6, 0)),
    Lists(Home, <<>>), Lists(Beside, <<>>),
    Uncounted, Counts(Beside, Unbounded, 0, 0),
    Audits(Home, [AnyAudit EXCEPT !.events = {"SubjectPurged"}], <<7>>),
    Logs(Home, <<7>>), Logs(Beside, <<>>)>>

PurgeSubjectLeavesOtherSubjectsIntact ==
  <<Does(Admit(Item(1, Home, "note")), 1), Does(Admit(Item(2, Stranger, "note")), 2),
    Purge(Home, TRUE, 3, System(0), Report(1, 0, 1, 0)),
    Lists(Home, <<>>), Lists(Stranger, <<2>>),
    Counts(Stranger, Unbounded, 1, 1), Logs(Stranger, <<2>>)>>

(* The retry under the purged key is applied, not replayed.                *)
PurgeSubjectPreservesAuditWhenAsked ==
  LET keyed == [Keyed(Vectored(Item(3, Home, "mat")), "k") EXCEPT !.auditMeta = System(0)] IN
  <<Embedded(1, "note"), Embedded(2, "note"), Does(keyed, 3),
    Lists(Home, <<1, 2, 3>>), Counts(Home, Unbounded, 3, 4),
    Near(Home, "note", 10, <<1, 2, 3>>), Logs(Home, <<3, 2, 1>>),
    Purge(Home, FALSE, 40, System(0), Report(3, 3, 0, 3)),
    Lists(Home, <<>>), Lacks(Home, 3), Near(Home, "note", 10, <<>>), Uncounted,
    Logs(Home, <<40, 3, 2, 1>>),
    Audits(Home, [AnyAudit EXCEPT !.events = {"SubjectPurged"}], <<40>>),
    Answered(Keyed(Item(4, Home, "mat"), "k"), 41, {Applied({4}, 41, {})}),
    Lists(Home, <<4>>)>>

(* The actor is read back with the row's other columns.                    *)
Dpo == [System(0) EXCEPT !.actor = "dpo-7"]

PurgeSubjectPersistsTheRecordItWasGiven ==
  <<Does(Admit(Item(1, Home, "note")), 1), Does(Admit(Item(2, Home, "note")), 2),
    Logs(Home, <<2, 1>>), Purge(Home, TRUE, 60, Dpo, Report(2, 0, 2, 0)),
    [op |-> "audit_rows", scope |-> Home,
     want |-> {<<"rows", {[id |-> 60, scope |-> Home, event |-> "SubjectPurged",
                           items |-> {}, meta |-> Dpo]}>>}]>>

-----------------------------------------------------------------------------
(* Export and import.                                                      *)

ExportNarrowsToTheSelectorsSubjectAndNamespace ==
  LET Beyond == <<"other-s", "other-n">>
      s == {"s"}  n == {"n"} IN
  <<Does(Admit(Item(1, Home, "note")), 1), Does(Admit(Item(2, Beside, "note")), 2),
    Does(Admit(Item(3, Stranger, "note")), 3), Does(Admit(Item(4, Beyond, "note")), 4),
    Has(Item(1, Home, "note")), Has(Item(2, Beside, "note")),
    Has(Item(3, Stranger, "note")), Has(Item(4, Beyond, "note")),
    Exports(Subjects, n, FALSE, RecordsOf(<<1, 3>>, <<>>)),
    Exports(s, Namespaces, FALSE, RecordsOf(<<1, 2>>, <<>>)),
    Exports(s, n, FALSE, RecordsOf(<<1>>, <<>>)),
    Exports(s, n, TRUE, RecordsOf(<<1>>, <<1>>))>>

ExportOrdersTheStreamByKindThenById ==
  LET Admits(n) == Does(Admit(Item(n, Home, "note")), n) IN
  <<Admits(3), Admits(1), Admits(2), ExportsAll(TRUE, <<1, 2, 3>>, <<1, 2, 3>>)>>

(* The corpus uses every field an item has; one item is pending although   *)
(* its vector is there.                                                    *)
ExportImportRoundTripsExactly ==
  LET cats == Vectored([Item(1, Home, "alpha") EXCEPT !.tags = {"work"}])
      dogs == Vectored([Item(2, Home, "rug") EXCEPT
                          !.tags = {"home"}, !.meta.kind = "preference",
                          !.meta.occurred = {1}])
      zstd == [Vectored([Item(3, Home, "zstandard") EXCEPT !.meta.sensitivity = 4])
                 EXCEPT !.pending = TRUE]
      Same == <<Has(cats), Has(dogs), Has(zstd), Page(Home, 0, 100, <<1, 2, 3>>),
                Near(Home, "cats", 3, <<1, 2, 3>>)>> IN
  <<Does(Admit(cats), 1), Does(Admit(dogs), 2), Does(Admit(zstd), 3),
    ExportsAll(TRUE, <<1, 2, 3>>, <<1, 2, 3>>)>> \o Same
  \o <<Elsewhere, ExportsAll(TRUE, <<>>, <<>>), Imports(Reported(0, 0, 0, 0)), Elsewhere,
       ExportsAll(TRUE, <<1, 2, 3>>, <<1, 2, 3>>), Elsewhere,
       Imports(Reported(3, 3, 3, 0))>> \o Same

ImportIsIdempotent ==
  <<Embedded(1, "note"), ExportsAll(FALSE, <<1>>, <<>>), Elsewhere,
    Imports(Reported(1, 1, 0, 0)), Logs(Home, <<>>),
    Imports(Reported(0, 0, 0, 1)), Lists(Home, <<1>>)>>

ImportPreservesEveryAuditId ==
  <<Embedded(1, "note"), Embedded(2, "note"), Embedded(3, "note"),
    ExportsAll(TRUE, <<1, 2, 3>>, <<1, 2, 3>>), Logs(Home, <<3, 2, 1>>), Elsewhere,
    Imports(Reported(3, 3, 3, 0)), Logs(Home, <<3, 2, 1>>)>>

(* A record of another tenant, after one that agrees.                      *)
ImportRejectsALaterRecordWhoseTenantDisagrees ==
  <<Presents([items |-> <<Streamed(Item(1, Home, "note")), Streamed(Item(2, Home, "long"))>>,
              audits |-> <<>>],
             {"own", "foreign"}, <<"error", "MalformedImport">>),
    Lists(Home, <<>>), Lacks(Home, 1), Lacks(Home, 2), Elsewhere, Lists(Home, <<>>)>>

ImportRejectsAForeignAuditRecordEvenWhenEveryItemAgrees ==
  <<Presents([items |-> <<Streamed(Item(1, Home, "note"))>>,
              audits |-> <<[id |-> 70, scope |-> Home, event |-> "Admitted", items |-> {},
                            meta |-> System(0)]>>],
             {"own", "foreign"}, <<"error", "MalformedImport">>),
    Lists(Home, <<>>), Lacks(Home, 1), Logs(Home, <<>>), Elsewhere, Logs(Home, <<>>)>>

-----------------------------------------------------------------------------
(* The aggregates.                                                         *)

Key(day, p, event) == <<<<day, p>>, event>>
Once(k) == <<k, 1>>

AuditAggregatesSurviveACascadingPurge ==
  LET admits == <<Key(0, {}, "Admitted"), 3>> IN
  <<Embedded(1, "note"), Embedded(2, "note"), Embedded(3, "note"),
    AllAggregated(<<admits>>), Logs(Home, <<3, 2, 1>>),
    Purge(Home, TRUE, 4, System(0), Report(3, 3, 3, 0)), Logs(Home, <<4>>),
    AllAggregated(<<admits, Once(Key(0, {}, "SubjectPurged"))>>)>>

(* "B", "a", "a@b", "alpha", "baseline", "beta", "nonexistent"; the        *)
(* versions "1", "1.0.0", "10", "2", "9", "b@c", "c".                      *)
UpperB      == <<1, 1>>
LowerA      == <<2, 1>>
SplitLate   == <<2, 6>>
SplitEarly  == <<3, 7>>
Alpha1      == <<4, 1>>
Alpha2      == <<4, 4>>
Ten         == <<5, 3>>
Nine        == <<5, 5>>
BetaPolicy  == <<6, 1>>
Nonexistent == <<7, 2>>

Day(n) == n * DayLength

(* seed_aggregate_corpus                                                   *)
SeededCorpus ==
  LET Under(id, p) == Does(Decided(Admit(Item(id, Home, "note")), p), id)
      Gone(id, n, day, ps) ==
        Does([EvictAt(Home, {id}, Day(day)) EXCEPT !.auditMeta.policy = ps], n) IN
  <<Does(Admit(Item(1, Home, "note")), 1), Under(2, Ten), Under(3, Nine), Under(4, UpperB),
    Under(5, LowerA), Under(6, SplitEarly), Gone(6, 7, 0, {SplitLate}),
    Does(Admit(At(Item(8, Home, "note"), Day(1))), 8),
    Gone(1, 9, 1, {}), Gone(2, 10, 1, {Ten})>>

SeededKeys ==
  <<Key(0, {}, "Admitted"), Key(0, {UpperB}, "Admitted"), Key(0, {LowerA}, "Admitted"),
    Key(0, {SplitLate}, "Forgotten"), Key(0, {SplitEarly}, "Admitted"),
    Key(0, {Ten}, "Admitted"), Key(0, {Nine}, "Admitted"),
    Key(1, {}, "Admitted"), Key(1, {}, "Forgotten"), Key(1, {Ten}, "Forgotten")>>

Seeded == [n \in 1..10 |-> Once(SeededKeys[n])]

(* A sweep by pages of two up to the short one, then one read of all.      *)
AuditAggregatesPageInTheDocumentedOrder ==
  LET From(n, rows) ==
        Aggregated([AnyAggregate EXCEPT !.limit = 2,
                                        !.after = IF n = 0 THEN {} ELSE {SeededKeys[n]}],
                   rows) IN
  SeededCorpus \o [n \in 1..5 |-> From(2 * n - 2, SubSeq(Seeded, 2 * n - 1, 2 * n))]
    \o <<From(10, <<>>), AllAggregated(Seeded)>>

AuditAggregatesResumeFromACursorThatNamesNoStoredRow ==
  SeededCorpus \o
  <<AllAggregated(Seeded),
    Aggregated([AnyAggregate EXCEPT !.after = {Key(0, {Nonexistent}, "Rejected")}],
               SubSeq(Seeded, 8, 10))>>

AuditAggregatesNarrowByDayWindowAndPolicy ==
  LET rows == <<<<0, {}>>, <<0, {Alpha1}>>, <<1, {}>>, <<1, {Alpha1}>>, <<2, {Alpha1}>>,
                <<2, {Alpha2}>>, <<2, {BetaPolicy}>>>>
      Writes(n) == Does([Admit(At(Item(n, Home, "note"), Day(rows[n][1]))) EXCEPT
                           !.auditMeta.policy = rows[n][2]], n)
      Row1(n) == Once(Key(rows[n][1], rows[n][2], "Admitted"))
      DayOne == [AnyAggregate EXCEPT !.since = {1}, !.until = {1}]
      Rows(ns) == [n \in DOMAIN ns |-> Row1(ns[n])] IN
  [n \in 1..7 |-> Writes(n)] \o
  <<AllAggregated([n \in 1..7 |-> Row1(n)]),
    Aggregated(DayOne, Rows(<<3, 4>>)),
    Aggregated([AnyAggregate EXCEPT !.policy = {Alpha1}], Rows(<<2, 4, 5>>)),
    Aggregated([DayOne EXCEPT !.policy = {Alpha1}], Rows(<<4>>))>>

EveryAuditWritingPathIncrementsTheAggregates ==
  LET Admits(n) == <<Key(0, {}, "Admitted"), n>>
      recalled == Once(Key(0, {}, "Recalled"))
      purged == Once(Key(0, {}, "SubjectPurged")) IN
  <<Does(Admit(Item(1, Home, "note")), 1), AllAggregated(<<Admits(1)>>),
    Recall(Home, {1}, 2, System(0)), AllAggregated(<<Admits(1), recalled>>),
    Does(Admit(Item(2, Stranger, "note")), 3), AllAggregated(<<Admits(2), recalled>>),
    Purge(Stranger, TRUE, 4, System(0), Report(1, 0, 1, 0)),
    AllAggregated(<<Admits(2), recalled, purged>>),
    Fresh, Does(Admit(Item(1, Home, "note")), 1), Does(Admit(Item(2, Home, "note")), 2),
    ExportsAll(TRUE, <<1, 2>>, <<1, 2>>), Fresh, AllAggregated(<<>>),
    Imports(Reported(2, 0, 2, 0)), AllAggregated(<<Admits(2)>>)>>


=============================================================================
