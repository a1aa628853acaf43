# TLA+ models of memorysafe

memorysafe is a memory service for agents: callers *remember* short texts under a
scope, *recall* a working set of them, and a policy decides what is admitted, merged,
protected and forgotten. This directory holds TLA+ modules of it, TLC configurations that
check them on small instances, and proofs that TLAPS checks. Everything is translated
from the Rust sources under `src/crates/`; `PROJECT.json` maps each definition to the
lines it models.

    tlc -config MCStore.cfg MCStore.tla        # any row of "Runs"
    tlapm StoreProofs.tla                      # any of the eight modules of proofs

## 1. The system

### Components

| Component (crate) | State | Operations | What makes it correct | Here |
|---|---|---|---|---|
| Backend contract (`backend`) | none | the trait's five writing methods | a scope's counters and what a search may find are those of its items; keys and audit are never lost | `Contract`, `StoreContract` |
| SQLite backend, tables (`backend-sqlite`) | one file per tenant: items, vectors, capacity, audit, audit_aggregates, idempotency | `apply`, `record_recall`, `set_budget`, `purge_subject`, `import` | the tables agree with one another; a purge is complete; history stays | `Store` |
| SQLite backend, retrieval (`retrieve.rs`, `keyword.rs`, ...) | none | candidates, neighbours, list, audit, aggregates, statistics, export | filters before limits, total orders, nothing twice | `Reads` |
| Conformance suite (`backend/src/conformance`) | none | 55 cases | they hold of the backend, and could fail | `ConformanceCases`, `LifecycleCases`, `Conformance` |
| SQLite backend, tenant pool (`tenant.rs`) | LRU cache of connections, write locks, poisoned mutexes, open transactions | `with_conn`, `with_write`, `forget` | writes are serial, a panic is healed, nobody is stuck | `TenantPool` |
| Engine (`engine`) | the calls in progress | remember, recall, forget, protect, maintain, reembed, set_budget, purge_subject, import, export | what a call promises holds although others commit between its steps | `Engine`, `Paging` |
| Engine settings, retention (`engine`) | overrides in memory | set policy, set retention | what the audit says is in force is in force | `Service` |
| Baseline policy (`policy`) | none (pure) | assess, admit, maintain, compose | budgets, pins and expiry are respected, nothing decided twice | `Engine`, `Compose`, `Decisions` |
| Authentication (`auth`) | keys loaded at start | authenticate, resolve a scope | a key never reaches another tenant, nor but by an import another subject | `Service` |
| HTTP API, MCP server, CLI (`api`, `mcp`, `cli`) | the processes; msafe.toml | requests to engine calls; `keys add`, `purge`, `import`, `export` | who may reach which scope; no key is lost; what leaves is on record | `Service`, `Paging` |
| Core types (`core`) | none | items, protection, budgets, charges, audit events | charge and capacity agree on what a row costs | records and sets everywhere |
| Embedder (`embed`), shadow replay (`shadow`) | none | vectors; offline comparison | | not modelled (section 7) |

### How they interact, and what is hard about it

A call of the engine is a Rust future: backend operations with `.await` between them,
and no lock across an await. Each backend operation runs in a blocking task under the
tenant's write lock and in one IMMEDIATE transaction. Several processes, each with an
engine of its own, may serve one tenant's file. So:

* **inside one operation** the question is whether the tables stay consistent with one
  another for every transaction (counters kept by deltas, vectors that cascade, keys and
  audit rows that refer to each other): `Store`, against `Contract`;
* **around one operation** it is whether the lock, the pool and the healing of panics
  really make it one step when futures are dropped and connections displaced:
  `TenantPool`;
* **between the operations of a call** it is what other calls do in the meantime: the
  engine decides on rows and counters it read earlier: `Engine`; and on pages it read
  earlier: `Paging`;
* **within one decision** it is several passes over the same rows that must agree:
  `Decisions`, `Compose`;
* **around the calls** it is who makes them, with settings in memory beside an audit that
  is durable, and a file of keys several processes write: `Service`;
* a future may be dropped, or the process crash, at any await: the transactions done so
  far stay, the rest never happens (`Drop`, `Cut`, `Crash`, `DropFuture`).

`PROJECT.json` lists the hazards at the lines where they bite, with the properties that
watch them.

## 2. The modules

Each module builds on those above it:

    Contract            what a backend promises the engine
    Store               the tables of one tenant        (StoreContract: implements Contract)
      Reads             what the backend answers
        ConformanceCases, LifecycleCases, Conformance   the suite against Store and Reads
        Paging          walks over several pages
      Engine            the calls, over Store's transactions
      Service           processes, keys, settings, over Store's tables
    TenantPool          why an operation of Store is one step
    Compose, Decisions  the policy's algorithms on scores

An `MC` module gives the constants of a run; a `Proofs` module holds the theorems about
the modules it extends. Definitions commented "Variant" are mistakes the code does not
make: no specification uses them (see "Mutants" in section 3).

### Store: the tables of one tenant

State: `items`, `vectors`, `capacity`, `audit`, `aggregates`, `idempotency` are the
tables, as sets of rows (`capacity` and `aggregates` as functions: absent rows read as
zero, and so does the code). `minted` numbers the audit ids. An optional column is a set
of at most one element. A vector is known by the body it embeds, a digest by the body it
digests.

| Action | Code |
|---|---|
| `DoApply` (`Apply`, `Commits`, `Victims`, `Inserted`, `Merged`, `VectorsAfter`, `DeltaItems`, `DeltaBytes`) | `SqliteBackend::apply` with `items::{delete,insert,merge}`, `vectors::{insert,delete}`, `capacity::adjust`, `audit::insert`, `aggregates::increment` and the idempotency lookup and insert |
| `DoRecall` | `record_recall` |
| `DoSetBudget` | `set_budget` |
| `DoPurge` | `purge::subject` |
| `DoImport` | `portability::import` |

What the transaction does is split into named operators, each for one statement of the
code; a transaction that does not commit (malformed, replayed, conflicting, key taken,
merge target missing) leaves every table as it was. The columns no statement of the
backend reads (protection, sensitivity, ttl) are one field, `meta`.

`Transactions`, `Streams`, `Recalls`, `Ceilings` and `Purges` are what the callers ask
for. The theorems hold for any such sets that satisfy `StoreAssumption`: an upsert is
pending exactly when it has no vector, which its construction sites see to; a stream has
one item per id, and audit ids minted elsewhere, each once. `Engine` discharges the first
for the transactions it builds (`TransactionsAreValid`, proved). Nothing is assumed of how
a stream pairs items and vectors, as neither `portability::import` nor `import_as` looks: an
item may come pending with a vector, not pending without one, or with the vector of another
body. `VectorsFollowItems` says what then holds: no vector without its item, an item
written here is found exactly as it is, and one an import brought as the stream had it
until it is written again.

### Contract and StoreContract: what the engine may rely on

`Contract` has the memories, the log, the outcomes recorded for keys and the budgets, and
one action per writing method of the trait `Backend`. How full a scope reads (`usage`) and
what a vector search may find (`reach`) are not free. `ExactUsage` defines the one from
the memories in every step. Of the other, `ReachesMemories` says that a search finds
memories and nothing that went, and each action that what it writes is found as it is
`Now`, what an import brought as it came, and the rest as before. `StoreContract`
instantiates the module with the tables, so `HonoursTheContract` says that the deltas, the
cascades, the replacement of a row by eviction and insertion, and every rollback never
show.

### Reads and the conformance suite

`Reads` has an operator per read operation of the backend: candidates by vector and by
keyword, neighbours, list, the audit page and the aggregates, statistics, export. Each
filters, orders and cuts in the order the SQL does; where the SQL leaves an order open, the
operator is the set of answers. A similarity is a count of common words.

`ConformanceCases` and `LifecycleCases` are the 55 cases of
`backend/src/conformance`: each is a script of calls with the answers it accepts, its
corpora cut from 12 to 40 rows to the few that tell its orders and limits apart.
`Conformance` runs a script against the tables while `Meanwhile` lets another subject of
the tenant write, recall and be purged between any two calls, which the suite's tests
cannot provoke; `NullAnswer` is the backend of `null.rs` that does nothing, against which
each case but the ones the code exempts must fail.

### TenantPool: connections, locks and panics

A call is a future and a task. `owner[t]` holds tokio's fair mutex of tenant `t` and
`queue[t]` waits for it; leaving the lock hands it to the first who waits. `cache` is the
LRU; `handle` and `inside` are the `Arc<Mutex<Connection>>` a task has and whether it holds
the mutex; `writer[t]` is the connection whose transaction holds the file's write lock, as
long as that connection is open. A connection is open while the cache or a task refers to
it (`Live`), so closing is not an action: it happens when the last reference goes, as it
does for an `Arc`.

`Call`, `Acquire`, `DropFuture`, `LookUp`, `Open`, `Publish`, `LockMutex`, `Heal`, `Forget`
are the steps of `with_write`, `with_conn`, `Pool::handle` and `forget`, cut wherever a lock
is released; `LookUpKey`, `BeginImmediate`, `Commit` are the closure of
`SqliteBackend::apply` as the idempotency key sees it; `Panic` may happen in any closure.
SQLite is external: a write transaction excludes others of the file, one that cannot begin
in `busy_timeout` fails, and closing a connection rolls back.

### Engine: the calls

Each caller has `pc`, `req` and `mem` (the locals of its call: what it read, the
transaction it is about to apply, the work left). The actions are the steps between
awaits:

| Call | Actions |
|---|---|
| remember | `ReadNeighbours` (assess_context), `ReadCapacity`, `Admit` (candidates, admit::decide, the transaction), `CheckTarget` (validate::merge_target), `DoTransaction`, `ReplayOutcome` |
| forget | `Match`, `DoTransaction` |
| protect | `Grant`, `DoTransaction` |
| maintain | `List`, `ReadCapacity`, `Decide` (with `Plan`), then `Fold` and `Grant` with a `DoTransaction` each, `Finish` with the last one |
| reembed | `List`, then `Embed` and `DoTransaction` for each row |
| recall | `Retrieve`, `Record` |
| set_budget | `ChangeBudget`, `DoTransaction` (its audit row) |
| purge_subject | `Purge` |
| import | `ImportStreamOf` (validation and reassessment of the stream, the import), `DoTransaction` (its audit row) |
| export | `Export`, `DoTransaction` (its audit row) |
| any | `Begin`, `Drop`; and `Tick` for the clock |

`DoTransaction` applies the very `Apply` of `Store`, so the two modules cannot disagree on
what a transaction does. Abstractions:

* a body is the set of facts it tells; bodies that share a fact are similar, equal ones
  are duplicates. This is what the admission and consolidation thresholds tell apart.
* which evictable items go first, and which are fragile, is a choice, where the code
  orders them by scores (`Decisions` has the scores); how many go is not (`Evictions`).
* `Meta` keeps the three columns the engine acts on: `prot` is the instant from which the
  item is evictable (0 for Normal, `Never` for Pinned, `until` for Protected), `sens`,
  and `expires`.
* a scope fits one page (128 candidates) and one batch (200 rows); `Paging` has more.
* the working set of a recall is any subset under the ceiling; `Compose` composes it.
* the stance after an invalid decision is the default, fail-safe (reject).
* `Drop` covers a crash and a future dropped before its transaction started. A future
  dropped later cannot stop its blocking task (`TenantPool`): that call is simply one that
  goes on, and whoever dropped it counts as a further caller. A statement about one caller
  therefore assumes that it waits for such a task.

### Paging: walks over several pages

`walk` is one walk: the audit log by cursor (`ReadAudit`: the request clamped, one row
more asked for to know whether there is a next page), or the items of a scope by offset
(`ReadPage`, then `FoldOne` and `RewriteOne` for what the page decides, `EndPage` with the
offset of the next). `Others` is any transaction, import or purge of `Store` between two
steps; it counts what they removed in `lost`. `start` and `seen` are histories: the ids
there when the walk began (of an audit walk, those that are there ever since) and the ids it
was given. What is decided about a row is any choice here. Numbers have the width of the code:
`usize` up to `UsizeMax`, `i64` half of it, additions that saturate.

### Service: who calls, and from which process

One tenant file, `msafe.toml` (`file`: keys and the retention profile) and the processes
around them: an HTTP server, a server over stdio, runs of the command line, each with an
engine of its own that loaded the file when it started. `Start`, `Crash`, `KeysAdd` and
`Edit` (by hand) change them. A call resolves its scope first (`ApiKeyScope`,
`FixedScope`, `CommandScope`, `ResourceScope`) and then is a remember, a read, a change of the
policy or the retention profile (`BeginSetting`, `AuditSetting`, `Install`), of a ceiling
(`ChangeCeiling`, `AuditBudget`), a purge (`ReadNamespaces`, `Purge`), an import or an export,
cut at any await by `Cut`. An import (`BeginImport`, then `BringIn` or `RefuseImport`, then
`AuditImport`) has no scope: of the rows of its stream only the tenant is compared, so they
are of any scope, reserved ones included, and its audit rows of any actor, event and
setting; its own row is a second transaction. An export (`BeginExport`, `Export`,
`AuditExport`, `AnswerExport`) reads what its selector selects, records that, and answers;
over HTTP the selector is the key's subject, on the command line it may be the tenant, and
the command line reads a second time before it answers. The other variables are histories
the properties need: which setting each process was told last, what was changed, brought in
and shown and by whom, which records a crash lost.

### Compose and Decisions: the policy on scores

`Compose` is `compose.rs`: the search loop, the replay loop with its reserved slots, the
fill by marginal relevance, the explained omissions, one action per turn of a loop; and
`Accepted`, the engine's check of the answer (`validate.rs`). Scores are integers in
percent; a relevance above 100 is a NaN, which `total_cmp` ranks first.

`Decisions` is `admit.rs` (`Admission`: duplicate, merge, retain with the evictions it
needs) and `maintain.rs` over one page: `Expire`, `Reclaim`, `Regrant`, `Release`,
`Consolidate`, then `Apply`, what the engine carries out of it, and a second run over what
is left. `config` is what the tenant set of protection, the threshold a row must reach to be
fragile and the length of the window it then gets (`Granted`): `settings::validate` looks
neither at the one, nor asks the other to be longer than nothing, and neither does the
model.

## 3. Runs

| Run | Instance | States | What it shows |
|---|---|---|---|
| `store` | 2 namespaces of one subject, one of another; 2 ids, 2 bodies, a key; transactions that insert, replace, merge, evict and collide across scopes, streams paired and not; 3 audited operations | 174,072 | the tables agree with one another, history stays, and every operation is a step of `Contract`, in every order |
| `conformance` | the 55 cases, up to 2 calls of a bystander | 22,590 | the cases hold whatever the bystander does, and the backend that does nothing fails them |
| `tenant_pool` | 2 tenants, pool of 1, 3 calls, 2 faults | 878,112 | writes are serial, keys commit once, panics are healed, no standstill |
| `engine_sequential` | 1 caller, 15 requests, 3 calls, clock 0..1, two import streams; the embedder may fail, calls may be dropped | 1,465,220 | pins, budgets, protection, content, expiry and erasure hold for a caller on its own |
| `engine_concurrent` | 2 callers, 3 calls, fair | 83,449 | a keyed write is admitted once however it is retried; every call that is polled returns |
| `paging` | 3 rows, pages of 2, 2 transactions of others; page sizes 0, 1 and `usize::MAX` | 66,984 | the audit walk is exact; an item walk misses at most as many rows as others removed; walks end |
| `service` | 3 processes, 2 overlapping calls, 2 starts, 1 edit; calls symmetric; a stream with rows of the reserved scope and of other actors, and one that is here already | 245,843 | who reaches which scope; audit against settings, ceilings, imports, exports and purges; what becomes of the keys |
| `compose` | every offer of up to 4 candidates of 7 kinds, each budget, both modes | 278,304 | what the policy composes is accepted, wastes no room, prefers nobody to a better one |
| `decisions` | every page of up to 3 rows of 9 kinds, of 4 rows of 2 kinds; up to 4 neighbours at -40, 20, 45 or 60 percent, nearest first; thresholds of 85, 51 and 50 percent with windows of 30, 1 and no days | 825,589 | evictions are exactly enough, no row meets two fates, a second run finds the page settled |
| `budget_race`, `forget_race` | 2 callers, 2 calls | | two of those properties with a second caller: violated, section 4 |
| `pinned_expiry` | the pages of `decisions` | | what a document says of a pinned row with a ttl: violated, section 4 |

Each takes between a few seconds and about two minutes with two workers.

**What the properties say.** A type invariant stands in one conjunction with those it
belongs to: `SchemaHolds`, `EngineInv`, `PoolInv`, `ItemWalksAreExact`, `ScopesAreKept`,
`CompositionIsAccepted`, `OrdersAreSound`. The others, by what they guard:

* *tables*: `VectorsFollowItems`, `CapacityCounted`, `ReplaysAreAudited`,
  `AggregatesCoverAudit`, `HistoryIsPermanent`, `HonoursTheContract`; `Conforms` and
  `SuiteIsNotVacuous` for what is read from them.
* *concurrent writes*: `WritesAreSerial`, `KeysApplyOnce`, `ConflictNeedsDrop` (a conflict
  that is no difference of payload needs a dropped write), `CleanConnections`,
  `LoneCallsSucceed`, `NoStandstill`; `RetriesAdmitOnce` and `CallsEnd` one level up.
* *a caller on its own*: `ErasedStaysErased`, `PinnedSurvive`, `BudgetKept`,
  `ProtectionIsExplicit`, `ConsolidationKeepsContent`, `MaintenanceReclaims`.
* *several pages*: `AuditWalkIsExact` (no row missed or given twice, and no page over the
  limit), `ItemWalksAreExact`, `WalksEnd`.
* *scopes and settings*: `ScopesAreKept` (nobody is shown another subject's row but by an
  export of the command line, the reserved scopes hold the engine's rows and what imports
  brought, every setting in force is valid and has its audit row, one that was minted here),
  `ChangesAreAuthorised` (rows are written in the name of a usable key for its own subject
  or for the tenant; a stream, whatever its rows claim, enters by such a key or the command
  line), `ExportsAreAudited`, `SettingsFollowTheAudit`, `ChangesAreCounted`,
  `PurgeHonoursRetention`, `KeysStay`.
* *decisions*: `TheBestThatFitsIsChosen`, `ReplayIsReserved`, `AdmissionMakesRoomExactly`,
  `FragileMeansAlone`, `ReclaimStopsAtTheBudget`, `SecondRunSettles`.

Several state what the code does although one might wish for more. `VectorsFollowItems`
excepts items an import brought until they are written again, and
`ReservedScopesAreTheEngines`, a part of `ScopesAreKept`, what imports put there. A change
of a ceiling or an import cut before its audit row leaves none, as the doc of `set_budget`
says: `ChangesAreCounted` excepts exactly those, and counts apart the rows streams carry.
`FragileMeansAlone` speaks of tenants whose threshold is above one half: at one half a row
of typical company is protected as well. `SecondRunSettles` lets a second run release what
the first protected for a window of no length, and nothing else. `PinnedSurvive`,
`ProtectionIsExplicit` and `ConsolidationKeepsContent` are of a caller on its own: section
4 says what a second caller makes of the first two. Two settings that overlap may be in
force in the other order than they were audited: `SettingsFollowTheAudit` excepts them.
`KeysStay` excepts a save by `msafe keys add` over a change made since it loaded the file.
`BudgetKept` excepts a new budget, a merge by admission, which replaces a body by a longer
one without asking for room, and an import, which looks at no budget.
`MaintenanceReclaims` allows a scope over its budget to keep unprotected rows where a pin
outlived its ttl: the run counts that row's room as freed and then keeps it (finding
`pinned_expiry`); and it speaks of the rows whose ttl had ended before the first instant,
as the clock may go on between the decision of a run and its last transaction.

**Why the bounds are enough.** The tables are related row by row and scope by scope: a
violation needs at most two rows that collide and one operation on each side, and two
scopes for everything that is "per scope". Three audited operations allow create, change,
and a third that trips over the result, which is what every mutant needed. In
`engine_sequential` the seeds add what an import may have left (a pinned item, an expired
one, one whose protection ends), so three calls start from states that would otherwise
take several more. In `tenant_pool` three calls are a dropped writer, the call that
displaces its connection, and its retry; two faults allow a panic and a drop together. In
`paging` a walk of three rows in pages of two crosses a page boundary, and two
transactions of others can remove on one side of it and insert on the other. In `service`
two calls overlap with each other, with a restart and with an edit; a third process or
call would meet only what one of these leaves. Its stream has one row of each kind that
could pass for the engine's: an item in a reserved scope, a ceiling changed in the name of a
disabled key, a setting nobody made. In `compose` and `decisions` four rows are
two pairs that compete, which is where greedy loops go wrong; four neighbours are one more
than the three whose mean is compared with that of all, at similarities apart, near but
below the merge threshold, and above it. `MaxAudit`, `MaxAccess`,
`MaxCalls`, `MaxNow`, `MaxFaults`, `MaxWrites`, `MaxRewrites`, `MaxStarts`, `MaxEdits` and
`MaxBystander` are the bounds on counters; they stop new operations, and a case, a walk, a
composition or a run of maintenance ends: this is why deadlock is not checked.

**Fairness.** `FairSpec` assumes weak fairness of every caller's steps: the runtime polls
each future that is not dropped, and each backend operation returns. Nothing is assumed of
the embedder: it may fail every time. `PagingSpec` assumes it of the walk, since
`maintain --all` and a client that follows its cursor ask again; not of the others.
`TenantPool` assumes nothing: `NoStandstill` says that some running call can always take a
step, and no step repeats without end.

**Mutants.** Each property of a passing run is shown to be about the code by a plausible
mistake in one definition that breaks it (the definitions commented "Variant"): an
eviction addressed by id alone, a delta computed from what was requested, a merge that
leaves the old vector, a forgotten `drop(handle)`, an offset that counts removed rows, a
cursor past the probe row, and so on.

## 4. Findings

Three claims of the repository's documents, comments and tests are refuted by runs of
their own; `PROJECT.json` quotes the lines.

* `budget_race`: two admissions both find room for one. The design document describes the
  row lock that would prevent it; the counters are read outside the transaction
  (gather.rs:60).
* `forget_race`: protect and reembed write a row back that was forgotten or purged after
  they read it (mutate.rs:189).
* `pinned_expiry`: maintenance lists a pinned row whose ttl has elapsed among its
  expiries, and the engine then drops every eviction of a pinned row, so the row is never
  forgotten, although expiry is said to dominate; its room has been counted as freed
  (maintain.rs:133), so the run may also leave its scope over budget with unprotected rows
  in it.

Seen while modelling, and part of the model without a run:

* *races*: an admission may evict an item pinned after it was listed, since protection is
  checked on the rows read (validate.rs:60); reembed writes back the protection it listed,
  and so undoes a pin (reembed.rs:208). These are why `PinnedSurvive` and
  `ProtectionIsExplicit` are checked for one caller. The scan of a forget by tag says
  "nothing is deleted while this runs" (mutate.rs:124-130), which another caller makes
  untrue: `ItemWalksAreExact` tells what is left of it.
* *merges*: a merge by admission replaces the target's body although the strategy it
  carries says append (write.rs:199, decision.rs:84); it keeps neither the higher
  sensitivity nor the shorter ttl (items.rs:368, decision.rs:86-90); a retried merge is
  told as a retain (`RetriesAdmitOnce` states it so); a merge by admission may take a
  scope over its byte limit (`BudgetKept` excepts it), where a fold cannot: it takes the
  absorbed row's fixed 64 bytes away and adds a separator of two. The doc of
  `apply_merge` says in one place that a failed embedding leaves the target's vector; it
  is removed, as the comment in its body says (maintain.rs:258, 293).
* *retries*: one can pass the idempotency lookup while the original, whose future was
  dropped, is still to commit, and then meets the primary key (`ConflictNeedsDrop`).
* *settings*: they live in memory, and overlapping changes may be installed in the reverse
  order of their audit rows; a restart returns to the file. `set_tenant_policy_config`
  refers to an order `set_budget` documents, which is the reverse of its own. A running
  server keeps the keys it loaded at its start. The command line's purge goes by the
  file's profile, not by an override in a running server.
* *scopes*: whether a key may use a namespace is checked twice (`pick_namespace`,
  `Authenticated::scope`). `slug` (serve.rs:36) knows `_admin` only: a server started in a
  directory called `_purged` does not start. `DELETE /v1/subjects/{id}` purges the key's
  own subject whatever the id.
* *import*: any key of a tenant may bring in items of any of its subjects and of `_admin`
  and `_purged`, and audit rows of any actor and event (`known-gaps.md:760-775` says as
  much), while the doc of the admin scope has it that no caller can name it (core
  `ids.rs:214-216`); an item of the subject `_admin` is beyond every forget and purge. How
  a stream pairs items and vectors is not looked at, although the stream is called
  untrusted (engine `portability.rs:17-25`). It looks at no budget; its record is a second
  transaction, which a crash can lose, and names all items of the stream, also those that
  were there already.
* *export*: it is recorded after it was read and before it is handed out, so a dropped one
  may be recorded (`ExportsAreAudited` is about those handed out); the command line reads
  once more for its Markdown, and what has come since is handed out on the same record.
* *policy*: fragility exceeds one half only where a row has no neighbour at all, so any
  threshold above that protects the same rows (`FragileMeansAlone`); a tenant may set it to
  one half or less, which `settings::validate` does not look at, and then rows with company
  are protected too. A window of no days is accepted and over as it is granted
  (`settings.rs:69`, `item.rs:43`): a second run takes it back (`SecondRunSettles`).
  `maintain --all` never sums `consolidated` (curate.rs:190).
* the statistics cache has no reader but its tests.

## 5. What is proved

Eight modules hold theorems; each is for every value of the constants that satisfies the
assumptions of the modules it extends, and every leaf is checked.

| Module | Theorem | Statement |
|---|---|---|
| `StoreProofs` | `Invariant` | `Spec => []IInv` |
| | `SchemaIsKept`, `VectorsAreCurrent`, `CapacityIsExact`, `ReplaysHaveAudit`, `AggregatesCover` | the five invariants of the `store` run |
| | `HistoryStays` | `Spec => HistoryIsPermanent` |
| `ContractProofs` | `RefinesTheContract` | `Spec => HonoursTheContract` |
| `EngineProofs` | `EngineHandsOverValidTransactions` | `EngineSpec => []EngineInv` |
| | `EngineKeepsTheStore`, `EngineHistoryStays` | what is proved of `Store`, of the tables as the calls drive them |
| | `RetriesAdmitOnceAlways` | `NoPurges => (EngineSpec => []RetriesAdmitOnce)` |
| `EngineAlone` | `ErasedStaysErasedAlways` | `OneCaller => (EngineSpec => []ErasedStaysErased)` |
| | `PinnedSurviveAlways`, `ProtectionIsExplicitAlways`, `ConsolidationKeepsContentAlways`, `MaintenanceReclaimsAlways`, `BudgetKeptAlways` | the five action properties of `engine_sequential`, each under `OneCaller` |
| `PoolProofs` | `PoolInvariant` | `PoolSpec => []PoolIInv` |
| | `WritesAreSerialAlways`, `KeysApplyOnceAlways`, `ConflictNeedsDropAlways` | the three invariants |
| | `ConnectionInvariant` | `PoolSpec => [](PoolIInv /\ ConnInv)` |
| | `PoolStaysSound` | `PoolSpec => []PoolInv`: types, bounds, `CleanConnections`, `LoneCallsSucceed`, `ConflictNeedsDrop` |
| `ServiceProofs` | `ScopesAreKeptAlways` | `ServiceSpec => []ScopesAreKept` |
| | `ChangesAreAuthorisedAlways`, `KeysStayAlways` | two action properties of the `service` run |
| | `SettingsFollowTheAuditAlways` | `ServiceSpec => []SettingsFollowTheAudit` |
| | `PurgeHonoursRetentionAlways` | `ServiceSpec => PurgeHonoursRetention` |
| | `ChangesAreCountedAlways`, `ExportsAreAuditedAlways` | `ServiceSpec => []...` |
| `PagingProofs` | `PagingInvariant` | `PagingSpec => []PagingInv` |
| | `ItemWalksAreExactAlways` | `PagingSpec => []ItemWalksAreExact` |
| | `AuditWalkIsExactAlways` | `PagingSpec => AuditWalkIsExact` |
| `PolicyProofs` | `CompositionIsAcceptedAlways`, `TheBestThatFitsIsChosenAlways`, `ReplayIsReservedAlways` | the three invariants of `compose`: `ComposeSpec => []...` |
| | `OrdersAreSoundAlways`, `AdmissionMakesRoomExactlyAlways`, `FragileMeansAloneAlways`, `ReclaimStopsAtTheBudgetAlways`, `SecondRunSettlesAlways` | the five of `decisions`: `DecisionsSpec => []...` |

**Store.** The argument is one inductive invariant,

    IInv = TypeOK /\ PrimaryKeys /\ VectorsFollowItems /\ ItemsCounted /\ BytesCounted
           /\ ReplaysAreAudited /\ AggregatesCoverAudit /\ AuditIdsMinted
           /\ IsFiniteSet(audit)

None of its parts is inductive alone. The counters are exact only because ids are unique
(a row counted twice would be subtracted once) and because the clamp at zero never acts,
which needs the counters to be exact before. A vector is its item's only because a primary
key names one row in the whole file, so the row evicted in a scope is the row the cascade
looks at. Streams may pair items and vectors as they like, so of an imported row
`VectorsFollowItems` keeps that it is found as it came (`AsImported`), and the lemmas
about the operations that what they write is found exactly and the rest as before. Audit
ids are unique because minted ids grow and imported ones are another's (`AuditIdsMinted`).
The aggregates count the audit only while it is finite. Lemmas about the sums
(`RowsAddUp`: charges of disjoint sets add up) and about the rows a transaction writes
come first, then one lemma per operation that it keeps `IInv`, for any arguments that
satisfy what `StoreAssumption` asks of the constants: `EngineProofs` cites the same lemmas
for the arguments the engine computes.

**Contract.** `IInv` makes the readings exact, before and after each step. One lemma per
operation then shows the step on memories, log, outcomes and budgets; what does not commit
is a stutter.

**Engine.** The inductive invariant is `EIInv`: `IInv`, the clock in its range, every id
in the table allocated, and `CallsOK`: each caller's locals are of the types its stage
has, every transaction it holds is *sound* (well-formed, of its scope, of ids already
allocated, and carrying its request's key where a remember writes), the rows it has listed
have ids already allocated, and its stage is one of its own request's. The transactions of
all calls have one of few shapes, so soundness is shown per shape and not per action.
`RetryInv` adds that every answer given under a key is what the row recorded for that key
says, and that row never goes: `HistoryIsPermanent`, where no subject is purged.
`NoPurges` is needed, since a purge takes the subject's keys and a key may then be used
anew.

**Engine, a caller on its own.** `OneCaller` says that `Callers` has one member at most;
nothing else is assumed, and `budget_race` and `forget_race` are what happens without it. The
invariant is `AloneInv`, beside `EIInv`. Its heart is `Faithful`: a transaction a call is
about to hand over brings back no erased id, evicts no pinned row unless it is a forget,
changes no protection but of a row it names, folds without losing a fact, keeps its scope
within what it may hold and, if it ends a run of maintenance, leaves what such a run may
leave. That is so when it is built, because what the call read is still the table
(`AloneOK`), and until it commits, because nobody else writes.

The hard part is a call of several transactions. `WorkOK` says that the work left is due in
the rows its *next* transaction will leave (`Result`): a merge left finds the absorbed row as
it was listed and unpinned, two merges of a run have no row in common (`Apart`), and the
evictions decided before the first fold are still enough after the last (`RunDue`): no fold
touches a row they name, and either the rows they leave fit, or no grant still to come leaves
one of them unprotected, or a spent pin is there. A fold never takes more room than it
frees: the absorbed row's fixed part is more than the separator a merge adds, and
`EngineAssumption` says so of `BodySize`. Counts and charges of disjoint parts of a scope add
up (`Split`), so no step sums over rows.

The properties then follow from a classification of steps, `StepIs`: nothing is written, a
`Faithful` transaction commits, a recall is recorded, a subject is purged or a stream
received. Each files one audit row at most that was minted here (`FiledOnly`), so what a
property says of "the row a step filed" is about that transaction.

**TenantPool.** `PoolIInv` has the types, `LockIsHeld` (a write whose caller waits owns its
tenant's lock from spawning to the end), `ClosuresWrite`, `KeysAreCounted` (a key is
applied once at most, and is in the table then) and `SlipsNeedDrop` (a call past the key
lookup whose key is committed meanwhile stands beside a dropped write). Serial writes
follow from the lock; keys applied once do not (a dropped write has left the lock): they
follow from the primary key, which the later of two commits meets.

**Connections.** That a lone call never pays for what an earlier panic or dropped future
left is a matter of who refers to which connection, and `ConnInv` says it: the cache has
one entry of a tenant; a task has a connection from opening or finding one to its end and
its mutex inside the closure (`HandlesOK`), which one closure has at a time and none if
poisoned (`MutexesOK`); all who refer to a connection are of the tenant whose file it is
(`FilesOK`), and so no file is locked by a connection another tenant uses; a transaction is
open only where a closure is about to commit it or panicked (`WritersOK`); and a call with
the tenant to itself finds in the cache its own connection or none (`AloneOK`). So a
transaction left open by a panic is in a connection that healing, and nobody else, still
held: once it is dropped the lock is gone. `FreshExists` counts connections: an open
always finds a name, as the cache and the other tasks hold fewer than there are.

**Service.** `ServiceInv` says what each stage of a call is entitled to (`CallsOK`: the key
it presented was loaded by the process that serves it, enabled and of this tenant; its
scope, if it has one, is that key's, and not reserved; an export past its audit row has that
row), what a running process may hold (`ProcessesOK`) and what the file may (`FileOK`), with
`ExportsAreAudited` and the parts of `ScopesAreKept`. What keeps imports apart from the rest
is `brought`: the statements are about the rows that are not in it, and the settings' rows
are those with ids minted here, which no stream carries (`StoreAssumption`). The theorems
then hold for any streams, whatever scopes and actors their rows have. The assumption on
generated keys is that their ids are new and are no actor's name.

Two more invariants stand beside it. `SettingsInv` is about what is in force: what a process
audited last is one setting of each kind at most, and none once it is down (`NewestOK`);
where no two of its settings overlapped, at most one call is between its audit row and
`Install`, it installs what was audited last, and if there is none that is in force already
(`OverridesOK`); and a purge that has read its retention profile goes by the newest one
unless a setting superseded it since (`PurgesOK`). It is not inductive without `ServiceInv`,
since what a restart resets is only known for a process that is up. `CountsInv` has the
equations of `ChangesAreCounted`, with their terms natural numbers: a ceiling changed or a
stream taken adds one to the calls that owe a row (`Owing`), its row moves one from there to
the aggregates, a cut moves it to `lost`, and the rows of a stream add the same to
`brought` and to the aggregates. The assumption here is one of the module: an audit row
is counted as decided by a policy or not, and days are not told apart (`BucketOf`), so the
equation is of one counter where the table has one per day.

**Paging.** `PagingInv` is `IInv` of the tables with three facts. *Dates*: the instant a
memory was created goes with its id (`Dated`); the assumption on what callers write and
import is just this, as a replacement carries `created_at` and so does an export. The order
of a scope is then one order of ids, for good (`ItemOrder`), although rows are deleted and
written again. *The audit walk* (`AuditOK`): ids at or after the cursor were given, and what
was there at the start and ever since was given or is older than the cursor; what is filed or
imported meanwhile may lie on either side of it. *The walk by offset*
(`ItemOK`): a page holds the rows whose rank in the order is from the offset to its end
(`PageOf`), and `Place` is how far the walk has come, in ranks. `Behind` are the rows of the
start that were not given and that the walk will not meet: they went, or their rank is below
`Place`. The invariant is that they are no more than the rows others removed. For what the
walk removes itself, `Place` goes back by as much, and as it was given those rows, they were
before `Place` (`BehindStays`); a fold whose row had gone counts as removed all the same, and
then the walk only goes back further. For what others remove, the members that come to lie
below `Place` are at most as many (`RemovalBrings`, `BehindByRemoval`). While nobody else
writes, the removed rows are exactly those counted, so what was given stays below `Place`
(`RemovalShifts`) and no row is given twice. None of this holds for an offset that is not
moved back, and none of it is inductive without the exact count of the work left (`WorkOK`).
`start`, for an audit walk, follows the rows that stay, as a row a purge takes and an import
brings back was not missed.

**Policy.** The loops of the policy are recursive functions and sums over sets of scores, so
what must be shown first is what they compute for sets of any size. The induction theorems
of the library take an operator as a parameter and cannot be cited; `Smallest` and `Least`
replace them: if a claim about the subsets of a finite set, or about numbers, fails at all,
it fails at a smallest one, and the step from there to a smaller one is the proof. On these
rest three small theories. *Sums*: `SumOver`, a fold that picks its elements in an order
nobody knows, is the only function with the values 0 of the empty set and "pick and add" of
the others (`SumOverIs`), hence the same in every order (`SumSplit`), additive
(`SumUnion`, `SumPlus`), monotone, and the sum of the sums of disjoint parts (`SumOfParts`).
*Rankings*: of a strict total order on a finite set each rank is taken by one element
(`RankTakenByOne`), so the sequences the modules define by counting predecessors list the
set, in order, and their prefixes are the sets that precede the rest (`RankingIs`,
`RankingPrefix`). *Means*: some `k` of a set have at least `k` times its mean (`AboveMean`).

`ComposeInv` says what the loops of a working set have established when any of them stops:
each candidate is chosen once, the tokens are the sum over those chosen, within the budget;
a search has chosen a prefix of the ranking (`SearchSoFar`); replay has taken no more than
its slots, and has gone on until the next that is due had no slot or no room left
(`ReplaySoFar`, `ReplayStopped`); the fill has passed over nothing that says the same, costs
no more and ranks higher (`FillSoFar`: what a candidate shares with the rest is fixed by its
words, so marginal relevance cannot put the lower ranked first); and at the end nothing fits
(`Stopped`). `MmrLambda` is any natural
number: with a negative weight `FillSoFar` would be false.

`DecisionsInv` has a conjunct per stage of a run, for what it has decided so far. Of the
eviction loop it keeps that the last row taken was needed (`ReclaimedSoFar`,
`AdmissionSoFar`): the room a prefix frees grows with it, and `EvictionsNeeded` is the
least number that is enough (`NeededIs`). Of consolidation it keeps that no row stands in
two merges and which of two rows goes (`MergedSoFar`), by induction over the pairs
considered. `CountersOK` says that the counters cover the rows of the page, without which
subtraction stops at zero and frees less than it seems. `FragileMeansAlone` follows as the
three nearest are never sparser than the mean of all, nor than zero, so that fragility is
50 at most where there is company; nothing is assumed of a tenant's threshold, and the
property speaks of those above that. In whole percents 50 also stands for a fragility a
little below one half, as of a row whose company is slightly closer than typical.
`Settled` is what the first run leaves to the second: no elapsed protection but of the
windows of no length it granted, no expired row but pinned ones, and either the budget is
kept or nothing more may go. The hard part of it is `OverAfter`: rows gain the words and
bytes of those they absorb, but a row gains less than the absorbed one took (`GainsWeigh`:
the separator is shorter than the fixed part of a charge), so a page brought within its
budget stays there. A second run that expires nothing protects nothing, whatever the first
one merged and however long the windows.

The other assumptions on constants say what the data are: a page, an offer and a
neighbourhood are finite, a charge has its fixed part, a similarity is a cosine (from -100 to
100 percent; `Fragility` clamps the means), scores and thresholds are whole percents. What is
proved is proved of these integers; that rounding in `f32` agrees with them is not claimed.

**Only model-checked.** `CallsEnd` and `WalksEnd`, as liveness under fairness is beyond the
prover, and `NoStandstill`, which uses `ENABLED`. `Conforms` and `SuiteIsNotVacuous`: each case
of the suite is a script on a few literal rows, and a proof would do by hand what TLC does,
evaluate 55 scripts call by call. Every other property of a passing run is stated by a
theorem of the table.

## 6. How the work was ordered

The tables come first, as everything else writes to them; then the calls over them, and
the pool that makes an operation one step; then the promise between engine and backend and
the suite that tests it; then what crosses pages, processes and restarts; and the policy's
algorithms last. Each module was checked before anything was proved about it. What would
add most from here: a model of the degraded paths of a recall should they come to write
anything, and the scores of `value.rs` themselves, which the decisions take as given.

## 7. Not modelled, and why

* *Embedder*: numeric and without state. That it may fail is in `Engine` (`Embeds`), and
  `reembed` is what makes up for it.
* *Shadow replay*: an offline tool that compares the answers of two engines to a recorded
  trace; it keeps nothing between two runs.
* *Weights and patterns*: the weights of `value.rs` and the patterns of `sensitivity.rs` are
  numbers and strings the decisions only compare; they are scores and choices here.
* *A recall's degraded paths and the embedding cache*: what they change is which
  candidates are offered, and `Compose` is checked for every offer.
* *Statistics cache*: no production code reads it.
* *Parsing and rendering*: JSON, MCP framing, the command line's options, Markdown.
* *File system errors*: they end a call without a change to the tables and are left out of
  `TenantPool`, as is a second manager on the same files, which the IMMEDIATE transactions,
  but not the write lock, would still serialise.
