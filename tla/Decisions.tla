------------------------------ MODULE Decisions ------------------------------
(* The baseline policy's decisions on stored rows: what an admission evicts  *)
(* or merges into (admit.rs), and what one page of maintenance expires,      *)
(* releases, protects, consolidates and reclaims (maintain.rs), with the     *)
(* scores they compare and what the engine carries out of them.  Scores are  *)
(* integers in percent; a body is the set of its words; ids are numbers.     *)
EXTENDS Integers, Sequences, FiniteSets, Functions, FiniteSetsExt

CONSTANTS
  Batches,      \* pages of rows: functions from ids to rows
  Capacities,   \* budgets with what the rest of the scope uses: [items, bytes, others]
  Candidates,   \* what is admitted: [bytes, near], near giving each row's similarity
  NoLimit,
  Configs,      \* what tenants set of protection: [fragile, window], in percent and days
  DuplicateThreshold, MergeThreshold, NearDuplicateFloor

Protections == {"normal", "elapsed", "protected", "pinned"}
FixedOverhead == 64   \* of every charge; the rest is taken to be the body's
IsRow(row) ==
  /\ row \in [created : Int, words : {row.words}, bytes : Nat, protection : Protections,
              elapsed : BOOLEAN, value : Nat, fragility : Nat]
  /\ IsFiniteSet(row.words) /\ row.bytes >= FixedOverhead

ASSUME DecisionsAssumption ==
  /\ \A b \in Batches :
       IsFiniteSet(DOMAIN b) /\ DOMAIN b \subseteq Int /\ \A i \in DOMAIN b : IsRow(b[i])
  /\ Capacities \subseteq [items : Nat \cup {NoLimit}, bytes : Nat \cup {NoLimit}, others : Nat]
  /\ \A c \in Candidates :
       /\ c.bytes \in Nat /\ IsFiniteSet(DOMAIN c.near)
       /\ \A i \in DOMAIN c.near : c.near[i] \in -100 .. 100   \* a cosine
  /\ NoLimit \notin Int
  /\ DuplicateThreshold \in Int /\ MergeThreshold \in Int /\ NearDuplicateFloor \in Int
  \* settings::validate reads no fragile threshold, and lets a window be empty
  /\ Configs \subseteq [fragile : Int, window : Nat]

VARIABLES
  batch,      \* id -> [created, words, bytes, protection, elapsed, value, fragility]
  config,     \* the tenant's protection_fragile_threshold and protection_window_days
  capacity,   \* the scope's budget and counters: [items, bytes, usedItems, usedBytes]
  stage,      \* which step of the policy or of the engine runs next
  decided,    \* maintenance's decisions, by the step that takes them
  admission,  \* an admission's decision and the candidate it is about
  runs        \* what the maintenance runs before this one decided

decisionVars == <<batch, config, capacity, stage, decided, admission, runs>>

SumOver(f, S) == FoldFunctionOnSet(+, 0, f, S)
Bytes(rows, S) == SumOver([i \in S |-> rows[i].bytes], S)

(* Protection: an elapsed window protects no more; a ttl overrides a pin. *)
Unpinned(row) == row.protection # "pinned"
IsEvictable(row) == row.protection \in {"normal", "elapsed"}
MustForget(row) == row.elapsed

WouldExceed(items, bytes, state) ==
  \/ state.items # NoLimit /\ state.usedItems + items > state.items
  \/ state.bytes # NoLimit /\ state.usedBytes + bytes > state.bytes
IsBounded == capacity.items # NoLimit \/ capacity.bytes # NoLimit
Less(m, n) == IF m > n THEN m - n ELSE 0
Freed(state, S) ==
  [state EXCEPT !.usedItems = Less(@, Cardinality(S)), !.usedBytes = Less(@, Bytes(batch, S))]

(* Eviction: cheapest first by value times fragility, the older first among  *)
(* equals; as many as it takes, or all.                                      *)
Cost(i) == batch[i].value * batch[i].fragility
Cheaper(i, j) ==
  \/ Cost(i) < Cost(j)
  \/ Cost(i) = Cost(j) /\ batch[i].created < batch[j].created
  \/ Cost(i) = Cost(j) /\ batch[i].created = batch[j].created /\ i < j
Ranked(S) ==
  [k \in 1 .. Cardinality(S) |->
     CHOOSE i \in S : Cardinality({j \in S : Cheaper(j, i)}) = k - 1]
Prefix(s, k) == {s[n] : n \in 1 .. k}
EvictionsOver(state, ranked, items, bytes) ==
  LET enough == {k \in 0 .. Len(ranked) :
                   ~WouldExceed(items, bytes, Freed(state, Prefix(ranked, k)))}
  IN  IF enough = {} THEN Len(ranked) ELSE Min({Len(ranked), Min(enough) + 1})
EvictionsNeeded(state, ranked, items, bytes) ==
  LET enough == {k \in 0 .. Len(ranked) :
                   ~WouldExceed(items, bytes, Freed(state, Prefix(ranked, k)))}
  IN  IF enough = {} THEN Len(ranked) ELSE Min(enough)

(* Fragility: how sparse the three nearest are, against a baseline. *)
TopMean(near) ==
  LET k == Min({3, Cardinality(DOMAIN near)})
      sums == {SumOver(near, S) : S \in kSubset(k, DOMAIN near)}
  IN  Max(sums) \div k
Clamped(score) == IF score < 0 THEN 0 ELSE IF score > 100 THEN 100 ELSE score
Fragility(near, baseline) ==
  IF DOMAIN near = {} THEN 100
  ELSE LET density == Clamped(TopMean(near))
           typical == Clamped(baseline)
       IN  IF density < typical THEN 50 + (50 * (typical - density)) \div typical
           ELSE IF density > typical
                THEN 50 - (50 * (density - typical)) \div (100 - typical)
                ELSE 50
Overlap(i, j) ==
  IF batch[i].words = {} THEN 0
  ELSE (100 * Cardinality(batch[i].words \cap batch[j].words)) \div Cardinality(batch[i].words)

------------------------------------------------------------------------------
(* Admission. *)
Classify(similarity) ==
  IF similarity >= DuplicateThreshold THEN "NearDuplicate"
  ELSE IF similarity >= MergeThreshold THEN "Mergeable" ELSE "Novel"
(* Redundancy: the greatest similarity of all, and the near duplicates above *)
(* the floor, of which the first is the most similar with the least id.      *)
BestScore(near) == Max({0} \cup Range(near))
NearestDuplicate(near) ==
  CHOOSE i \in DOMAIN near : \A j \in DOMAIN near :
    near[i] > near[j] \/ (near[i] = near[j] /\ i <= j)
(* The engine's baseline is the mean of the neighbours it has just fetched. *)
CorpusBaseline(near) == 90
MeanSimilarity(near) ==
  IF DOMAIN near = {} THEN 0 ELSE SumOver(near, DOMAIN near) \div Cardinality(DOMAIN near)

NoAdmission == [candidate |-> [bytes |-> 0, near |-> <<>>], action |-> "None",
                into |-> 0, evictions |-> {}]
Decision(candidate, action, into, evictions) ==
  [candidate |-> candidate, action |-> action, into |-> into, evictions |-> evictions]

Offered == IF IsBounded THEN {i \in DOMAIN batch : IsEvictable(batch[i])} ELSE {}
MakeRoom(candidate, kept) ==
  LET ranked == Ranked(Offered)
      needed == IF WouldExceed(1, candidate.bytes, capacity)
                THEN EvictionsNeeded(capacity, ranked, 1, candidate.bytes) ELSE 0
      freed  == Prefix(ranked, needed)
  IN  IF WouldExceed(1, candidate.bytes, Freed(capacity, freed))
      THEN Decision(candidate, "Reject", 0, {})
      ELSE Decision(candidate, kept, 0, freed)
Admit(candidate) ==
  LET best == BestScore(candidate.near)
      floored == {i \in DOMAIN candidate.near : candidate.near[i] >= NearDuplicateFloor}
      fragile == Fragility(candidate.near, MeanSimilarity(candidate.near))
                   >= config.fragile
  IN  CASE Classify(best) = "NearDuplicate" -> Decision(candidate, "Reject", 0, {})
        [] Classify(best) = "Mergeable" /\ floored # {} ->
             Decision(candidate, "Merge", NearestDuplicate(Restrict(candidate.near, floored)), {})
        [] OTHER -> MakeRoom(candidate, IF fragile THEN "RetainProtected" ELSE "Retain")

------------------------------------------------------------------------------
(* Maintenance: who is gone is decided first, since the rest asks about the  *)
(* survivors, and reported last.                                             *)
Undecided ==
  [expiries |-> {}, reclaims |-> {}, regrants |-> {}, releases |-> {}, merges |-> <<>>]
Removed == decided.expiries \cup decided.reclaims
Survivors == DOMAIN batch \ Removed

Expiries == {i \in DOMAIN batch : MustForget(batch[i])}

ReclaimsBeforeExpiry ==
  IF ~IsBounded \/ ~WouldExceed(0, 0, capacity) THEN {}
  ELSE LET ranked == Ranked({i \in DOMAIN batch \ decided.expiries : IsEvictable(batch[i])})
       IN  Prefix(ranked, EvictionsNeeded(capacity, ranked, 0, 0))
Reclaims ==
  LET left   == Freed(capacity, decided.expiries)
      ranked == Ranked({i \in DOMAIN batch \ decided.expiries : IsEvictable(batch[i])})
  IN  IF ~IsBounded \/ ~WouldExceed(0, 0, left) THEN {}
      ELSE Prefix(ranked, EvictionsNeeded(left, ranked, 0, 0))

(* A survivor whose fragility this run has raised over the threshold is      *)
(* protected; the store's statistics give a baseline of zero.                *)
PageBaseline == 0
Among(i, S) == Fragility([j \in S \ {i} |-> Overlap(i, j)], PageBaseline)
Regrants ==
  IF Removed = {} THEN {}
  ELSE {i \in Survivors :
          /\ IsEvictable(batch[i])
          /\ Among(i, Survivors) > Among(i, DOMAIN batch)
          /\ Among(i, Survivors) >= config.fragile}

ReleasesOfAll == {i \in Survivors : batch[i].protection = "elapsed"}
Releases == {i \in Survivors \ decided.regrants : batch[i].protection = "elapsed"}

(* Consolidation takes the survivors two by two, the older first; of each    *)
(* pair the one the other covers better goes, the newer if they are equal,   *)
(* unless it may not go; a row takes part in one merge.                      *)
Older(i, j) ==
  batch[i].created < batch[j].created \/ (batch[i].created = batch[j].created /\ i < j)
Pairs ==
  LET all == {p \in Survivors \X Survivors : Older(p[1], p[2])}
      Earlier(p, q) == Older(p[1], q[1]) \/ (p[1] = q[1] /\ Older(p[2], q[2]))
  IN  [k \in 1 .. Cardinality(all) |->
         CHOOSE p \in all : Cardinality({q \in all : Earlier(q, p)}) = k - 1]
SpokenFor == Removed \cup decided.regrants \cup decided.releases
MayGo(i, j) ==
  Overlap(i, j) >= MergeThreshold /\ IsEvictable(batch[i]) /\ i \notin SpokenFor
Preferred(i, j) ==
  \/ Overlap(i, j) > Overlap(j, i)
  \/ Overlap(i, j) = Overlap(j, i) /\ Older(j, i)
Fold(i, j) ==
  LET ways == {w \in {<<i, j>>, <<j, i>>} : MayGo(w[1], w[2])}
  IN  IF ways = {} THEN <<>>
      ELSE <<CHOOSE w \in ways : \A v \in ways \ {w} : Preferred(w[1], w[2])>>
Consolidations ==
  LET done[k \in 0 .. Len(Pairs)] ==
        IF k = 0 THEN <<>>
        ELSE LET earlier == done[k - 1]
                 claimed == UNION {{earlier[n][1], earlier[n][2]} : n \in DOMAIN earlier}
                 pair    == Pairs[k]
             IN  IF pair[1] \in claimed \/ pair[2] \in claimed THEN earlier
                 ELSE earlier \o Fold(pair[1], pair[2])
  IN  done[Len(Pairs)]

------------------------------------------------------------------------------
(* What the engine carries out (engine maintain.rs): merges, protections,    *)
(* then evictions, and never one of a pinned row.                            *)
Absorbed == {decided.merges[n][1] : n \in DOMAIN decided.merges}
Evicted == {i \in Removed : Unpinned(batch[i])}
Separator == 2
Appended(j) == batch[j].bytes - FixedOverhead + Separator
Gains(i) == {decided.merges[n][1] : n \in {m \in DOMAIN decided.merges : decided.merges[m][2] = i}}
(* Protected until now and so many days: of none, the window has run out.    *)
Granted == IF config.window = 0 THEN "elapsed" ELSE "protected"
CountedOnly(i) ==
  IF i \in decided.regrants THEN Granted ELSE batch[i].protection
ProtectionAfter(i) ==
  IF i \in decided.regrants THEN Granted
  ELSE IF i \in decided.releases THEN "normal" ELSE batch[i].protection
RowAfter(i) ==
  [batch[i] EXCEPT
     !.protection = ProtectionAfter(i),
     !.words = @ \cup UNION {batch[j].words : j \in Gains(i)},
     !.bytes = @ + SumOver([j \in Gains(i) |-> Appended(j)], Gains(i))]
BatchAfter == [i \in DOMAIN batch \ (Evicted \cup Absorbed) |-> RowAfter(i)]
CapacityAfter ==
  LET left == Freed(capacity, Evicted \cup Absorbed)
      kept == SumOver([j \in Absorbed |-> Appended(j)], Absorbed)
  IN  [left EXCEPT !.usedBytes = @ + kept]

DecisionsInit ==
  /\ batch \in Batches /\ config \in Configs
  /\ capacity \in {[items |-> c.items, bytes |-> c.bytes,
                    usedItems |-> Cardinality(DOMAIN batch) + c.others,
                    usedBytes |-> Bytes(batch, DOMAIN batch) + c.others * FixedOverhead] : c \in Capacities}
  /\ stage = "start" /\ decided = Undecided /\ admission = NoAdmission /\ runs = <<>>

Admission(candidate) ==
  /\ stage = "start" /\ DOMAIN candidate.near \subseteq DOMAIN batch
  /\ admission' = Admit(candidate) /\ stage' = "admitted"
  /\ UNCHANGED <<batch, config, capacity, decided, runs>>

Start ==
  /\ stage = "start" /\ stage' = "expire"
  /\ UNCHANGED <<batch, config, capacity, decided, admission, runs>>
Step(from, to, next) ==
  /\ stage = from /\ stage' = to /\ decided' = next
  /\ UNCHANGED <<batch, config, capacity, admission, runs>>
Expire == Step("expire", "reclaim", [decided EXCEPT !.expiries = Expiries])
Reclaim == Step("reclaim", "regrant", [decided EXCEPT !.reclaims = Reclaims])
Regrant == Step("regrant", "release", [decided EXCEPT !.regrants = Regrants])
Release == Step("release", "merge", [decided EXCEPT !.releases = Releases])
Consolidate == Step("merge", "apply", [decided EXCEPT !.merges = Consolidations])
Apply ==
  /\ stage = "apply"
  /\ batch' = BatchAfter /\ capacity' = CapacityAfter
  /\ runs' = Append(runs, decided) /\ decided' = Undecided
  /\ stage' = IF runs = <<>> THEN "expire" ELSE "done"
  /\ UNCHANGED <<config, admission>>

DecisionsNext ==
  \/ \E candidate \in Candidates : Admission(candidate)
  \/ Start \/ Expire \/ Reclaim \/ Regrant \/ Release \/ Consolidate \/ Apply
DecisionsSpec == DecisionsInit /\ [][DecisionsNext]_decisionVars
------------------------------------------------------------------------------
Decided == stage = "apply"

(* Type correctness of the rows and the decisions; the counters, which are   *)
(* the scope's, cover the rows of the page.                                  *)
DecisionsTypeOK ==
  /\ \A i \in DOMAIN batch : batch[i].protection \in Protections
  /\ config \in Configs
  /\ capacity.usedItems >= Cardinality(DOMAIN batch)
  /\ capacity.usedBytes >= Bytes(batch, DOMAIN batch)
  /\ Removed \cup decided.regrants \cup decided.releases \subseteq DOMAIN batch
  /\ \A n \in DOMAIN decided.merges : decided.merges[n] \in (DOMAIN batch) \X (DOMAIN batch)

(* What the policy decides of an admission passes the engine's checks of it  *)
(* (validate.rs): it evicts rows it was offered that may go, and merges into *)
(* a row there is.                                                           *)
AdmissionIsAccepted ==
  /\ \A i \in admission.evictions : i \in DOMAIN batch /\ IsEvictable(batch[i])
  /\ admission.action = "Merge" =>
       admission.into \in DOMAIN admission.candidate.near /\ admission.evictions = {}

(* An admission evicts as many rows as make it fit, not one more and never   *)
(* for nothing: a candidate is turned away for want of room only if all that *)
(* may go would not make it (admit.rs, eviction.rs).                         *)
AdmissionMakesRoomExactly ==
  LET FitsWithout(S) == ~WouldExceed(1, admission.candidate.bytes, Freed(capacity, S))
      dearest == Ranked(admission.evictions)[Cardinality(admission.evictions)]
  IN  /\ admission.action \in {"Retain", "RetainProtected"} => FitsWithout(admission.evictions)
      /\ admission.evictions # {} => ~FitsWithout(admission.evictions \ {dearest})
      /\ admission.action = "Reject" =>
           \/ BestScore(admission.candidate.near) >= DuplicateThreshold
           \/ ~FitsWithout(Offered)

(* With the baselines the engine and the store supply, no memory that has    *)
(* company is more fragile than the typical one, for three nearest are never *)
(* sparser than the mean they are compared with: a threshold above one half, *)
(* whatever it is, protects a memory only when nothing is near it at all     *)
(* (fragility.rs, gather.rs, capacity.rs; config.rs ranks 0.85 as the        *)
(* highest of three bars).  validate lets a tenant set it to one half, where *)
(* a memory of typical company is protected too.                             *)
FragileMeansAlone ==
  config.fragile > 50 =>
    /\ admission.action = "RetainProtected" => DOMAIN admission.candidate.near = {}
    /\ stage \in {"release", "merge", "apply"} =>
         \A i \in decided.regrants : Survivors = {i}

(* No row is the subject of two decisions of a run, takes part in two merges *)
(* or is merged into while it is removed: the engine would carry out two     *)
(* contradictory orders (maintain.rs, decisions).                            *)
OneFatePerRow ==
  LET fates == <<decided.expiries, decided.reclaims, decided.regrants, decided.releases, Absorbed>>
      Sides(n) == {decided.merges[n][1], decided.merges[n][2]}
  IN  /\ \A m, n \in DOMAIN fates : m # n => fates[m] \cap fates[n] = {}
      /\ \A m, n \in DOMAIN decided.merges : m # n => Sides(m) \cap Sides(n) = {}
      /\ \A n \in DOMAIN decided.merges : decided.merges[n][2] \notin Removed

(* A pin or a running window keeps a row from everything but its own ttl:    *)
(* it is neither reclaimed nor absorbed, and its protection stays.           *)
ProtectionHolds ==
  \A i \in DOMAIN batch : ~(batch[i].protection \in {"normal", "elapsed"}) =>
    i \notin decided.reclaims \cup Absorbed \cup decided.regrants \cup decided.releases

(* A run reclaims until the scope is within its budget, counting the room    *)
(* its expiries make, or until nothing may go; not one row more.             *)
ReclaimStopsAtTheBudget ==
  Decided =>
    LET Over(S) == WouldExceed(0, 0, Freed(capacity, S))
        dearest == Ranked(decided.reclaims)[Cardinality(decided.reclaims)]
    IN  /\ Over(Removed) => \A i \in Survivors : ~IsEvictable(batch[i])
        /\ decided.reclaims # {} => Over(Removed \ {dearest})

(* The side of a merge that goes is the one of which the other says more,    *)
(* unless the other side could not have gone (maintain.rs, consolidations).  *)
TheBetterCoveredIsAbsorbed ==
  \A n \in DOMAIN decided.merges :
    LET gone == decided.merges[n][1]
        kept == decided.merges[n][2]
    IN  /\ Overlap(gone, kept) >= MergeThreshold
        /\ Overlap(kept, gone) > Overlap(gone, kept) => ~MayGo(kept, gone)

(* The orders of an admission or a run can all be carried out, and none of   *)
(* them touches what is protected.                                           *)
OrdersAreSound ==
  /\ DecisionsTypeOK /\ AdmissionIsAccepted
  /\ OneFatePerRow /\ ProtectionHolds /\ TheBetterCoveredIsAbsorbed

(* One run settles a page: at the same time a second finds nothing to expire *)
(* (but rows the engine holds pinned) or to reclaim, a merge taking less     *)
(* room than the two rows did, nor, if it expires nothing, to protect; and   *)
(* nothing to release but the windows of no length the first run granted.    *)
SecondRunSettles ==
  Decided /\ runs # <<>> =>
    /\ config.window > 0 => decided.releases = {}
    /\ decided.releases \subseteq runs[1].regrants
    /\ \A i \in decided.expiries : ~Unpinned(batch[i])
    /\ decided.reclaims = {}
    /\ decided.expiries = {} => decided.regrants = {}

(* core item.rs: expiry dominates protection.  No row a run found expired is *)
(* left when its decisions have been carried out.                            *)
ExpiryDominatesProtection ==
  runs # <<>> => \A i \in runs[1].expiries : i \notin DOMAIN batch
==============================================================================
