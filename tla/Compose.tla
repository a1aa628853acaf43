------------------------------- MODULE Compose -------------------------------
(* The baseline policy's composition of a working set (compose.rs): what a   *)
(* recall returns of the candidates the engine offers.  Scores are integers  *)
(* in percent; a relevance above 100 is a NaN, which total_cmp ranks first.  *)
(* An item's body is the set of its words.                                   *)
EXTENDS Integers, Sequences, FiniteSets, Functions, FiniteSetsExt

CONSTANTS
  Offers,        \* the offers to compose: functions from ids, which are numbers, to candidates
  RecallRequests, \* requests: [mode, items, tokens]
  Unlimited,       \* a budget's absent dimension
  NeverAccessed, \* the access time of a row nothing has recalled
  Quotas, MmrLambda, DiversityCutSimilarity, ReplayFragile, ReplayStaleFragile, StaleDays,
  OmittedCap

ASSUME ComposeAssumption ==
  /\ \A o \in Offers :
       /\ IsFiniteSet(DOMAIN o) /\ DOMAIN o \subseteq Int /\ o = [c \in DOMAIN o |-> o[c]]
       /\ \A c \in DOMAIN o :
            o[c].relevance \in Int /\ o[c].tokens \in Nat /\ IsFiniteSet(o[c].words)
  /\ RecallRequests \subseteq [mode : {"Search", "WorkingSet"}, items : Nat \cup {Unlimited},
                               tokens : Nat \cup {Unlimited}]
  /\ Unlimited \notin Int
  /\ Quotas \subseteq Nat /\ MmrLambda \in Nat /\ OmittedCap \in Nat

VARIABLES
  offered,     \* id -> candidate, what the engine offers
  request,     \* the request, with the policy's replay quota
  phase,       \* which loop of working_set runs
  selected,    \* what it has selected, in order: [id, reason]
  tokens,      \* the tokens of what it has selected
  omitted      \* the explained omissions and the count of all

composeVars == <<offered, request, phase, selected, tokens, omitted>>

Lesser(m, n) == IF m < n THEN m ELSE n
IsFinite(c) == offered[c].relevance <= 100
Chosen == {selected[i].id : i \in DOMAIN selected}
Rest == DOMAIN offered \ Chosen
SelectedWords == UNION {offered[c].words : c \in Chosen}

FitsAlone(c) ==
  /\ request.tokens # Unlimited => offered[c].tokens <= request.tokens
  /\ request.items # Unlimited => Len(selected) + 1 <= request.items
Fits(c) ==
  /\ request.tokens # Unlimited => tokens + offered[c].tokens <= request.tokens
  /\ request.items # Unlimited => Len(selected) + 1 <= request.items

(* Rank: the more relevant first, then the lesser id. *)
Before(c, d) ==
  \/ offered[c].relevance > offered[d].relevance
  \/ offered[c].relevance = offered[d].relevance /\ c < d
First(S) == CHOOSE c \in S : \A d \in S \ {c} : Before(c, d)
InOrder(S) ==
  [k \in 1 .. Cardinality(S) |->
     CHOOSE c \in S : Cardinality({d \in S : Before(d, c)}) = k - 1]

(* A fragile candidate is due for replay, and a less fragile one once nobody *)
(* has recalled it for long.                                                 *)
SinceAccess(c) ==
  IF offered[c].accessed = NeverAccessed THEN offered[c].age ELSE offered[c].accessed
ReplayDue(c) ==
  \/ offered[c].fragility >= ReplayFragile
  \/ SinceAccess(c) >= StaleDays /\ offered[c].fragility >= ReplayStaleFragile
ReplaySlotsRoundedUp ==
  LET slots == IF request.items = Unlimited THEN Cardinality(DOMAIN offered) ELSE request.items
  IN  (slots * request.quota) \div 100 + 1
ReplaySlots ==
  LET slots == IF request.items = Unlimited THEN Cardinality(DOMAIN offered) ELSE request.items
  IN  Lesser((slots * request.quota) \div 100, slots)

(* Coverage is a fraction of the candidate's own words; the marginal         *)
(* relevances of two candidates are compared over their common denominator.  *)
Shared(c) == Cardinality(offered[c].words \cap SelectedWords)
Size(c) == Max({1, Cardinality(offered[c].words)})
Mmr(c) == MmrLambda * offered[c].relevance * Size(c) - (100 - MmrLambda) * 100 * Shared(c)
Beats(c, d) == Mmr(c) * Size(d) > Mmr(d) * Size(c)
Equals(c, d) == Mmr(c) * Size(d) = Mmr(d) * Size(c)
BestLast(S) ==
  CHOOSE c \in S : \A d \in S \ {c} : Beats(c, d) \/ (Equals(c, d) /\ Before(d, c))
Best(S) ==
  CHOOSE c \in S : \A d \in S \ {c} : Beats(c, d) \/ (Equals(c, d) /\ Before(c, d))
FillReason(c) ==
  IF Shared(c) * 100 > DiversityCutSimilarity * Size(c) THEN "DiversityCut" ELSE "HighValue"

Fillable == {c \in Rest : Fits(c) /\ IsFinite(c)}
Nothing == [listed |-> <<>>, total |-> 0]

ComposeInit ==
  /\ offered \in Offers
  /\ request \in {[mode |-> r.mode, items |-> r.items, tokens |-> r.tokens, quota |-> q] :
                    r \in RecallRequests, q \in Quotas}
  /\ phase = IF offered = <<>> THEN "done"
             ELSE IF request.mode = "Search" THEN "search" ELSE "replay"
  /\ selected = <<>> /\ tokens = 0 /\ omitted = Nothing

Push(c, reason) ==
  /\ selected' = Append(selected, [id |-> c, reason |-> reason])
  /\ tokens' = tokens + offered[c].tokens
  /\ UNCHANGED <<offered, request, omitted>>

Searchable == Rest # {} /\ Fits(First(Rest))
SearchNext ==
  /\ phase = "search" /\ Searchable
  /\ Push(First(Rest), "HighValue") /\ UNCHANGED phase

DueLeft == {c \in Rest : ReplayDue(c)}
Replayable ==
  /\ Len(selected) < ReplaySlots
  /\ DueLeft # {} /\ Fits(First(DueLeft))
ReplayNext ==
  /\ phase = "replay" /\ Replayable
  /\ Push(First(DueLeft), "ReplayDue") /\ UNCHANGED phase
ReplayEnds ==
  /\ phase = "replay" /\ ~Replayable
  /\ phase' = "fill" /\ UNCHANGED <<offered, request, selected, tokens, omitted>>

Fill ==
  /\ phase = "fill" /\ Fillable # {}
  /\ LET c == Best(Fillable) IN Push(c, FillReason(c))
  /\ UNCHANGED phase

(* What was not chosen is explained nearest first, up to a cap; all is counted. *)
Omissions ==
  [listed |-> LET order == InOrder(Rest)
              IN  [k \in 1 .. Lesser(OmittedCap, Len(order)) |-> order[k]],
   total |-> Cardinality(Rest)]
Finish ==
  /\ \/ phase = "search" /\ ~Searchable
     \/ phase = "fill" /\ Fillable = {}
  /\ phase' = "done" /\ omitted' = Omissions
  /\ UNCHANGED <<offered, request, selected, tokens>>

ComposeNext == SearchNext \/ ReplayNext \/ ReplayEnds \/ Fill \/ Finish
ComposeSpec == ComposeInit /\ [][ComposeNext]_composeVars

------------------------------------------------------------------------------
(* The engine's check of what a policy composed (validate.rs). *)
Accepted ==
  /\ Chosen \subseteq DOMAIN offered /\ IsInjective([i \in DOMAIN selected |-> selected[i].id])
  /\ \A k \in DOMAIN omitted.listed : omitted.listed[k] \in DOMAIN offered
  /\ tokens = FoldFunction(+, 0, [c \in Chosen |-> offered[c].tokens])
  /\ request.items # Unlimited => Len(selected) <= request.items
  /\ request.tokens # Unlimited => tokens <= request.tokens

Done == phase = "done"
Replayed == {selected[i].id : i \in {j \in DOMAIN selected : selected[j].reason = "ReplayDue"}}

(* Type correctness of the composition's state. *)
ComposeTypeOK ==
  /\ phase \in {"search", "replay", "fill", "done"} /\ tokens \in Nat
  /\ \A i \in DOMAIN selected :
       selected[i].id \in DOMAIN offered
         /\ selected[i].reason \in {"HighValue", "ReplayDue", "DiversityCut"}
  /\ omitted.total \in Nat /\ Len(omitted.listed) <= OmittedCap

(* Whatever the policy composes passes the check the engine makes of it, and *)
(* would at every step: an answer the engine refuses is lost to the fallback *)
(* policy or to an error (validate.rs, compose.rs fits).                     *)
WorkingSetIsAccepted == Accepted

(* A working set leaves room unused only when nothing finite that was left   *)
(* out still fits in it, although the loops meet large candidates early      *)
(* (compose.rs:212 goes on, where the other two loops stop).                 *)
NothingThatFitsIsLeftOut ==
  Done /\ request.mode = "WorkingSet" => \A c \in Rest : IsFinite(c) => ~Fits(c)

(* A search answers with the longest run of the ranking that fits: a large   *)
(* candidate ends the answer and no lesser one is let past it.               *)
SearchIsAPrefix ==
  Done /\ request.mode = "Search" =>
    /\ \A c \in Chosen, d \in Rest : Before(c, d)
    /\ Rest # {} => ~Fits(First(Rest))

(* What is due for replay yields to relevance only when the reserved slots   *)
(* are taken or the next one due was too large for what replay had left; the *)
(* reservation takes no more than its quota of the budget.                   *)
ReplayIsReserved ==
  Done /\ request.mode = "WorkingSet" =>
    LET due == {c \in DOMAIN offered : ReplayDue(c)} \ Replayed
        used == FoldFunction(+, 0, [c \in Replayed |-> offered[c].tokens])
    IN  /\ Cardinality(Replayed) * 100 <=
             request.quota * (IF request.items = Unlimited THEN Cardinality(DOMAIN offered)
                              ELSE request.items)
        /\ due # {} => \/ Cardinality(Replayed) = ReplaySlots
                       \/ /\ request.tokens # Unlimited
                          /\ used + offered[First(due)].tokens > request.tokens

(* A candidate is never passed over for another that says the same, costs no *)
(* less and ranks lower, unless replay reserved the other's place.           *)
NoneIsPreferredToItsBetter ==
  Done => \A c \in Rest, d \in Chosen \ Replayed :
    ~ /\ IsFinite(c) /\ Before(c, d)
      /\ offered[c].words = offered[d].words
      /\ offered[c].tokens <= offered[d].tokens

(* The explanation of what was cut counts every omission and lists those     *)
(* that nearly made it, however few it may list.                             *)
OmissionsAreTheNearest ==
  Done => LET listed == {omitted.listed[k] : k \in DOMAIN omitted.listed}
          IN  /\ omitted.total + Len(selected) = Cardinality(DOMAIN offered)
              /\ listed \subseteq Rest
              /\ Rest # listed => Cardinality(listed) = OmittedCap
              /\ \A c \in listed, d \in Rest \ listed : Before(c, d)

(* A composition, at every step, is one the engine accepts, and in the end   *)
(* explains what it left out.                                                *)
CompositionIsAccepted == ComposeTypeOK /\ WorkingSetIsAccepted /\ OmissionsAreTheNearest

(* The room there is goes to the best that fits, in either mode. *)
TheBestThatFitsIsChosen ==
  NothingThatFitsIsLeftOut /\ SearchIsAPrefix /\ NoneIsPreferredToItsBetter
==============================================================================
