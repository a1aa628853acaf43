------------------------------ MODULE MCCompose ------------------------------
(* Every offer of up to four candidates of seven kinds, against budgets of   *)
(* either or both dimensions.                                                *)
EXTENDS Compose

CONSTANTS w1, w2

Candidate(relevance, cost, words, fragility, age, accessed) ==
  [relevance |-> relevance, tokens |-> cost, words |-> words, fragility |-> fragility,
   age |-> age, accessed |-> accessed]
MCCandidates ==
  {Candidate(90, 2, {w1}, 10, 0, NeverAccessed),
   Candidate(80, 1, {w1}, 60, 40, 1),
   Candidate(80, 1, {w1, w2}, 60, 40, NeverAccessed),
   Candidate(60, 3, {w2}, 90, 1, NeverAccessed),
   Candidate(60, 1, {w2}, 85, 40, 40),
   Candidate(40, 1, {}, 40, 90, 90),
   Candidate(101, 1, {w1}, 10, 1, 1)}
MCOffers == UNION {[1 .. n -> MCCandidates] : n \in 0 .. 4}
MCRecallRequests ==
  [mode : {"Search"}, items : {Unlimited, 2}, tokens : {Unlimited, 3}]
    \cup [mode : {"WorkingSet"}, items : {Unlimited, 2, 3}, tokens : {Unlimited, 3}]
==============================================================================
