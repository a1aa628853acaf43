----------------------------- MODULE MCDecisions -----------------------------
(* Pages of up to three rows of nine kinds, and of four of two; admissions   *)
(* with up to four neighbours.                                               *)
EXTENDS Decisions

CONSTANTS w1, w2

Row(created, words, bytes, protection, elapsed, value, fragility) ==
  [created |-> created, words |-> words, bytes |-> bytes, protection |-> protection,
   elapsed |-> elapsed, value |-> value, fragility |-> fragility]
MCRows ==
  {Row(1, {w1}, 65, "normal", FALSE, 50, 50),
   Row(2, {w1}, 66, "normal", FALSE, 50, 40),
   Row(2, {w1, w2}, 66, "normal", FALSE, 50, 50),
   Row(1, {w2}, 65, "elapsed", FALSE, 50, 50),
   Row(3, {w1, w2}, 66, "elapsed", FALSE, 20, 50),
   Row(1, {w1}, 65, "protected", FALSE, 50, 50),
   Row(2, {w1, w2}, 66, "pinned", FALSE, 10, 50),
   Row(1, {w2}, 66, "normal", TRUE, 50, 50),
   Row(3, {w1}, 65, "pinned", TRUE, 50, 50)}
MCFew == {Row(1, {w1}, 65, "normal", FALSE, 50, 50), Row(2, {w2}, 66, "normal", FALSE, 50, 40)}
MCBatches == UNION {[1 .. n -> MCRows] : n \in 0 .. 3} \cup [1 .. 4 -> MCFew]
MCCapacities ==
  {[items |-> NoLimit, bytes |-> NoLimit, others |-> 0], [items |-> 2, bytes |-> NoLimit, others |-> 0],
   [items |-> NoLimit, bytes |-> 131, others |-> 0], [items |-> 2, bytes |-> 196, others |-> 1]}
(* Neighbours, the nearest first as the backend gives them: apart, near      *)
(* enough to matter but not to merge with, to merge with, and duplicates.    *)
MCNear ==
  {s \in UNION {[1 .. n -> {-40, 20, 45, 60}] : n \in 0 .. 4} \cup [1 .. 2 -> {45, 99}] :
     \A i, j \in DOMAIN s : i =< j => s[i] >= s[j]}
MCCandidates == [bytes : {65, 66}, near : MCNear]
(* The default; a bar just above the typical; and one at it, with a window   *)
(* of no length.                                                             *)
MCConfigs ==
  {[fragile |-> 85, window |-> 30], [fragile |-> 51, window |-> 1], [fragile |-> 50, window |-> 0]}
==============================================================================
