---------------------------- MODULE MCConformance ----------------------------
(***************************************************************************)
(* The conformance suite for TLC: the subjects, ids, bodies and times its  *)
(* cases use.                                                              *)
(***************************************************************************)
EXTENDS Conformance

MCBodySize ==
  [b \in Bodies |-> CASE b = "long" -> 3 [] b = "mat" -> 2 [] OTHER -> 1]

MCWords ==
  [b \in Bodies |->
     CASE b = "mat"      -> {"the", "cat", "sat", "on", "mat"}
       [] b = "rug"      -> {"the", "cat", "sat", "on", "a", "rug"}
       [] b = "record"   -> {"record", "kept"}
       [] b = "public"   -> {"public", "kept"}
       [] b = "personal" -> {"personal", "kept"}
       [] b \in {"alpha", "beta", "gamma"} -> {"about", "cats", b}
       [] OTHER          -> {b}]

MCEmbedderOf == [b \in Bodies |-> IF b = "other model" THEN "other" ELSE "deterministic"]

Times == 0..7 \cup {10, 15, 20, 30, 40, Day(1), Day(2)}

MCMetas ==
  {[Plain EXCEPT !.created = t] : t \in Times}
    \cup {[Plain EXCEPT !.sensitivity = level] : level \in 0..4}
    \cup {[Plain EXCEPT !.kind = "preference", !.occurred = times] : times \in {{}, {1}}}
    \cup {[Plain EXCEPT !.occurred = {t}] : t \in 1..3}

Policies ==
  {UpperB, LowerA, SplitLate, SplitEarly, Alpha1, Alpha2, Ten, Nine, BetaPolicy, Nonexistent}

MCAuditMetas == [at : Times, policy : AtMostOne(Policies), actor : {"system", "dpo-7"}]

MCBuckets == (0..2) \X AtMostOne(Policies)

MCBucketOf == [a \in AuditMetas |-> <<a.at \div DayLength, a.policy>>]

=============================================================================
