------------------------------- MODULE MCStore -------------------------------
(***************************************************************************)
(* Module Store for TLC: a subject with two namespaces and a second subject *)
(* whose rows a purge of the first must not reach.                          *)
(***************************************************************************)
EXTENDS StoreContract

CONSTANTS s1, s2, n1, n2, i1, i2, b1, b2, k1, m1, t1, a1, a2, d1, d2, unbounded, bounded

MCBucketOf == [a \in {a1, a2} |-> IF a = a1 THEN d1 ELSE d2]
MCBodySize == [b \in {b1, b2} |-> IF b = b1 THEN 1 ELSE 2]

Here  == <<s1, n1>>
There == <<s1, n2>>
Other == <<s2, n1>>

Txn(s, upsert, merge, evictions, event, key, digest) ==
  [scope |-> s, upsert |-> upsert, merge |-> merge, evictions |-> evictions,
   auditScope |-> s, event |-> event, refs |-> {},
   auditMeta |-> IF evictions = {} THEN a1 ELSE a2, key |-> key, digest |-> digest]

Write(id, s, b, embedded) ==
  [id |-> id, scope |-> s, body |-> b, tags |-> {}, meta |-> m1,
   pending |-> ~embedded, embedded |-> embedded]

Merge(id, b, tags, embedded, pending) ==
  [target |-> id, body |-> b, tags |-> tags, pending |-> pending, embedded |-> embedded]

(* The shapes the engine builds: admission with and without a key and with *)
(* an eviction, replacement of a row (protect, reembed), merge by admission *)
(* and by maintenance, forget; and the shapes is_valid refuses.            *)
Shapes(SS) ==
  UNION {
    {Txn(s, {Write(i, s, b1, e)}, {}, {}, "Admitted", k, b1)
       : i \in {i1, i2}, e \in BOOLEAN, k \in {{}, {k1}}} \cup
    {Txn(s, {Write(i2, s, b2, TRUE)}, {}, {i1}, "Admitted", {k1}, b2),
     Txn(s, {Write(i1, s, b1, FALSE)}, {}, {i1}, "Admitted", {}, b1),
     Txn(s, {Write(i1, s, b2, TRUE)}, {}, {i1}, "Reembedded", {}, b1),
     Txn(s, {}, {Merge(i1, b2, Tags, TRUE, FALSE)}, {i2}, "Merged", {}, b1),
     Txn(s, {}, {Merge(i1, b2, {}, FALSE, TRUE)}, {}, "Merged", {k1}, b2),
     Txn(s, {}, {Merge(i2, b1, Tags, TRUE, TRUE)}, {}, "Merged", {}, b1),
     Txn(s, {}, {}, {i1, i2}, "Forgotten", {}, b1)} : s \in SS}

ForeignAudit(n) ==
  [id |-> 0 - n, scope |-> Here, event |-> "Admitted", items |-> {i1},
   meta |-> a1]

(* Every shape in one scope; in the subject's other scope and in another   *)
(* subject's, the writes whose rows they must not share.                   *)
Elsewhere(s) ==
  {Txn(s, {Write(i2, s, b1, TRUE)}, {}, {}, "Admitted", {k1}, b1),
   Txn(s, {}, {Merge(i2, b2, {}, FALSE, TRUE)}, {i1}, "Merged", {}, b1),
   Txn(s, {}, {}, {i1, i2}, "Forgotten", {}, b1)}

MCTransactions == Shapes({Here}) \cup Elsewhere(There) \cup Elsewhere(Other)

Exported(id, s, b, pending, vector) ==
  [id |-> id, scope |-> s, body |-> b, tags |-> {}, meta |-> m1,
   pending |-> pending, vector |-> vector]

(* An export of the first scope; one that crosses scopes, whose items and  *)
(* vectors disagree: a vector of another body, one of an item that says it *)
(* is pending; one with an item that has none; and one refused.            *)
MCStreams ==
  {[wellFormed |-> TRUE,
    items |-> {Exported(i1, Here, b1, FALSE, {b1}), Exported(i2, Here, b2, TRUE, {})},
    audits |-> {ForeignAudit(1), ForeignAudit(2)}],
   [wellFormed |-> TRUE,
    items |-> {Exported(i2, There, b2, FALSE, {b1}), Exported(i1, Other, b1, TRUE, {b1})},
    audits |-> {}],
   [wellFormed |-> TRUE, items |-> {Exported(i1, Here, b2, FALSE, {})}, audits |-> {}],
   [wellFormed |-> FALSE, items |-> {Exported(i1, There, b1, FALSE, {b1})}, audits |-> {}]}

MCRecalls == {<<Here, {i1}, a1>>, <<Here, {i1, i2}, a2>>, <<There, {i2}, a1>>}
MCCeilings == {<<Here, bounded>>, <<Here, unbounded>>, <<Other, bounded>>}
MCPurges == {<<Here, TRUE, a1>>, <<There, FALSE, a2>>, <<Other, TRUE, a1>>}
=============================================================================
