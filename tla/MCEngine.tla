------------------------------ MODULE MCEngine ------------------------------
(***************************************************************************)
(* Module Engine for TLC: one scope, bodies of one or two facts, and the   *)
(* calls, the rows at the start and the budgets each run chooses from.     *)
(***************************************************************************)
EXTENDS Engine

CONSTANTS s1, n1, admin, i1, i2, i3, i4, i5, f1, f2, k1, c1, c2, none

Here  == <<s1, n1>>
Admin == <<admin, n1>>   \* its subject tells it from any other

F1 == {f1}
F2 == {f2}
Both == {f1, f2}
MCBodies == {F1, F2, Both}
MCBucketOf == [a \in {none} |-> none]
MCBodySize == [b \in MCBodies |-> Cardinality(b)]

MCUnbounded == [items |-> none, bytes |-> none]
OneItem  == [items |-> 1, bytes |-> none]
TwoItems == [items |-> 2, bytes |-> none]
TwoBytes == [items |-> none, bytes |-> 2]
MCBudgets == {MCUnbounded, OneItem, TwoItems, TwoBytes}

Meta3(prot, sens, expires) == [prot |-> prot, sens |-> sens, expires |-> expires]
MCMetas == Meta
Plain == Meta3(0, 0, Never)

Seed(id, body, m) == Row(id, Here, body, m, FALSE)

-----------------------------------------------------------------------------
(* Requests.                                                               *)

Remember(body, sens, fragile, key) ==
  [op |-> "remember", scope |-> Here, body |-> body, sens |-> sens,
   expires |-> Never, fragile |-> fragile, key |-> key]
Forget(ids) == [op |-> "forget", scope |-> Here, ids |-> ids]
Protect(id, prot) == [op |-> "protect", scope |-> Here, id |-> id, prot |-> prot]
Maintain == [op |-> "maintain", scope |-> Here]
Reembed(p) == [op |-> "reembed", scope |-> Here, pendingOnly |-> p]
Recall(ceiling) == [op |-> "recall", scope |-> Here, ceiling |-> ceiling]
SetTo(b) == [op |-> "budget", scope |-> Here, budget |-> b]
ImportAny == [op |-> "import", scope |-> Admin]
ExportAll == [op |-> "export", scope |-> Admin]
PurgeAll(cascade) == [op |-> "purge", scope |-> Here, cascade |-> cascade]

-----------------------------------------------------------------------------
(* One caller: every operation, one after the other.                       *)

SequentialRequests ==
  {Remember(F1, 0, {}, {k1}), Remember(Both, 1, {}, {}), Remember(F2, 0, {f1}, {}),
   Forget({i1}), Protect(i1, Never), Protect(i2, 0), Maintain, Reembed(TRUE),
   Reembed(FALSE), Recall(0), SetTo(OneItem), PurgeAll(TRUE), PurgeAll(FALSE),
   ImportAny, ExportAll}

SequentialSeeds ==
  {{},
   {Seed(i1, F1, Meta3(Never, 0, 0)), Seed(i2, F2, Meta3(0, 0, 0))},
   {Seed(i1, F1, Meta3(1, 1, Never)), Seed(i2, Both, Plain)}}

SequentialBudgets == {MCUnbounded, TwoItems, TwoBytes}

(* An export of this scope with a pinned item, whose vector is of another  *)
(* body, and an item that has none and does not wait for it; and one that  *)
(* is refused.                                                             *)
Streamed(id, body, m, vector) ==
  [id |-> id, scope |-> Here, body |-> body, tags |-> {}, meta |-> m,
   pending |-> FALSE, vector |-> vector]

NoStreams == {}
NoneDetected == {}
LongDetected == {Both}

SequentialStreams ==
  {[wellFormed |-> TRUE, audits |-> {},
    items |-> {Streamed(i1, F1, Plain, {}), Streamed(i4, Both, Meta3(Never, 0, 1), {F1})}],
   [wellFormed |-> FALSE, audits |-> {}, items |-> {Streamed(i4, F1, Plain, {F1})}]}

-----------------------------------------------------------------------------
(* Two callers: a keyed remember tried twice at once, against writers.     *)

ConcurrentRequests ==
  {Remember(F1, 0, {}, {k1}), Remember(Both, 0, {}, {k1}), Forget({i1}),
   Protect(i1, Never), Maintain, Reembed(FALSE), Recall(0)}

ConcurrentSeeds == {{}, {Seed(i1, F1, Plain), Seed(i2, Both, Plain)}}

NoBudget == {MCUnbounded}
UpToOne  == {OneItem}

-----------------------------------------------------------------------------
(* Pairs of calls that meet, for the claims the code does not keep.        *)

OneRow == {{Seed(i1, F1, Plain)}}
NoRows == {{}}

AdmitRequests  == {Remember(F1, 0, {}, {}), Remember(F2, 0, {}, {})}
ForgetRequests == {Forget({i1}), Protect(i1, 0)}
=============================================================================
