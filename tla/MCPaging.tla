------------------------------- MODULE MCPaging -------------------------------
(***************************************************************************)
(* Walks for TLC: a scope of three rows and pages of two, a log of three   *)
(* rows; meanwhile others admit, forget, import an older row or purge.     *)
(***************************************************************************)
EXTENDS Paging

S == <<"s", "n">>
MCWalked == S
MCMetas == {[kind |-> "fact", sensitivity |-> 1, occurred |-> {}, created |-> t] : t \in 0..2}
MCAuditMetas == {[at |-> 0, policy |-> {}, actor |-> "system"]}
MCBodySize == [b \in Bodies |-> 1]
MCWords == [b \in Bodies |-> {b}]
MCEmbedderOf == [b \in Bodies |-> "e"]
MCBuckets == {<<0, {}>>}
MCBucketOf == [a \in MCAuditMetas |-> <<0, {}>>]

Meta(t) == [kind |-> "fact", sensitivity |-> 1, occurred |-> {}, created |-> t]

MCStored ==
  {[id |-> i, scope |-> S, body |-> "b", tags |-> {}, meta |-> Meta(1), pending |-> i = 3,
    access |-> 0] : i \in 2..4}

Logged1(i, e) ==
  [id |-> i, scope |-> S, event |-> e, items |-> {2}, meta |-> CHOOSE a \in MCAuditMetas : TRUE]

MCLogged == {Logged1(1, "Admitted"), Logged1(2, "Recalled"), Logged1(3, "Admitted")}

MCFilters ==
  {AnyAudit, [AnyAudit EXCEPT !.events = {"Admitted"}], [AnyAudit EXCEPT !.after = {3}]}

Written(e, refs) ==
  [scope |-> S, upsert |-> {}, merge |-> {}, evictions |-> {}, auditScope |-> S, event |-> e,
   refs |-> refs, auditMeta |-> CHOOSE a \in MCAuditMetas : TRUE, key |-> {}, digest |-> "b"]

New(i, t) ==
  [id |-> i, scope |-> S, body |-> "b", tags |-> {}, meta |-> Meta(t), pending |-> FALSE,
   embedded |-> TRUE]

MCTransactions ==
  {[Written("Admitted", {5}) EXCEPT !.upsert = {New(5, 2)}],
   [Written("Forgotten", {2}) EXCEPT !.evictions = {2}],
   [Written("Forgotten", {3, 4}) EXCEPT !.evictions = {3, 4}]}

(* It comes without the vector it does not wait for. *)
Streamed ==
  [id |-> 1, scope |-> S, body |-> "b", tags |-> {}, meta |-> Meta(0), pending |-> FALSE,
   vector |-> {}]

MCStreams ==
  {[wellFormed |-> TRUE, items |-> {Streamed},
    audits |-> {Logged1(0 - 1, "Admitted")}]}

MCPurges == {<<S, TRUE, CHOOSE a \in MCAuditMetas : TRUE>>}

=============================================================================
