------------------------------- MODULE Engine -------------------------------
(***************************************************************************)
(* The engine of one tenant: the calls of `impl Engine` (remember, recall, *)
(* forget, protect, maintain, reembed, set_budget, purge_subject, import   *)
(* and export) run by concurrent callers over the backend of module Store. *)
(*                                                                         *)
(* A call is a sequence of backend operations with `.await` between them,  *)
(* and nothing is locked across an await: what a call read in one step may *)
(* have changed when it writes in a later one.  A caller may drop the      *)
(* future of its call, and the process may crash, at any await.            *)
(*                                                                         *)
(* A body is the set of facts it tells.  The policy is BaselinePolicy with *)
(* its scores abstracted: two bodies that share a fact are similar, equal  *)
(* bodies are duplicates, and an item's fragility is a choice.             *)
(***************************************************************************)
EXTENDS Store

CONSTANTS
  Callers,       \* concurrent callers
  Requests,      \* the calls they make
  MaxCalls,      \* bound: calls begun
  MaxNow,        \* bound: the clock
  Embeds,        \* outcomes of the embedder: {TRUE}, or {TRUE, FALSE}
  NoLimit,       \* None, for a limit of a budget
  AdminScope,    \* Scope::admin, which no caller's request names
  Detected,      \* bodies in which the baseline finds something sensitive
  Seeds,         \* sets of rows an import may have left at the start
  SeedBudgets    \* budgets the scopes may have at the start

Never == MaxNow + 2

(* What the engine reads of the columns the backend keeps as they are: the *)
(* instant from which the item is evictable (0 for Normal, Never for       *)
(* Pinned, `until` for Protected), its sensitivity, and when its ttl ends. *)
Meta == [prot : 0..Never, sens : 0..1, expires : 0..Never]

Budget == [items : Nat \cup {NoLimit}, bytes : Nat \cup {NoLimit}]

Row(id, s, body, m, pending) ==
  [id |-> id, scope |-> s, body |-> body, tags |-> {}, meta |-> m,
   pending |-> pending, access |-> 0]

(* What a caller may ask, checked where the request is parsed. *)
Asked(r) ==
  /\ r.op \in {"remember", "recall", "forget", "protect", "maintain", "reembed", "budget",
              "purge", "import", "export"}
  /\ r.scope \in Scopes
  /\ r.op = "remember" => /\ r.body \in Bodies /\ r.key \in AtMostOne(Keys)
                          /\ r.sens \in 0..1 /\ r.expires \in 0..Never
  /\ r.op = "protect" => r.id \in ItemIds /\ r.prot \in 0..Never
  /\ r.op = "budget" => r.budget \in Budgets
  /\ r.op = "purge" => r.cascade \in BOOLEAN
  /\ r.op \in {"import", "export"} => r.scope = AdminScope

ASSUME EngineAssumption ==
  /\ Metas = Meta
  /\ Budgets \subseteq Budget
  /\ Unbounded = [items |-> NoLimit, bytes |-> NoLimit]
  /\ NoLimit \notin Nat
  /\ Bodies # {} /\ {} \notin Bodies
  /\ \A a, b \in Bodies : a \cup b \in Bodies
  \* a fold adds a separator, and saves the fixed part of the absorbed row's charge
  /\ \A a, b \in Bodies : BodySize[a \cup b] =< BodySize[a] + BodySize[b]
  /\ Embeds \subseteq BOOLEAN
  /\ AdminScope \in Scopes
  /\ \A r \in Requests : Asked(r)
  /\ Seeds \subseteq SUBSET ItemRow
  /\ \A rows \in Seeds : \A q, r \in rows : q.id = r.id => q = r
  /\ SeedBudgets \subseteq Budgets
  /\ MaxCalls \in Nat /\ MaxNow \in Nat

VARIABLES
  now,           \* the clock
  pc,            \* where each caller's call stands
  req,           \* the call it is making
  mem,           \* what the call remembers from its earlier steps
  begun,         \* calls begun so far
  allocated,     \* item ids handed out (ItemId::new)
  erased,        \* history: ids a forget or a purge reported removed
  outcomes       \* history: outcomes of keyed remembers

calls   == <<pc, req, mem>>
history == <<erased, outcomes>>
engineVars == <<vars, now, calls, begun, allocated, history>>

NoRequest == [op |-> "none"]

(* The locals of a call.  protect, maintain and reembed have work left     *)
(* between two transactions: merges and grants of protection to carry out, *)
(* rows to embed, and a last transaction.                                  *)
Blank ==
  [embedded |-> FALSE, verdict |-> "Novel", into |-> {}, capacity |-> NoCapacity,
   seen |-> {}, replayed |-> {}, txn |-> {}, merges |-> {}, grants |-> {},
   rows |-> {}, last |-> {}]

EngineInit ==
  \E rows \in Seeds, b \in SeedBudgets :
    /\ items = rows
    /\ vectors = {[id |-> r.id, scope |-> r.scope, of |-> r.body] : r \in {q \in rows : ~q.pending}}
    /\ capacity = [s \in Scopes |->
         [budget |-> b, items |-> Cardinality(Ids(InScope(rows, s))),
          bytes |-> TotalCharge(InScope(rows, s))]]
    /\ audit = {}
    /\ aggregates = [k \in AggregateKeys |-> 0]
    /\ idempotency = {}
    /\ minted = 0
    /\ now = 0
    /\ pc = [c \in Callers |-> "idle"]
    /\ req = [c \in Callers |-> NoRequest]
    /\ mem = [c \in Callers |-> Blank]
    /\ begun = 0
    /\ allocated = Ids(rows)
    /\ erased = {}
    /\ outcomes = {}

-----------------------------------------------------------------------------
(* Steps of a call.                                                        *)

At(c, p) == pc[c] = p
Goto(c, p) == pc' = [pc EXCEPT ![c] = p]
Keep(c, m) == mem' = [mem EXCEPT ![c] = m]

(* The call returns to its caller, with a result or an error.              *)
Return(c) ==
  /\ Goto(c, "idle")
  /\ req' = [req EXCEPT ![c] = NoRequest]
  /\ Keep(c, Blank)

Reading == UNCHANGED <<vars, now, begun, allocated, history>>

FirstStep(op) ==
  CASE op = "remember" -> "neighbours"
    [] op = "recall"   -> "retrieve"
    [] op = "forget"   -> "match"
    [] op = "protect"  -> "work"
    [] op = "maintain" -> "list"
    [] op = "reembed"  -> "list"
    [] op = "budget"   -> "budget"
    [] op = "purge"    -> "purge"
    [] op = "import"   -> "import"
    [] op = "export"   -> "export"

Begin(c) ==
  /\ At(c, "idle")
  /\ begun < MaxCalls
  /\ \E r \in Requests :
       /\ req' = [req EXCEPT ![c] = r]
       /\ Goto(c, FirstStep(r.op))
       /\ Keep(c, IF r.op = "protect"
                  THEN [Blank EXCEPT !.grants = {[id |-> r.id, prot |-> r.prot]}]
                  ELSE Blank)
  /\ begun' = begun + 1
  /\ UNCHANGED <<vars, now, allocated, history>>

(* The caller drops the future, or the process crashes: what the call did  *)
(* so far stays, the rest never happens.  A transaction already handed to  *)
(* a blocking task is not stopped by a drop (module TenantPool): such a    *)
(* call is one that goes on, and whoever dropped it is a further caller.   *)
Drop(c) ==
  /\ ~At(c, "idle")
  /\ Return(c)
  /\ Reading

Tick ==
  /\ now < MaxNow
  /\ now' = now + 1
  /\ UNCHANGED <<vars, calls, begun, allocated, history>>

-----------------------------------------------------------------------------
(* Transactions.                                                           *)

AnyMeta == CHOOSE m \in AuditMetas : TRUE

Txn(s, event, refs) ==
  [scope |-> s, upsert |-> {}, merge |-> {}, evictions |-> {}, auditScope |-> s,
   event |-> event, refs |-> refs, auditMeta |-> AnyMeta, key |-> {},
   digest |-> CHOOSE b \in Bodies : TRUE]

(* A row written again under its own id, with its columns as the call has  *)
(* them.                                                                   *)
Replacement(r, event, embedded) ==
  [Txn(r.scope, event, {r.id}) EXCEPT
     !.evictions = {r.id},
     !.upsert = {[id |-> r.id, scope |-> r.scope, body |-> r.body, tags |-> r.tags,
                  meta |-> r.meta, pending |-> ~embedded, embedded |-> embedded]}]

-----------------------------------------------------------------------------
(* Capacity and eviction.                                                  *)

Evictable(r) == r.meta.prot =< now
MustForget(r) == r.meta.expires =< now

IsBounded(b) == b.items # NoLimit \/ b.bytes # NoLimit
Over(used, limit) == limit # NoLimit /\ used > limit

(* Variant: what is to be admitted is left out.                            *)
WouldExceedAlready(c, n, bytes) ==
  Over(c.items, c.budget.items) \/ Over(c.bytes, c.budget.bytes)

(* CapacityState::would_exceed *)
WouldExceed(c, n, bytes) ==
  Over(c.items + n, c.budget.items) \/ Over(c.bytes + bytes, c.budget.bytes)

Freed(c, rows) == Adjusted(c, 0 - Cardinality(rows), 0 - TotalCharge(rows))

(* Variant: one candidate too few is taken.                                *)
EvictionsOneShort(c, candidates, n, bytes) ==
  IF ~WouldExceed(c, n, bytes) THEN {{}}
  ELSE {E \in SUBSET candidates : E # candidates /\ WouldExceed(Freed(c, E), n, bytes)}

(* eviction::evictions_needed: candidates are taken, in an order, until    *)
(* what is admitted fits or none is left.                                  *)
Evictions(c, candidates, n, bytes) ==
  {E \in SUBSET candidates :
     /\ E = candidates \/ ~WouldExceed(Freed(c, E), n, bytes)
     /\ E = {} \/ \E last \in E : WouldExceed(Freed(c, E \ {last}), n, bytes)}

(* Variant: every item listed is offered.                                  *)
AllListed(s, cap) == IF IsBounded(cap.budget) THEN InScope(items, s) ELSE {}

(* gather::admit_context: the evictable items of the scope, if the budget  *)
(* is bounded.  The page of 128 it lists is taken to hold the scope.       *)
Candidates(s, cap) ==
  IF IsBounded(cap.budget) THEN {r \in InScope(items, s) : Evictable(r)} ELSE {}

-----------------------------------------------------------------------------
(* Engine::remember.                                                       *)

Similar(a, b) == a \cap b # {}

(* assess_context and assess: the neighbours are the items with a vector;  *)
(* a body that could not be embedded has none.                             *)
ReadNeighbours(c) ==
  /\ At(c, "neighbours")
  /\ \E e \in Embeds :
       LET r == req[c]
           near == IF e THEN {n \in InScope(items, r.scope) : n.id \in Ids(vectors)} ELSE {}
           similar == {n \in near : Similar(n.body, r.body)}
           m == [mem[c] EXCEPT !.embedded = e]
       IN  IF \E n \in near : n.body = r.body
           THEN Keep(c, [m EXCEPT !.verdict = "NearDuplicate"])
           ELSE IF similar = {} THEN Keep(c, m)
           ELSE \E n \in similar :
                  Keep(c, [m EXCEPT !.verdict = "Mergeable", !.into = {n.id}])
  /\ Goto(c, "capacity")
  /\ UNCHANGED req
  /\ Reading

(* admit_context reads the counters, then lists the scope: two awaits.     *)
ReadCapacity(c) ==
  /\ At(c, "capacity")
  /\ Keep(c, [mem[c] EXCEPT !.capacity = capacity[req[c].scope]])
  /\ Goto(c, IF req[c].op = "maintain" THEN "decide" ELSE "candidates")
  /\ UNCHANGED req
  /\ Reading

(* Variant: the key is not passed on.                                      *)
Unkeyed(t, r) == t

(* A rejection is a transaction too: its audit row, and the key.           *)
Keyed(t, r) == [t EXCEPT !.key = r.key, !.digest = r.body]

(* Variant: ids are reused once their row is gone.                         *)
UnusedIds == ItemIds \ Ids(items)

FreshIds == ItemIds \ allocated

(* Variant: an item is never marked as waiting for its embedding.          *)
RetainTxnNeverPending(r, id, embedded, prot, evictions) ==
  Keyed([Txn(r.scope, "Admitted", {id}) EXCEPT
           !.evictions = Ids(evictions),
           !.upsert = {[id |-> id, scope |-> r.scope, body |-> r.body, tags |-> {},
                        meta |-> [prot |-> prot, sens |-> r.sens, expires |-> r.expires],
                        pending |-> FALSE, embedded |-> embedded]}], r)

RetainTxn(r, id, embedded, prot, evictions) ==
  Keyed([Txn(r.scope, "Admitted", {id}) EXCEPT
           !.evictions = Ids(evictions),
           !.upsert = {[id |-> id, scope |-> r.scope, body |-> r.body, tags |-> {},
                        meta |-> [prot |-> prot, sens |-> r.sens, expires |-> r.expires],
                        pending |-> ~embedded, embedded |-> embedded]}], r)

(* The merge writes the candidate's body; its audit row names no item.     *)
AdmissionMergeTxn(r, into, embedded) ==
  Keyed([Txn(r.scope, "Merged", {}) EXCEPT
           !.merge = {[target |-> into, body |-> r.body, tags |-> {},
                       pending |-> ~embedded, embedded |-> embedded]}], r)

(* admit::decide, on what was read, and the transaction remember builds    *)
(* from the decision.                                                      *)
Admit(c) ==
  LET r == req[c]
      m == mem[c]
      rejected == Keyed(Txn(r.scope, "Rejected", {}), r)
  IN
  /\ At(c, "candidates")
  /\ \/ /\ m.verdict = "NearDuplicate"
        /\ Keep(c, [m EXCEPT !.txn = {rejected}])
        /\ Goto(c, "apply")
        /\ UNCHANGED allocated
     \/ /\ m.verdict = "Mergeable"
        /\ \E id \in m.into : Keep(c, [m EXCEPT !.txn = {AdmissionMergeTxn(r, id, m.embedded)}])
        /\ Goto(c, "target")
        /\ UNCHANGED allocated
     \/ /\ m.verdict = "Novel"
        /\ \E E \in Evictions(m.capacity, Candidates(r.scope, m.capacity), 1, BodySize[r.body]),
              prot \in {0} \cup {now + 1 : x \in r.fragile} :
             IF WouldExceed(Freed(m.capacity, E), 1, BodySize[r.body])
             THEN /\ Keep(c, [m EXCEPT !.txn = {rejected}])
                  /\ UNCHANGED allocated
             ELSE /\ FreshIds # {}
                  /\ LET id == CHOOSE i \in FreshIds : TRUE IN
                     /\ Keep(c, [m EXCEPT !.txn = {RetainTxn(r, id, m.embedded, prot, E)}])
                     /\ allocated' = allocated \cup {id}
        /\ Goto(c, "apply")
  /\ UNCHANGED <<req, vars, now, begun, history>>

(* validate::merge_target; handle_invalid_decision files a Rejected row    *)
(* without the key and answers Reject (the default stance, FailSafe).      *)
CheckTarget(c) ==
  LET gone == ~\E r \in InScope(items, req[c].scope) : r.id \in mem[c].into IN
  /\ At(c, "target")
  /\ IF gone
     THEN Keep(c, [mem[c] EXCEPT !.txn = {Txn(req[c].scope, "Rejected", {})}])
     ELSE UNCHANGED mem
  /\ Goto(c, "apply")
  /\ UNCHANGED req
  /\ Reading

-----------------------------------------------------------------------------
(* Applying a transaction, and what the caller is told.                    *)

ActionOf(event) ==
  CASE event = "Admitted" -> "Retain" [] event = "Merged" -> "Merge" [] OTHER -> "Reject"

Told(c, action, out) ==
  outcomes' = outcomes \cup
    {[scope |-> req[c].scope, key |-> k, body |-> req[c].body, action |-> action,
      item |-> out.item, audit |-> out.audit] : k \in req[c].key}

(* After a transaction committed some calls have work left.                *)
AfterCommit(c) ==
  IF req[c].op \in {"protect", "maintain", "reembed"}
  THEN /\ Goto(c, "work")
       /\ Keep(c, [mem[c] EXCEPT !.txn = {}])
       /\ UNCHANGED req
  ELSE Return(c)

DoTransaction(c) ==
  \E t \in mem[c].txn :
    /\ At(c, "apply")
    /\ Mint
    /\ Apply(t, minted + 1)
    /\ UNCHANGED <<now, begun, allocated>>
    /\ \/ /\ Commits(t)
          /\ AfterCommit(c)
          /\ erased' = IF t.event = "Forgotten" THEN erased \cup Ids(Victims(t)) ELSE erased
          /\ IF req[c].op = "remember"
             THEN Told(c, ActionOf(t.event), AppliedWrite(t, minted + 1))
             ELSE UNCHANGED outcomes
       \/ /\ Replays(t)
          /\ \E p \in Prior(t) : Keep(c, [mem[c] EXCEPT !.replayed = {p.outcome}])
          /\ Goto(c, "replay")
          /\ UNCHANGED <<req, history>>
       \/ /\ ~Commits(t) /\ ~Replays(t)
          /\ Return(c)
          /\ UNCHANGED history

(* Engine::replayed_outcome looks for the audit row among those that name  *)
(* the item, and otherwise tells Retain of an item and Reject of none.     *)
ReplayedAction(s, out) ==
  LET found == {a \in InScope(audit, s) : a.id = out.audit /\ out.item \subseteq a.items} IN
  IF found # {} THEN ActionOf((CHOOSE a \in found : TRUE).event)
  ELSE IF out.item # {} THEN "Retain" ELSE "Reject"

ReplayOutcome(c) ==
  /\ At(c, "replay")
  /\ \E out \in mem[c].replayed : Told(c, ReplayedAction(req[c].scope, out), out)
  /\ Return(c)
  /\ UNCHANGED <<vars, now, begun, allocated, erased>>

-----------------------------------------------------------------------------
(* Engine::forget and Engine::protect.                                     *)

(* The rows selected are read first, and named in the audit row; then one  *)
(* transaction removes those still there.                                  *)
Match(c) ==
  LET matched == {r \in InScope(items, req[c].scope) : r.id \in req[c].ids} IN
  /\ At(c, "match")
  /\ Keep(c, [mem[c] EXCEPT !.txn =
       {[Txn(req[c].scope, "Forgotten", Ids(matched)) EXCEPT !.evictions = Ids(matched)]}])
  /\ Goto(c, "apply")
  /\ UNCHANGED req
  /\ Reading

(* Engine::protect, also called by maintain for each protection it grants  *)
(* or releases: the item is read, then replaced; an item that is gone ends *)
(* the call with NotFound.                                                 *)
Grant(c) ==
  /\ At(c, "work")
  /\ mem[c].merges = {}
  /\ \E g \in mem[c].grants :
       LET found == {r \in InScope(items, req[c].scope) : r.id = g.id} IN
       IF found = {} THEN Return(c)
       ELSE \E r \in found, e \in Embeds :
              /\ Keep(c, [mem[c] EXCEPT
                   !.grants = @ \ {g},
                   !.txn = {Replacement([r EXCEPT !.meta.prot = g.prot], "Admitted", e)}])
              /\ Goto(c, "apply")
              /\ UNCHANGED req
  /\ Reading

-----------------------------------------------------------------------------
(* Engine::maintain and Engine::reembed.  The scope is taken to fit one    *)
(* batch of 200.                                                           *)

List(c) ==
  LET rows == InScope(items, req[c].scope) IN
  /\ At(c, "list")
  /\ IF rows = {} THEN Return(c)
     ELSE /\ UNCHANGED req
          /\ IF req[c].op = "maintain"
             THEN Keep(c, [mem[c] EXCEPT !.seen = rows]) /\ Goto(c, "capacity")
             ELSE /\ Keep(c, [mem[c] EXCEPT !.rows =
                       {r \in rows : req[c].pendingOnly => r.pending}])
                  /\ Goto(c, "work")
  /\ Reading

(* One row of the batch, as it was listed, is embedded and written again;  *)
(* a row the embedder fails on is left as it is.                           *)
Embed(c) ==
  /\ At(c, "work")
  /\ \E r \in mem[c].rows, e \in Embeds :
       LET m == [mem[c] EXCEPT !.rows = @ \ {r}] IN
       IF e THEN Keep(c, [m EXCEPT !.txn = {Replacement(r, "Reembedded", TRUE)}])
                 /\ Goto(c, "apply")
       ELSE Keep(c, m) /\ UNCHANGED pc
  /\ UNCHANGED req
  /\ Reading

(* maintain::consolidations: pairs of similar survivors, the absorbed one  *)
(* evictable and not decided about otherwise, until no pair is left whose  *)
(* items are both free.                                                    *)
Touches(p, q) == {p[1], p[2]} \cap {q[1], q[2]} # {}

Consolidations(rows, spokenFor) ==
  LET pairs == {p \in rows \X rows :
                  /\ p[1] # p[2]
                  /\ Similar(p[1].body, p[2].body)
                  /\ Evictable(p[1])
                  /\ p[1].id \notin spokenFor}
  IN {M \in SUBSET pairs :
        /\ \A p, q \in M : p # q => ~Touches(p, q)
        /\ \A p \in pairs \ M : \E q \in M : Touches(p, q)}

(* What the call is left to do: the protections to grant and to release,   *)
(* the merges, and the last transaction, which leaves out of the evictions *)
(* what was pinned when it was listed.                                     *)
Plan(c, removed, regrants, released, merges) ==
  LET grants == {[id |-> r.id, prot |-> now + 1] : r \in regrants} \cup
                {[id |-> r.id, prot |-> 0] : r \in released}
      forgotten == Ids({r \in removed : r.meta.prot # Never})
      run == [Txn(req[c].scope, "MaintenanceRun", forgotten) EXCEPT !.evictions = forgotten]
  IN  Keep(c, [mem[c] EXCEPT
        !.seen = {}, !.merges = merges, !.grants = grants,
        !.last = IF forgotten = {} /\ grants = {} THEN {} ELSE {run}])

(* maintain::decisions on the batch read: expired items go; while the      *)
(* scope is over its budget evictable ones go; a survivor may become       *)
(* fragile and protected once others go; windows that elapsed are          *)
(* released; survivors are consolidated.                                   *)
Decide(c) ==
  LET m == mem[c]
      expired == {r \in m.seen : MustForget(r)}
      left == Freed(m.capacity, expired)
      reclaimable == {r \in m.seen \ expired : Evictable(r)}
      bounded == IsBounded(m.capacity.budget)
  IN
  /\ At(c, "decide")
  /\ \E R \in (IF bounded THEN Evictions(left, reclaimable, 0, 0) ELSE {{}}) :
     LET removed == expired \cup R
         survivors == m.seen \ removed
     IN
     \E regrants \in (IF removed = {} THEN {{}} ELSE SUBSET {r \in survivors : Evictable(r)}) :
     LET released == {r \in survivors \ regrants : r.meta.prot \in 1..now} IN
     \E M \in Consolidations(survivors, Ids(removed \cup regrants \cup released)) :
       Plan(c, removed, regrants, released, M)
  /\ Goto(c, "work")
  /\ UNCHANGED req
  /\ Reading

(* Variant: the absorbed body takes the place of the target's.             *)
FoldedReplacing(target, absorbed) == absorbed.body

(* The body apply_merge writes: the target's with the absorbed one after it. *)
Folded(target, absorbed) == target.body \cup absorbed.body

(* Variant: a pair whose target is gone is kept for later.                 *)
FoldUntilFound(c) ==
  /\ At(c, "work")
  /\ \E p \in mem[c].merges, target \in InScope(items, req[c].scope) :
       /\ target.id = p[2].id
       /\ Keep(c, [mem[c] EXCEPT !.merges = @ \ {p}, !.txn =
            {[Txn(req[c].scope, "Merged", {p[1].id, target.id}) EXCEPT
                !.evictions = {p[1].id},
                !.merge = {[target |-> target.id, body |-> Folded(target, p[1]),
                            tags |-> p[1].tags, pending |-> FALSE, embedded |-> TRUE]}]}])
  /\ Goto(c, "apply")
  /\ UNCHANGED req
  /\ Reading

(* Engine::apply_merge: the target is read again, the absorbed row is the  *)
(* one that was listed; a target that is gone is skipped.                  *)
Fold(c) ==
  /\ At(c, "work")
  /\ \E p \in mem[c].merges :
       LET absorbed == p[1]
           m == [mem[c] EXCEPT !.merges = @ \ {p}]
           found == {r \in InScope(items, req[c].scope) : r.id = p[2].id}
       IN
       IF found = {} THEN Keep(c, m) /\ UNCHANGED pc
       ELSE \E target \in found, e \in Embeds :
              /\ Keep(c, [m EXCEPT !.txn =
                   {[Txn(req[c].scope, "Merged", {absorbed.id, target.id}) EXCEPT
                       !.evictions = {absorbed.id},
                       !.merge = {[target |-> target.id, body |-> Folded(target, absorbed),
                                   tags |-> absorbed.tags, pending |-> ~e,
                                   embedded |-> e]}]}])
              /\ Goto(c, "apply")
  /\ UNCHANGED req
  /\ Reading

(* With nothing else left, maintain removes what it decided to forget and  *)
(* files its run; then the call returns.                                   *)
Finish(c) ==
  LET m == mem[c] IN
  /\ At(c, "work")
  /\ m.merges = {} /\ m.grants = {} /\ m.rows = {}
  /\ IF m.last = {} THEN Return(c)
     ELSE /\ Keep(c, [m EXCEPT !.txn = m.last, !.last = {}])
          /\ Goto(c, "apply")
          /\ UNCHANGED req
  /\ Reading

-----------------------------------------------------------------------------
(* Engine::recall, set_budget and purge_subject.                           *)

(* The working set is some of the rows under the ceiling; what the policy  *)
(* composes of them is abstracted.                                         *)
Retrieve(c) ==
  /\ At(c, "retrieve")
  /\ \E ws \in SUBSET {r \in InScope(items, req[c].scope) : r.meta.sens =< req[c].ceiling} :
       Keep(c, [mem[c] EXCEPT !.seen = ws])
  /\ Goto(c, "record")
  /\ UNCHANGED req
  /\ Reading

Record(c) ==
  /\ At(c, "record")
  /\ Mint
  /\ RecordRecall(req[c].scope, Ids(mem[c].seen), minted + 1, AnyMeta)
  /\ Return(c)
  /\ UNCHANGED <<now, begun, allocated, history>>

(* The budget is set in one transaction and audited in a second.           *)
ChangeBudget(c) ==
  /\ At(c, "budget")
  /\ SetBudget(req[c].scope, req[c].budget)
  /\ Keep(c, [mem[c] EXCEPT !.txn = {Txn(req[c].scope, "PolicyChanged", {})}])
  /\ Goto(c, "apply")
  /\ UNCHANGED <<minted, req, now, begun, allocated, history>>

(* The marker goes under a namespace the subject had when the engine       *)
(* looked, which may have changed since: any of them.                      *)
Purge(c) ==
  LET j == SubjectOf(req[c].scope) IN
  /\ At(c, "purge")
  /\ Mint
  /\ \E n \in Namespaces : PurgeSubject(j, req[c].cascade, <<j, n>>, minted + 1, AnyMeta)
  /\ erased' = erased \cup Ids(OfSubject(items, j))
  /\ Return(c)
  /\ UNCHANGED <<now, begun, allocated, outcomes>>

-----------------------------------------------------------------------------
(* Engine::import and export_ndjson_as, of a whole tenant: their rows go   *)
(* to the admin scope.                                                     *)

(* Variant: the stream's own columns.                                      *)
ReassessedByNobody(w) == w

(* A stream is believed in nothing that would keep an item from eviction   *)
(* or below a ceiling: no pin, no window longer than an admission gives,   *)
(* no sensitivity lower than the one detected.                             *)
Reassessed(w) ==
  [w EXCEPT
     !.meta.prot = IF @ = Never THEN 0 ELSE IF @ > now + 1 THEN now + 1 ELSE @,
     !.meta.sens = IF w.body \in Detected THEN 1 ELSE @]

(* The backend's import, then, if it went through, its audit row, naming   *)
(* every item of the stream.  No budget is looked at.                      *)
ImportStreamOf(c) ==
  /\ At(c, "import")
  /\ \E st \in Streams :
       LET reassessed == [st EXCEPT !.items = {Reassessed(w) : w \in st.items}] IN
       /\ Import(reassessed)
       /\ IF ImportCommits(reassessed)
          THEN /\ allocated' = allocated \cup Ids(st.items)
               /\ erased' = erased \ Ids(st.items)
               /\ Keep(c, [mem[c] EXCEPT !.txn = {Txn(AdminScope, "Imported", Ids(st.items))}])
               /\ Goto(c, "apply")
               /\ UNCHANGED req
          ELSE Return(c) /\ UNCHANGED <<allocated, erased>>
  /\ UNCHANGED <<minted, now, begun, outcomes>>

(* What is exported is read, and then that it was is filed.                *)
Export(c) ==
  /\ At(c, "export")
  /\ Keep(c, [mem[c] EXCEPT !.txn = {Txn(AdminScope, "Exported", {})}])
  /\ Goto(c, "apply")
  /\ UNCHANGED req
  /\ Reading

-----------------------------------------------------------------------------

Step(c) ==
  \/ ReadNeighbours(c) \/ ReadCapacity(c) \/ Admit(c) \/ CheckTarget(c)
  \/ DoTransaction(c) \/ ReplayOutcome(c)
  \/ Match(c) \/ Grant(c)
  \/ List(c) \/ Decide(c) \/ Fold(c) \/ Embed(c) \/ Finish(c)
  \/ Retrieve(c) \/ Record(c) \/ ChangeBudget(c) \/ Purge(c)
  \/ ImportStreamOf(c) \/ Export(c)

EngineNext == Tick \/ \E c \in Callers : Begin(c) \/ Step(c) \/ Drop(c)

EngineSpec == EngineInit /\ [][EngineNext]_engineVars

(* The runtime polls every call that is not dropped, and every backend     *)
(* operation returns.                                                      *)
FairSpec == EngineSpec /\ \A c \in Callers : WF_engineVars(Step(c))

-----------------------------------------------------------------------------
(* Properties.  Those that speak of one writer hold of a single caller and *)
(* are refuted with two: README.md tells which runs show what.             *)

EngineTypeOK ==
  /\ TypeOK
  /\ now \in 0..MaxNow
  /\ \A c \in Callers :
       /\ req[c] \in Requests \cup {NoRequest}
       /\ mem[c].txn \subseteq WriteTransaction
       /\ mem[c].last \subseteq WriteTransaction
       /\ mem[c].seen \subseteq ItemRow /\ mem[c].rows \subseteq ItemRow
  /\ Ids(items) \subseteq allocated

(* Every transaction the engine builds is one the backend does not refuse  *)
(* as malformed, whatever path built it and whether or not the embedder    *)
(* answered (WriteTransaction::is_valid).                                  *)
TransactionsAreValid ==
  \A c \in Callers : \A t \in mem[c].txn \cup mem[c].last :
    /\ IsValid(t) /\ t.scope = req[c].scope
    /\ \A w \in t.upsert : Paired(w)

(* Types, and transactions the backend does not refuse. *)
EngineInv == EngineTypeOK /\ TransactionsAreValid

(* What a forget or a purge reported removed is never seen again, unless   *)
(* an import brings it back.                                               *)
ErasedStaysErased == \A r \in items : r.id \notin erased

(* The audit rows a step files, by event; those an import brings were      *)
(* minted elsewhere.                                                       *)
Filed(e) == {a \in audit' : a.event = e /\ a.id > minted}
Survives(r) == \E q \in items' : q.id = r.id /\ q.scope = r.scope

(* A pinned item goes only by an explicit forget or by a purge of its      *)
(* subject: never by admission, maintenance or consolidation.              *)
PinnedSurvive ==
  [][\A r \in items : r.meta.prot = Never /\ ~Survives(r) =>
       \/ \E a \in Filed("Forgotten") : a.scope = r.scope /\ r.id \in a.items
       \/ \E a \in Filed("SubjectPurged") : SubjectOf(a.scope) = SubjectOf(r.scope)]_engineVars

Within(c) == ~WouldExceed(c, 0, 0)

(* A scope within its budget is not taken over it unless the budget is     *)
(* changed, an admission is merged into a row (its Merged row names none)  *)
(* or an import brings rows in (it mints no audit id in that step): what   *)
(* is admitted fits, in items and in bytes, after the evictions of the     *)
(* same transaction, and what maintenance does takes no more room.         *)
BudgetKept ==
  [][\A s \in Scopes :
       capacity'[s].budget = capacity[s].budget /\ Within(capacity[s]) =>
         \/ Within(capacity'[s])
         \/ minted' = minted
         \/ \E a \in Filed("Merged") : a.scope = s /\ a.items = {}]_engineVars

(* The protection of an item changes only with an Admitted row that names  *)
(* it (Engine::protect, "the only path that changes protection outside     *)
(* admission"); and an item that came in otherwise, by an import, comes in *)
(* protected for no longer than an admission would have it.                *)
ProtectionIsExplicit ==
  [][\A q \in items' :
       \/ \E r \in items : r.id = q.id /\ r.scope = q.scope /\ r.meta.prot = q.meta.prot
       \/ q.id \notin Ids(items) /\ q.meta.prot =< now + 1
       \/ \E a \in Filed("Admitted") : a.scope = q.scope /\ q.id \in a.items]_engineVars

Facts(rows, s) == UNION {r.body : r \in InScope(rows, s)}

(* Maintenance that folds an item into another loses no fact of the scope. *)
ConsolidationKeepsContent ==
  [][\A a \in Filed("Merged") :
       a.items # {} => Facts(items, a.scope) \subseteq Facts(items', a.scope)]_engineVars

(* A run of maintenance leaves no unprotected item whose ttl ended before  *)
(* the first instant, and none at all while its scope is over its budget:  *)
(* unless a pinned item's ttl has ended, whose room it counts as freed.    *)
MaintenanceReclaims ==
  [][\A a \in Filed("MaintenanceRun") :
       \A r \in InScope(items', a.scope) : r.meta.prot = 0 =>
         /\ r.meta.expires # 0
         /\ \/ Within(capacity'[a.scope])
            \/ \E q \in InScope(items', a.scope) : q.meta.prot = Never /\ MustForget(q)]_engineVars

(* All the answers given to one key are answers of one write: retries,     *)
(* also concurrent ones and those of dropped calls, admit at most once and *)
(* are told the same action, but for a merge, which a retry is told as a   *)
(* retain (replayed_outcome).  An answer that names no item (a rejection   *)
(* filed without the key) aside.                                           *)
RetriesAdmitOnce ==
  \A o, p \in outcomes :
    /\ o.scope = p.scope /\ o.key = p.key /\ o.item # {} /\ p.item # {}
    => /\ o.item = p.item /\ o.audit = p.audit
       /\ o.action = p.action \/ {o.action, p.action} = {"Merge", "Retain"}

(* Every call that is not dropped returns.                                 *)
CallsEnd == \A c \in Callers : ~At(c, "idle") ~> At(c, "idle")

=============================================================================
