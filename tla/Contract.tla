------------------------------- MODULE Contract -------------------------------
(***************************************************************************)
(* What a backend promises the engine (the trait `Backend`), whatever its  *)
(* tables are: memories, the audit log, the outcomes recorded for keys and *)
(* the budgets, of one tenant.  How full a scope reads is no state of its  *)
(* own here but a function of the memories, and what a vector search       *)
(* reaches of whatever a write touches is the body it has then; a backend  *)
(* that keeps them as state must keep them exact.                          *)
(***************************************************************************)
EXTENDS Integers, FiniteSets

CONSTANTS
  Scopes,          \* scopes of the tenant
  SubjectOf(_),    \* the subject of a scope
  TotalCharge(_),  \* the bytes a set of memories is charged
  Unbounded        \* the budget of a scope nobody has set one for

VARIABLES
  memories,   \* the memories there are: [id, scope, body, tags, meta, pending, access]
  usage,      \* how full each scope reads: [items, bytes]
  reach,      \* what a vector search may find: [id, scope, of], of being a body
  budgets,    \* the budget of each scope
  log,        \* the audit rows
  outcomes    \* the outcomes recorded for keys

cvars == <<memories, usage, reach, budgets, log, outcomes>>

Of(rows, s) == {r \in rows : r.scope = s}
OfOneSubject(rows, j) == {r \in rows : SubjectOf(r.scope) = j}

(* The reading is exact: the counts of the memories of each scope. *)
ExactUsage ==
  usage = [s \in Scopes |->
             [items |-> Cardinality({r.id : r \in Of(memories, s)}),
              bytes |-> TotalCharge(Of(memories, s))]]

(* Which bodies a vector search reaches under a memory's id; and the one   *)
(* it should, unless the embedding is pending.                             *)
Reached(rows, r) == {v.of : v \in {x \in rows : x.id = r.id}}
Now(r) == IF r.pending THEN {} ELSE {r.body}

(* A search reaches what there is: no forgotten id, nor another scope's.   *)
ReachesMemories == \A v \in reach : \E r \in memories : r.id = v.id /\ r.scope = v.scope

UniqueIds ==
  /\ \A q, r \in memories : q.id = r.id => q = r
  /\ \A u, v \in reach : u.id = v.id => u = v

CInit ==
  /\ memories = {} /\ ExactUsage /\ reach = {}
  /\ budgets = [s \in Scopes |-> Unbounded]
  /\ log = {} /\ outcomes = {}

(* One audit row is filed, and none goes. *)
Files(a) == a \notin log /\ log' = log \cup {a}

(* apply: what changes is of one scope and so is the one row filed; a      *)
(* memory whose row is replaced keeps its recalls, a new one has none; a   *)
(* search reaches what is written as it is now and the others as before;   *)
(* an outcome is recorded for a key that had none and names that row.      *)
Write ==
  \E a \in log' :
    /\ Files(a)
    /\ \A r \in memories \ memories' : r.scope = a.scope
    /\ \A q \in memories' \ memories :
         /\ q.scope = a.scope
         /\ \A r \in memories : r.id = q.id => r.scope = q.scope /\ r.access = q.access
         /\ (\A r \in memories : r.id # q.id) => q.access = 0
         /\ Reached(reach', q) = Now(q)
    /\ \A r \in memories \cap memories' : Reached(reach', r) \in {Reached(reach, r), Now(r)}
    /\ outcomes \subseteq outcomes'
    /\ \A p \in outcomes' \ outcomes :
         /\ p.scope = a.scope /\ p.outcome.audit = a.id
         /\ \A o \in outcomes : ~(o.scope = p.scope /\ o.key = p.key)
    /\ UNCHANGED budgets

(* record_recall: one more recall for each memory the filed row names that *)
(* is in its scope, and nothing else.                                      *)
Recall ==
  \E a \in log' :
    /\ Files(a) /\ a.event = "Recalled"
    /\ memories' = {IF r.scope = a.scope /\ r.id \in a.items
                    THEN [r EXCEPT !.access = @ + 1] ELSE r : r \in memories}
    /\ UNCHANGED <<reach, budgets, outcomes>>

(* set_budget: one scope's budget; it files nothing, the engine does. *)
SetBudgetOf ==
  /\ \E s \in Scopes : \A x \in Scopes \ {s} : budgets'[x] = budgets[x]
  /\ UNCHANGED <<memories, reach, log, outcomes>>

(* purge_subject: the subject is gone from everything; its audit rows stay *)
(* or all go, and the record of the purge stays.                           *)
Purge ==
  \E a \in log' :
    LET j == SubjectOf(a.scope) IN
    /\ a \notin log /\ a.event = "SubjectPurged"
    /\ log' \in {log \cup {a}, (log \ OfOneSubject(log, j)) \cup {a}}
    /\ memories' = memories \ OfOneSubject(memories, j)
    /\ reach' = reach \ OfOneSubject(reach, j)
    /\ outcomes' = outcomes \ OfOneSubject(outcomes, j)
    /\ budgets' = [s \in Scopes |-> IF SubjectOf(s) = j THEN Unbounded ELSE budgets[s]]

(* import: memories and audit rows come in under ids nothing has; what is  *)
(* there stays as it is.  What a search reaches of a memory that came is   *)
(* what came with it, one body or none, asked or not.                      *)
ImportInto ==
  /\ memories \subseteq memories' /\ log \subseteq log'
  /\ \A r \in memories : Reached(reach', r) = Reached(reach, r)
  /\ \A q \in memories' \ memories : q.access = 0 /\ \A r \in memories : r.id # q.id
  /\ \A a \in log' \ log : \A b \in log : b.id # a.id
  /\ UNCHANGED <<budgets, outcomes>>

CNext ==
  /\ Write \/ Recall \/ SetBudgetOf \/ Purge \/ ImportInto
  /\ ExactUsage' /\ ReachesMemories' /\ UniqueIds'

CSpec == CInit /\ [][CNext]_cvars
===============================================================================
