-------------------------------- MODULE Service --------------------------------
(***************************************************************************)
(* The processes around one tenant file: HTTP servers, MCP servers over    *)
(* stdio and runs of the command line, each with an engine of its own      *)
(* built from msafe.toml, and their callers.  Who a caller is and which    *)
(* scope it reaches (crates auth, api, mcp, cli), the tenant's settings    *)
(* and the audit of changing them (engine), the keys in the file (cli).    *)
(*                                                                         *)
(* A call begins with its checks, up to its first await; every further     *)
(* step is what runs between two awaits.  What a remember decides is       *)
(* module Engine's: here it admits one item.  Requests for other tenants   *)
(* end in other files and are left out once they are known as such.        *)
(***************************************************************************)
EXTENDS Store

CONSTANTS
  Stored,          \* items the tenant's file has at the start
  Logged,          \* its audit rows
  Home,            \* the tenant whose file this is
  Tenants,
  Processes,
  TransportOf,     \* "http", "stdio" or "cli"
  FirstUp,         \* those running at the start
  Operator,        \* subject the configuration names
  Directories,     \* what slug makes of the directories stdio is served from
  FirstKeys,       \* key records in msafe.toml at the start
  NewKeys,         \* key records `msafe keys add` generates
  Presented,       \* credentials callers present: id and secret
  Requests,        \* what they ask for: credential, namespace, header, export flags
  Resources,       \* URIs they read: tenant, subject, namespace
  FirstProfile,    \* retention profile in msafe.toml at the start
  Configs,         \* policy configurations callers put, by name
  ConfigOf,        \* their thresholds, in percent, and protection window
  ProfilesPut,     \* retention profiles they put
  Callers,         \* calls under way at most
  MaxCalls,        \* bound: calls begun
  MaxStarts,       \* bound: processes started
  MaxEdits         \* bound: edits of msafe.toml by hand

Reserved == {"_admin", "_purged"}
Fallback == "default"
AdminScope == <<"_admin", "_admin">>

Profiles == {"balanced", "gdpr_strict", "hipaa_retain", "forensic"}

KeyRecord ==
  [id : {k.id : k \in FirstKeys \cup NewKeys}, tenant : Tenants, subject : Subjects,
   default : AtMostOne(Namespaces), secret : {k.secret : k \in FirstKeys \cup NewKeys},
   disabled : BOOLEAN]

KeyIds == {k.id : k \in FirstKeys \cup NewKeys}

(* The columns of an audit row: its actor, whether it carries a policy's   *)
(* decision, and the setting it records.                                   *)
AuditColumns ==
  [actor : KeyIds \cup {"agent", "cli", "system"}, decided : BOOLEAN,
   setting : {"none"} \cup Configs \cup Profiles]

ASSUME ServiceAssumption ==
  /\ Stored \subseteq ItemRow /\ Logged \subseteq AuditRow
  /\ IsFiniteSet(Logged) /\ IsFiniteSet(Callers)
  \* days and policies are not told apart here, only rows without a policy
  /\ AuditMetas = AuditColumns
  /\ \A m \in AuditMetas : BucketOf[m] = IF m.decided THEN "decided" ELSE "undecided"
  /\ \A q \in Stored : {q.scope[1], q.scope[2]} \cap Reserved = {}
  /\ \A a \in Logged : a.id < 0 /\ {a.scope[1], a.scope[2]} \cap Reserved = {}
  /\ Home \in Tenants
  /\ Operator \in Subjects \ Reserved
  /\ TransportOf \in [Processes -> {"http", "stdio", "cli"}]
  /\ FirstProfile \in Profiles
  /\ ProfilesPut \subseteq Profiles \* RetentionProfile::from_name knows no other
  /\ {AdminScope} \subseteq Scopes /\ "_purged" \in Namespaces
  /\ "none" \notin Configs
  \* the id of a generated key is a ULID, new and no name of an actor
  /\ FirstKeys \cap NewKeys = {} /\ KeyIds \cap {"agent", "cli", "system"} = {}
  \* generate refuses a reserved subject, keys add a reserved namespace
  /\ \A k \in FirstKeys \cup NewKeys :
       k \in KeyRecord /\ ({k.subject} \cup k.default) \cap Reserved = {}
  /\ \A k, q \in FirstKeys \cup NewKeys : k.id = q.id => k = q

VARIABLES
  file,       \* msafe.toml: keys, retention
  running,    \* the processes: what they loaded, and the registries of overrides
  calls,      \* calls under way
  newest,     \* history: settings last audited through each process since its start
  raced,      \* history: processes in which two settings overlapped, or one was cut
  changes,    \* history: ceilings changed and streams imported, by the row they owe
  lost,       \* history: of these, calls cut before they were audited
  shown,      \* history: the actor of the last read or export, the scopes it was
              \* shown rows of, and for an export the ids handed out when it began
  added,      \* history: ids of keys `keys add` reported stored
  overtook,   \* history: a save wrote over a file changed since it was loaded
  brought,    \* history: the rows imports brought in, and how many for the aggregates
  count       \* calls begun, processes started, edits made

serviceVars ==
  <<vars, file, running, calls, newest, raced, changes, lost, shown, added, overtook, brought,
    count>>
histories == <<newest, raced, changes, lost, shown, added, overtook, brought>>

Idle == [at |-> "idle"]
Down == [up |-> FALSE]
NoSetting == [policy |-> {}, retention |-> {}]

(* The rows written in a transaction of their own, after what they record. *)
Afterwards == {"PolicyChanged", "Imported"}

Undecided(e) == <<"undecided", e>>

HowMany(rows, e) == Cardinality({a \in rows : KeyOf(a) = Undecided(e)})

Starting(dir) ==
  [up |-> TRUE, keys |-> file.keys, default |-> file.retention, policy |-> {},
   retention |-> {}, dir |-> dir, served |-> FALSE]

ServiceInit ==
  /\ items = Stored
  /\ vectors = {[id |-> q.id, scope |-> q.scope, of |-> q.body] : q \in {x \in Stored : ~x.pending}}
  /\ capacity = [s \in Scopes |->
       [budget |-> Unbounded, items |-> Cardinality(InScope(Stored, s)),
        bytes |-> TotalCharge(InScope(Stored, s))]]
  /\ audit = Logged
  /\ aggregates = [k \in AggregateKeys |-> Cardinality({a \in Logged : KeyOf(a) = k})]
  /\ idempotency = {}
  /\ minted = 0
  /\ file = [keys |-> FirstKeys, retention |-> FirstProfile]
  /\ running = [p \in Processes |-> IF p \in FirstUp THEN Starting(Fallback) ELSE Down]
  /\ calls = [c \in Callers |-> Idle]
  /\ newest = [p \in Processes |-> NoSetting]
  /\ raced = {}
  /\ changes = [e \in Afterwards |-> 0]
  /\ lost = [e \in Afterwards |-> 0]
  /\ shown = {}
  /\ added = {}
  /\ overtook = FALSE
  /\ brought = [items |-> {}, audits |-> {}, counts |-> [e \in Afterwards |-> 0]]
  /\ count = [calls |-> 0, starts |-> 0, edits |-> 0]

-----------------------------------------------------------------------------
(* Who is calling, and which scope that reaches.                           *)

CheckReserved(names) == names \cap Reserved = {}

(* Variant: a disabled key is let in. *)
AuthenticateDisabled(keys, shownKey) ==
  {k \in keys : k.id = shownKey.id /\ k.secret = shownKey.secret}

Authenticate(keys, shownKey) ==
  {k \in keys : k.id = shownKey.id /\ k.secret = shownKey.secret /\ ~k.disabled}

SameTenant(k, tenant) == k.tenant = tenant

(* The call's argument, the connection's header, the credential's default; *)
(* a reserved one among the first two refuses the call.                    *)
PickNamespace(call, header, default) ==
  CASE call # {} -> {n \in call : CheckReserved({n})}
    [] call = {} /\ header # {} -> {n \in header : CheckReserved({n})}
    [] call = {} /\ header = {} -> IF default # {} THEN default ELSE {Fallback}

Reached(tenant, subject, namespace, actor) ==
  [tenant |-> tenant, scope |-> <<subject, namespace>>, actor |-> actor]

ApiKeyScope(p, credential, namespace, header) ==
  UNION {{Reached(k.tenant, k.subject, n, k.id) :
            n \in {x \in PickNamespace(namespace, header, k.default) :
                     CheckReserved({k.subject, x})}}
         : k \in Authenticate(running[p].keys, credential)}

FixedScope(p, namespace) ==
  {Reached(Home, Operator, n, "agent") : n \in PickNamespace(namespace, {}, {running[p].dir})}

(* The flags of a command. *)
CommandScope(namespace) ==
  {Reached(Home, Operator, n, "cli") : n \in {x \in namespace : CheckReserved({Operator, x})}}

Resolve(p, r) ==
  CASE TransportOf[p] = "http" -> ApiKeyScope(p, r.credential, r.namespace, r.header)
    [] TransportOf[p] = "stdio" -> FixedScope(p, r.namespace)
    [] TransportOf[p] = "cli" -> CommandScope(r.namespace)

(* Variant: the scope is the one the URI names. *)
ScopeOfUri(p, r, uri) ==
  {[x EXCEPT !.scope = <<uri.subject, uri.namespace>>] :
     x \in Resolve(p, [r EXCEPT !.namespace = {uri.namespace}])}

(* read_resource: the URI's namespace is the call's argument; its tenant   *)
(* and subject must be those the credential reaches.                       *)
ResourceScope(p, r, uri) ==
  {x \in Resolve(p, [r EXCEPT !.namespace = {uri.namespace}]) :
     x.tenant = uri.tenant /\ x.scope[1] = uri.subject}

-----------------------------------------------------------------------------
(* The processes and msafe.toml.                                           *)

(* slug answers "default" for `_admin` and not for `_purged`, which        *)
(* FixedScope::new then refuses: that server does not start.               *)
Slug(dir) == IF dir = "_admin" THEN Fallback ELSE dir

Start(p) ==
  /\ ~running[p].up
  /\ count.starts < MaxStarts
  /\ count' = [count EXCEPT !.starts = @ + 1]
  /\ \E dir \in IF TransportOf[p] = "stdio" THEN {Slug(d) : d \in Directories} ELSE {Fallback} :
       /\ CheckReserved({dir})
       /\ running' = [running EXCEPT ![p] = Starting(dir)]
  /\ UNCHANGED <<vars, file, calls, histories>>

Unaudited(e) == {c \in Callers : calls[c].at = "record" /\ calls[c].event = e}

(* A process ends, in the middle of anything: the overrides go with it.    *)
Crash(p) ==
  LET gone == {c \in Callers : calls[c] # Idle /\ calls[c].server = p} IN
  /\ running[p].up
  /\ running' = [running EXCEPT ![p] = Down]
  /\ calls' = [c \in Callers |-> IF c \in gone THEN Idle ELSE calls[c]]
  /\ newest' = [newest EXCEPT ![p] = NoSetting]
  /\ raced' = raced \ {p}
  /\ lost' = [e \in Afterwards |-> lost[e] + Cardinality(gone \cap Unaudited(e))]
  /\ UNCHANGED <<vars, file, changes, shown, added, overtook, brought, count>>

(* Variant: the keys that were there are left out. *)
SavedAlone(p, k) == [keys |-> {k}, retention |-> running[p].default]

(* keys::run saves the configuration it loaded, with one key more. *)
Saved(p, k) == [keys |-> running[p].keys \cup {k}, retention |-> running[p].default]

KeysAdd(p) ==
  /\ running[p].up /\ TransportOf[p] = "cli" /\ ~running[p].served
  /\ \E k \in NewKeys :
       /\ k.id \notin added
       /\ file' = Saved(p, k)
       /\ added' = added \cup {k.id}
  /\ overtook' = (overtook \/ file # [keys |-> running[p].keys, retention |-> running[p].default])
  /\ running' = [running EXCEPT ![p].served = TRUE]
  /\ UNCHANGED <<vars, calls, newest, raced, changes, lost, shown, brought, count>>

(* `disabled`, of a key of this tenant, and `retention` are changed in an  *)
(* editor.                                                                 *)
Edit ==
  /\ count.edits < MaxEdits
  /\ count' = [count EXCEPT !.edits = @ + 1]
  /\ \/ \E k \in file.keys :
          /\ SameTenant(k, Home) /\ ~k.disabled
          /\ file' = [file EXCEPT !.keys = (@ \ {k}) \cup {[k EXCEPT !.disabled = TRUE]}]
     \/ \E r \in ProfilesPut \ {file.retention} : file' = [file EXCEPT !.retention = r]
  /\ UNCHANGED <<vars, running, calls, histories>>

-----------------------------------------------------------------------------
(* Calls.                                                                  *)

(* A run of the command line makes one call. *)
Begun(c, call) ==
  /\ calls[c] = Idle
  /\ running[call.server].up
  /\ TransportOf[call.server] = "cli" => ~running[call.server].served
  /\ count.calls < MaxCalls
  /\ count' = [count EXCEPT !.calls = @ + 1]
  /\ running' = [running EXCEPT ![call.server].served = (TransportOf[call.server] = "cli")]
  /\ calls' = [calls EXCEPT ![c] = call]
  /\ shown' = {}
  /\ UNCHANGED <<vars, file, newest, raced, changes, lost, added, overtook, brought>>

Meta(actor, decided, setting) == [actor |-> actor, decided |-> decided, setting |-> setting]

Record(scope, event, m) ==
  [scope |-> scope, upsert |-> {}, merge |-> {}, evictions |-> {}, auditScope |-> scope,
   event |-> event, refs |-> {}, auditMeta |-> m, key |-> {},
   digest |-> CHOOSE b \in Bodies : TRUE]

Returned(c) == calls' = [calls EXCEPT ![c] = Idle]

Showing(c, scopes, since) == {<<calls[c].actor, s, since>> : s \in scopes}

(* remember: the scope and the actor are those of the credential. *)
BeginRemember(c) ==
  \E p \in Processes, r \in Requests :
    /\ running[p].up
    /\ \E x \in Resolve(p, r) :
         /\ x.tenant = Home
         /\ Begun(c, [kind |-> "remember", at |-> "apply", server |-> p,
                      scope |-> x.scope, actor |-> x.actor])

Remember(c) ==
  /\ calls[c].at = "apply"
  /\ Mint
  /\ \E id \in ItemIds \ Ids(items), b \in Bodies, m \in Metas :
       Apply([Record(calls[c].scope, "Admitted", Meta(calls[c].actor, TRUE, "none")) EXCEPT
                !.refs = {id},
                !.upsert = {[id |-> id, scope |-> calls[c].scope, body |-> b, tags |-> {},
                             meta |-> m, pending |-> FALSE, embedded |-> TRUE]}],
             minted + 1)
  /\ Returned(c)
  /\ UNCHANGED <<file, running, histories, count>>

(* recall, review, get, audit and stats of a scope; an MCP resource.       *)
BeginRead(c) ==
  \E p \in Processes, r \in Requests :
    /\ running[p].up
    /\ \E x \in Resolve(p, r) \cup UNION {ResourceScope(p, r, u) : u \in Resources} :
         /\ x.tenant = Home
         /\ Begun(c, [kind |-> "read", at |-> "read", server |-> p,
                      scope |-> x.scope, actor |-> x.actor])

Read(c) ==
  /\ calls[c].at = "read"
  /\ shown' = Showing(c, {r.scope : r \in InScope(audit, calls[c].scope) \cup
                                          InScope(items, calls[c].scope)}, {})
  /\ Returned(c)
  /\ UNCHANGED <<vars, file, running, newest, raced, changes, lost, added, overtook, brought,
                 count>>

-----------------------------------------------------------------------------
(* The tenant's policy and retention.                                      *)

InUnit(n) == n \in 0..100

Century == 36500 \* days

(* settings::validate *)
ValidConfig(name) ==
  LET g == ConfigOf[name] IN
  /\ InUnit(g.duplicate) /\ InUnit(g.merge) /\ InUnit(g.floor)
  /\ g.floor =< g.merge /\ g.merge =< g.duplicate
  /\ g.window \in 0..Century

SettingsPut ==
  {[kind |-> "policy", to |-> n] : n \in {x \in Configs : ValidConfig(x)}} \cup
  {[kind |-> "retention", to |-> r] : r \in ProfilesPut}

BeginSetting(c) ==
  \E p \in Processes, shownKey \in Presented, tenant \in Tenants, s \in SettingsPut :
    /\ running[p].up /\ TransportOf[p] = "http"
    /\ \E k \in Authenticate(running[p].keys, shownKey) :
         /\ SameTenant(k, tenant)
         /\ tenant = Home
         /\ Begun(c, [kind |-> s.kind, at |-> "audit", server |-> p, to |-> s.to,
                      actor |-> k.id])

SameSetting(c, d) ==
  /\ calls[c] # Idle /\ calls[d] # Idle
  /\ calls[d].server = calls[c].server /\ calls[d].kind = calls[c].kind

Installing(p) == {d \in Callers : calls[d].at = "install" /\ calls[d].server = p}

(* record_admin_event, under the reserved scope; a purge that has read its *)
(* cascade goes on with what it read.                                      *)
AuditSetting(c) ==
  LET p == calls[c].server IN
  /\ calls[c].at = "audit"
  /\ Mint
  /\ Apply(Record(AdminScope, "PolicyChanged", Meta(calls[c].actor, TRUE, calls[c].to)),
           minted + 1)
  /\ newest' = [newest EXCEPT ![p][calls[c].kind] = {calls[c].to}]
  /\ raced' = IF \E d \in Installing(p) : SameSetting(c, d) THEN raced \cup {p} ELSE raced
  /\ calls' = [d \in Callers |->
       IF d = c THEN [calls[c] EXCEPT !.at = "install"]
       ELSE IF calls[d].at = "purge" /\ calls[d].server = p
       THEN [calls[d] EXCEPT !.superseded = TRUE] ELSE calls[d]]
  /\ UNCHANGED <<file, running, changes, lost, shown, added, overtook, brought, count>>

(* Variant: an override that is there stays. *)
InsertedOnce(registry, value) == IF registry = {} THEN {value} ELSE registry

InsertedOver(registry, value) == {value}

Install(c) ==
  LET call == calls[c] IN
  /\ call.at = "install"
  /\ running' = [running EXCEPT ![call.server][call.kind] = InsertedOver(@, call.to)]
  /\ Returned(c)
  /\ UNCHANGED <<vars, file, histories, count>>

-----------------------------------------------------------------------------
(* A namespace's ceiling: the change, then its audit row.                  *)

BeginBudget(c) ==
  \E p \in Processes, r \in Requests, tenant \in Tenants, b \in Budgets :
    /\ running[p].up /\ TransportOf[p] = "http"
    /\ \E k \in Authenticate(running[p].keys, r.credential) : SameTenant(k, tenant)
    /\ tenant = Home
    /\ \E x \in Resolve(p, r) :
         Begun(c, [kind |-> "budget", at |-> "ceiling", server |-> p, scope |-> x.scope,
                   actor |-> "system", to |-> b, event |-> "PolicyChanged"])

ChangeCeiling(c) ==
  /\ calls[c].at = "ceiling"
  /\ SetBudget(calls[c].scope, calls[c].to)
  /\ changes' = [changes EXCEPT !["PolicyChanged"] = @ + 1]
  /\ calls' = [calls EXCEPT ![c].at = "record"]
  /\ UNCHANGED <<minted, file, running, newest, raced, lost, shown, added, overtook, brought,
                 count>>

(* Variant: the row carries a decision, which its aggregate is keyed by. *)
BudgetMetaDecided(actor) == Meta(actor, TRUE, "none")

BudgetMeta(actor) == Meta(actor, FALSE, "none")

AuditBudget(c) ==
  /\ c \in Unaudited("PolicyChanged")
  /\ Mint
  /\ Apply(Record(calls[c].scope, "PolicyChanged", BudgetMeta(calls[c].actor)), minted + 1)
  /\ Returned(c)
  /\ UNCHANGED <<file, running, histories, count>>

-----------------------------------------------------------------------------
(* The purge of a subject: over HTTP the key's own, on the command line    *)
(* any that is not reserved.                                               *)

PurgeableSubjects == {j \in Subjects : CheckReserved({j})}

Purging(p, subject, actor) ==
  [kind |-> "purge", at |-> "namespaces", server |-> p, subject |-> subject, actor |-> actor]

BeginPurge(c) ==
  \E p \in Processes :
    /\ running[p].up
    /\ \/ /\ TransportOf[p] = "http"
          /\ \E shownKey \in Presented : \E k \in Authenticate(running[p].keys, shownKey) :
               k.tenant = Home /\ Begun(c, Purging(p, k.subject, k.id))
       \/ /\ TransportOf[p] = "cli"
          /\ \E j \in PurgeableSubjects : Begun(c, Purging(p, j, "cli"))

RetentionFor(p) ==
  IF running[p].retention = {} THEN running[p].default
  ELSE CHOOSE r \in running[p].retention : TRUE

(* RetentionProfile::retention *)
Cascades(profile) == profile \in {"balanced", "gdpr_strict"}

(* Variant: the engine's own profile. *)
CascadeOfDefault(p) == Cascades(running[p].default)

CascadeFor(p) == Cascades(RetentionFor(p))

(* purge_scope: one of the namespaces the subject has items in, or the     *)
(* reserved one.  The code takes the first by name.                        *)
MarkerNamespaces(j) ==
  IF OfSubject(items, j) = {} THEN {"_purged"}
  ELSE {q.scope[2] : q \in OfSubject(items, j)}

ReadNamespaces(c) ==
  LET p == calls[c].server IN
  /\ calls[c].at = "namespaces"
  /\ \E n \in MarkerNamespaces(calls[c].subject) :
       calls' = [calls EXCEPT ![c] =
         [kind |-> "purge", at |-> "purge", server |-> p, actor |-> @.actor,
          scope |-> <<@.subject, n>>, cascade |-> CascadeFor(p),
          superseded |-> Installing(p) # {}]]
  /\ UNCHANGED <<vars, file, running, histories, count>>

Purge(c) ==
  LET call == calls[c] IN
  /\ call.at = "purge"
  /\ Mint
  /\ PurgeSubject(call.scope[1], call.cascade, call.scope, minted + 1,
                  Meta(call.actor, FALSE, "none"))
  /\ Returned(c)
  /\ UNCHANGED <<file, running, histories, count>>

-----------------------------------------------------------------------------
(* An import, into any scope of the caller's tenant: its stream carries    *)
(* the scope of every row, and the actor, the event and the setting of     *)
(* every audit row, and only the tenant is compared.  Then its audit row.  *)

Importing(p, actor) ==
  [kind |-> "import", at |-> "import", server |-> p, actor |-> actor, event |-> "Imported",
   refs |-> {}]

BeginImport(c) ==
  \E p \in Processes :
    /\ running[p].up
    /\ \/ /\ TransportOf[p] = "http"
          /\ \E shownKey \in Presented : \E k \in Authenticate(running[p].keys, shownKey) :
               k.tenant = Home /\ Begun(c, Importing(p, k.id))
       \/ TransportOf[p] = "cli" /\ Begun(c, Importing(p, "cli"))

Brought(st) ==
  [items |-> brought.items \cup ImportedRows(st), audits |-> brought.audits \cup st.audits,
   counts |-> [e \in Afterwards |-> brought.counts[e] + HowMany(st.audits, e)]]

BringIn(c) ==
  /\ calls[c].at = "import"
  /\ \E st \in Streams :
       /\ ImportCommits(st)
       /\ Import(st)
       /\ brought' = Brought(st)
       /\ calls' = [calls EXCEPT ![c].at = "record", ![c].refs = Ids(st.items)]
  /\ changes' = [changes EXCEPT !["Imported"] = @ + 1]
  /\ UNCHANGED <<minted, file, running, newest, raced, lost, shown, added, overtook, count>>

RefuseImport(c) ==
  /\ calls[c].at = "import"
  /\ \E st \in Streams : ~ImportCommits(st)
  /\ Returned(c)
  /\ UNCHANGED <<vars, file, running, histories, count>>

AuditImport(c) ==
  /\ c \in Unaudited("Imported")
  /\ Mint
  /\ Apply([Record(AdminScope, "Imported", Meta(calls[c].actor, FALSE, "none")) EXCEPT
              !.refs = calls[c].refs], minted + 1)
  /\ Returned(c)
  /\ UNCHANGED <<file, running, histories, count>>

-----------------------------------------------------------------------------
(* An export: over HTTP of the key's own subject, all its namespaces or    *)
(* one that is not reserved; on the command line also of the whole tenant. *)
(* Read first, recorded next, answered last.                               *)

Selection(subject, namespace, actor) ==
  [subject |-> subject, namespace |-> namespace, actor |-> actor]

SelectionOfFlags(scope, flags) ==
  Selection(IF "allSubjects" \in flags THEN {} ELSE {scope[1]},
            IF flags \cap {"allSubjects", "allNamespaces"} # {} THEN {} ELSE {scope[2]}, "cli")

SelectionsOf(p, r) ==
  CASE TransportOf[p] = "http" ->
         {Selection({k.subject}, r.namespace, k.id) :
            k \in {x \in Authenticate(running[p].keys, r.credential) :
                     x.tenant = Home /\ CheckReserved(r.namespace)}}
    [] TransportOf[p] = "stdio" -> {}
    [] TransportOf[p] = "cli" ->
         {SelectionOfFlags(x.scope, r.flags) : x \in CommandScope(r.namespace)}

BeginExport(c) ==
  \E p \in Processes, r \in Requests :
    /\ running[p].up
    /\ \E x \in SelectionsOf(p, r) :
         Begun(c, [kind |-> "export", at |-> "export", server |-> p, actor |-> x.actor,
                   subject |-> x.subject, namespace |-> x.namespace,
                   includeAudit |-> "includeAudit" \in r.flags, scopes |-> {}, since |-> minted])

(* The scopes of what a selector selects, where it names one. *)
Selected(call) ==
  {r.scope : r \in {x \in items \cup (IF call.includeAudit THEN audit ELSE {}) :
     /\ call.subject # {} => x.scope[1] \in call.subject
     /\ call.namespace # {} => x.scope[2] \in call.namespace}}

(* Variant: the answer is given before the export is recorded. *)
ExportUnrecorded(c) ==
  /\ calls[c].at = "export"
  /\ shown' = Showing(c, Selected(calls[c]), {calls[c].since})
  /\ Returned(c)
  /\ UNCHANGED <<vars, file, running, newest, raced, changes, lost, added, overtook, brought,
                 count>>

Export(c) ==
  /\ calls[c].at = "export"
  /\ calls' = [calls EXCEPT ![c].at = "exported", ![c].scopes = Selected(calls[c])]
  /\ UNCHANGED <<vars, file, running, histories, count>>

AuditExport(c) ==
  /\ calls[c].at = "exported"
  /\ Mint
  /\ Apply(Record(AdminScope, "Exported", Meta(calls[c].actor, TRUE, "none")), minted + 1)
  /\ calls' = [calls EXCEPT ![c].at = "answer"]
  /\ UNCHANGED <<file, running, histories, count>>

(* The command line reads again, for the archive's Markdown, and does not  *)
(* record that.                                                            *)
AnswerExport(c) ==
  /\ calls[c].at = "answer"
  /\ shown' = Showing(c, calls[c].scopes \cup
                 (IF TransportOf[calls[c].server] = "cli" THEN Selected(calls[c]) ELSE {}),
                 {calls[c].since})
  /\ Returned(c)
  /\ UNCHANGED <<vars, file, running, newest, raced, changes, lost, added, overtook, brought,
                 count>>

-----------------------------------------------------------------------------
(* A call fails in the backend, or its client goes and it is dropped where *)
(* it awaits: what it has committed stays.                                 *)
Cut(c) ==
  /\ calls[c] # Idle
  /\ lost' = [e \in Afterwards |-> lost[e] + Cardinality({c} \cap Unaudited(e))]
  /\ raced' = IF calls[c].at = "install" THEN raced \cup {calls[c].server} ELSE raced
  /\ Returned(c)
  /\ UNCHANGED <<vars, file, running, newest, changes, shown, added, overtook, brought, count>>

Call(c) ==
  \/ BeginRemember(c) \/ Remember(c)
  \/ BeginRead(c) \/ Read(c)
  \/ BeginSetting(c) \/ AuditSetting(c) \/ Install(c)
  \/ BeginBudget(c) \/ ChangeCeiling(c) \/ AuditBudget(c)
  \/ BeginPurge(c) \/ ReadNamespaces(c) \/ Purge(c)
  \/ BeginImport(c) \/ BringIn(c) \/ RefuseImport(c) \/ AuditImport(c)
  \/ BeginExport(c) \/ Export(c) \/ AuditExport(c) \/ AnswerExport(c)
  \/ Cut(c)

ServiceNext ==
  \/ \E p \in Processes : Start(p) \/ Crash(p) \/ KeysAdd(p)
  \/ Edit
  \/ \E c \in Callers : Call(c)

ServiceSpec == ServiceInit /\ [][ServiceNext]_serviceVars

-----------------------------------------------------------------------------
(* Properties.                                                             *)

(* Types; and no configuration in force makes merging unreachable or hides *)
(* the neighbours it would cite (settings::validate).                      *)
ServiceTypeOK ==
  /\ file.keys \subseteq KeyRecord /\ file.retention \in Profiles
  /\ \A p \in Processes : running[p].up =>
       /\ running[p].policy \subseteq Configs
       /\ \A n \in running[p].policy :
            ConfigOf[n].floor =< ConfigOf[n].merge /\ ConfigOf[n].merge =< ConfigOf[n].duplicate
       /\ running[p].retention \subseteq Profiles
       /\ running[p].dir \notin Reserved
  /\ \A k, q \in file.keys : k.id = q.id => k = q

(* Whoever writes through a key holds one that its process loaded when it  *)
(* started, enabled and of this tenant, and writes for that key's subject  *)
(* only, but for the tenant's own rows and for what a stream carries       *)
(* (Authenticated::scope, same_tenant).  A stream may carry anything, and  *)
(* enters only by such a key or by the command line (ops::import).         *)
Holder(actor) == \E p \in Processes : running[p].up /\ \E k \in running[p].keys :
                   k.id = actor /\ ~k.disabled /\ k.tenant = Home

HolderFor(actor, subject) ==
  \E p \in Processes : running[p].up /\ \E k \in running[p].keys :
    k.id = actor /\ ~k.disabled /\ k.tenant = Home /\ k.subject = subject

ChangesAreAuthorised ==
  [][/\ \A a \in (audit' \ audit) \ brought'.audits : a.meta.actor \in KeyIds =>
          IF a.scope = AdminScope THEN Holder(a.meta.actor)
          ELSE HolderFor(a.meta.actor, SubjectOf(a.scope))
     /\ brought' # brought =>
          \E c \in Callers : calls[c].at = "import" /\ calls'[c].at = "record" /\
            (calls[c].actor = "cli" \/ Holder(calls[c].actor))]_serviceVars

(* What a caller is shown is its own subject's (read_resource,             *)
(* Authenticated::scope, ops::export); only an export leaves the reserved  *)
(* scopes in, and only the command line's leaves the subject.              *)
ReadsStayWithTheSubject ==
  \A s \in shown :
    /\ \A k \in FirstKeys \cup NewKeys : k.id = s[1] => s[2][1] = k.subject
    /\ s[3] = {} =>
         /\ CheckReserved({s[2][1], s[2][2]})
         /\ s[1] \in {"agent", "cli"} => s[2][1] = Operator

(* Whoever has been given an export is on record: the tenant's admin audit *)
(* has an Exported row in its name, written since it asked                 *)
(* (export_ndjson_as, export_markdown_as).                                 *)
ExportsAreAudited ==
  \A s \in shown : \A since \in s[3] :
    \E a \in audit : a.scope = AdminScope /\ a.event = "Exported" /\ a.meta.actor = s[1]
                     /\ a.id > since

(* The reserved scopes are the engine's: no item is in one, and no row but *)
(* those of settings, imports and exports and the markers of purges        *)
(* (check_reserved) - other than as an import brought them.                *)
ReservedScopesAreTheEngines ==
  /\ \A q \in items \ brought.items : CheckReserved({q.scope[1], q.scope[2]})
  /\ \A a \in audit \ brought.audits : ~CheckReserved({a.scope[1], a.scope[2]}) =>
       \/ /\ a.scope = AdminScope
          /\ \/ a.event = "PolicyChanged" /\ a.meta.setting # "none"
             \/ a.event \in {"Imported", "Exported"}
       \/ a.event = "SubjectPurged" /\ a.scope[1] \notin Reserved

(* Every override in force has its row in the tenant's admin audit, minted *)
(* here and not imported, which no purge removes (set_tenant_policy_config,*)
(* set_tenant_retention).                                                  *)
SettingsAreAudited ==
  \A p \in Processes : running[p].up =>
    \A s \in running[p].policy \cup running[p].retention :
      \E a \in audit : a.scope = AdminScope /\ a.meta.setting = s /\ a.id > 0

(* Callers keep to their scopes, and so does the engine: types, reads,     *)
(* reserved names and the rows of the settings.                            *)
ScopesAreKept ==
  ServiceTypeOK /\ ReadsStayWithTheSubject /\ ReservedScopesAreTheEngines /\ SettingsAreAudited

(* What is in force in a process is what was last audited through it since *)
(* it started, and nothing after a restart; but for two settings that      *)
(* overlap, whose last audit row may be the one that is not in force.      *)
SettingsFollowTheAudit ==
  \A p \in Processes \ raced : running[p].up /\ Installing(p) = {} =>
    [policy |-> running[p].policy, retention |-> running[p].retention] = newest[p]

(* A purge keeps or removes the subject's audit as the retention profile   *)
(* last audited through its process says, or the one in msafe.toml when    *)
(* the process started; but for a profile changed while it was under way.  *)
PurgeHonoursRetention ==
  [][\A c \in Callers :
       LET p == calls[c].server
           j == calls[c].scope[1]
           profile == IF newest[p].retention = {} THEN running[p].default
                      ELSE CHOOSE r \in newest[p].retention : TRUE IN
       (/\ calls[c].at = "purge" /\ calls'[c] = Idle
        /\ \E m \in audit' \ audit : m.event = "SubjectPurged"
        /\ p \notin raced /\ ~calls[c].superseded) =>
          IF profile \in {"hipaa_retain", "forensic"} THEN audit \subseteq audit'
          ELSE OfSubject(audit, j) \cap audit' = {}]_serviceVars

(* Every change of a ceiling and every import is counted in the            *)
(* aggregates, besides the rows imports bring and but for those whose call *)
(* is still to write its row, or was cut before it could (set_budget's     *)
(* doc; import_as).                                                        *)
ChangesAreCounted ==
  \A e \in Afterwards :
    changes[e] + brought.counts[e] + HowMany(Logged, e) =
      aggregates[Undecided(e)] + lost[e] + Cardinality(Unaudited(e))

(* A key in msafe.toml stays there and, once disabled, stays disabled: but *)
(* for a save that writes over a change made since it loaded the file      *)
(* (cmd::keys::run), no run of `keys add` undoes what another one did.     *)
KeysStay ==
  [][overtook' \/ \A k \in file.keys :
       \E q \in file'.keys : q.id = k.id /\ (k.disabled => q.disabled)]_serviceVars

=============================================================================
