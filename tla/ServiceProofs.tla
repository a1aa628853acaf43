---------------------------- MODULE ServiceProofs ----------------------------
(***************************************************************************)
(* Proofs about the processes around a tenant file: for any keys, requests *)
(* and processes, calls under way and crashes, callers keep to the scopes  *)
(* of their credentials but for what a stream carries, exports are on      *)
(* record, what is in force and what a purge does follow the settings'     *)
(* audit, and every change of a ceiling and every import is counted.       *)
(***************************************************************************)
EXTENDS Service, FiniteSetTheorems, TLAPS

-----------------------------------------------------------------------------
(* The inductive invariant.                                                *)

Open(scope) == {scope[1], scope[2]} \cap Reserved = {}

(* Keys as they were generated, whatever has been disabled since.          *)
Genuine(keys) ==
  /\ keys \subseteq KeyRecord
  /\ \A k \in keys : \E q \in FirstKeys \cup NewKeys :
       /\ k.id = q.id /\ k.subject = q.subject /\ k.default = q.default
       /\ q \in FirstKeys \/ q.id \in added
  /\ \A k, q \in keys : k.id = q.id => k = q

(* A usable key of this tenant that process p has loaded. *)
Loaded(p, k) == k \in running[p].keys /\ ~k.disabled /\ k.tenant = Home

Entitled(p, actor, subject) ==
  \/ actor \in {"agent", "cli"} /\ subject = Operator
  \/ \E k \in running[p].keys : Loaded(p, k) /\ k.id = actor /\ subject = k.subject

AuditedSetting(s) == \E a \in audit : a.scope = AdminScope /\ a.meta.setting = s /\ a.id > 0

RecordedExport(actor, since) ==
  \E a \in audit : a.scope = AdminScope /\ a.event = "Exported" /\ a.meta.actor = actor
                   /\ a.id > since

FileOK == /\ file = [keys |-> file.keys, retention |-> file.retention]
          /\ Genuine(file.keys) /\ file.retention \in Profiles

UpProcess == [up : {TRUE}, keys : SUBSET KeyRecord, default : Profiles,
              policy : SUBSET Configs, retention : SUBSET Profiles,
              dir : Directories \cup {Fallback}, served : BOOLEAN]

ProcessOK(p) ==
  running[p] = Down \/
    /\ running[p] \in UpProcess
    /\ Genuine(running[p].keys) /\ running[p].dir \notin Reserved
    /\ \A n \in running[p].policy : ValidConfig(n)
    /\ \A s \in running[p].policy \cup running[p].retention : AuditedSetting(s)

ProcessesOK == running \in [Processes -> {Down} \cup UpProcess] /\ \A p \in Processes : ProcessOK(p)

(* What is known of a call at each of its stages. *)
Reaching(call) ==
  /\ call.at \in {"apply", "read"}
  /\ Entitled(call.server, call.actor, SubjectOf(call.scope)) /\ Open(call.scope)

Setting(call) ==
  /\ call = [kind |-> call.kind, at |-> call.at, server |-> call.server, to |-> call.to,
             actor |-> call.actor]
  /\ call.at \in {"audit", "install"}
  /\ \/ call.kind = "policy" /\ call.to \in Configs /\ ValidConfig(call.to)
     \/ call.kind = "retention" /\ call.to \in Profiles
  /\ \E k \in running[call.server].keys : Loaded(call.server, k) /\ k.id = call.actor
  /\ call.at = "install" => AuditedSetting(call.to)

Budgeting(call) ==
  /\ call = [kind |-> call.kind, at |-> call.at, server |-> call.server, scope |-> call.scope,
             actor |-> call.actor, to |-> call.to, event |-> call.event]
  /\ call.at \in {"ceiling", "record"} /\ call.event = "PolicyChanged"
  /\ call.actor = "system" /\ Open(call.scope)

KeyOrCommand(p, actor) ==
  actor = "cli" \/ \E k \in running[p].keys : Loaded(p, k) /\ k.id = actor

ImportStage(call) ==
  /\ call = [kind |-> call.kind, at |-> call.at, server |-> call.server, actor |-> call.actor,
             event |-> call.event, refs |-> call.refs]
  /\ call.at \in {"import", "record"} /\ call.event = "Imported"
  /\ KeyOrCommand(call.server, call.actor)

(* A key exports its own subject. *)
EntitledToExport(p, actor, subject) ==
  \/ actor = "cli"
  \/ \E k \in running[p].keys : Loaded(p, k) /\ k.id = actor /\ subject = {k.subject}

ExportStage(call) ==
  /\ call = [kind |-> call.kind, at |-> call.at, server |-> call.server, actor |-> call.actor,
             subject |-> call.subject, namespace |-> call.namespace,
             includeAudit |-> call.includeAudit, scopes |-> call.scopes, since |-> call.since]
  /\ call.at \in {"export", "exported", "answer"}
  /\ EntitledToExport(call.server, call.actor, call.subject)
  /\ call.subject # {} => \A s \in call.scopes : s[1] \in call.subject
  /\ call.since \in Nat /\ call.since =< minted
  /\ call.at = "answer" => RecordedExport(call.actor, call.since)

EntitledToPurge(p, actor, subject) ==
  /\ subject \notin Reserved
  /\ actor = "cli" \/ Entitled(p, actor, subject)

PurgeStage(call) ==
  \/ call.at = "namespaces" /\ EntitledToPurge(call.server, call.actor, call.subject)
  \/ /\ call = [kind |-> call.kind, at |-> call.at, server |-> call.server,
                actor |-> call.actor, scope |-> call.scope, cascade |-> call.cascade,
                superseded |-> call.superseded]
     /\ call.at = "purge" /\ EntitledToPurge(call.server, call.actor, SubjectOf(call.scope))

CallOK(call) ==
  call = Idle \/
    /\ call.server \in Processes /\ running[call.server].up
    /\ \/ Reaching(call) \/ Setting(call) \/ Budgeting(call) \/ PurgeStage(call)
       \/ ImportStage(call) \/ ExportStage(call)

CallsOK == calls = [c \in Callers |-> calls[c]] /\ \A c \in Callers : CallOK(calls[c])

Apart == ReadsStayWithTheSubject /\ ReservedScopesAreTheEngines /\ ExportsAreAudited

ServiceInv ==
  /\ FileOK /\ ProcessesOK /\ CallsOK /\ minted \in Nat
  /\ Apart

(* The tenant's own rows are never lost, and ids are not handed out again. *)
AdminRowsKept ==
  /\ \A a \in audit : a.scope = AdminScope => a \in audit'
  /\ minted \in Nat /\ minted' \in Nat /\ minted' >= minted

-----------------------------------------------------------------------------
(* Frames: what stays true of the processes and the calls when the tables  *)
(* change under them.                                                      *)

LEMMA GenuineStays ==
  ASSUME NEW keys, Genuine(keys), added \subseteq added' PROVE Genuine(keys)'
  BY DEF Genuine

LEMMA ProcessesStay ==
  ASSUME ProcessesOK, UNCHANGED running, added \subseteq added', AdminRowsKept
  PROVE  ProcessesOK'
<1>1. ASSUME NEW p \in Processes PROVE ProcessOK(p)'
  <2>1. ProcessOK(p) BY DEF ProcessesOK
  <2>2. CASE running[p] = Down BY <2>2 DEF ProcessOK
  <2>3. CASE running[p] # Down
    <3>1. Genuine(running[p].keys)' BY <2>1, <2>3, GenuineStays DEF ProcessOK, Genuine
    <3>2. \A s : AuditedSetting(s) => AuditedSetting(s)' BY DEF AuditedSetting, AdminRowsKept
    <3> QED BY <2>1, <2>3, <3>1, <3>2 DEF ProcessOK
  <2> QED BY <2>2, <2>3
<1> QED BY <1>1 DEF ProcessesOK

(* What holds of a call holds of the caller that now makes it. *)
LEMMA CallIsOK ==
  ASSUME NEW d, NEW call, calls'[d] = call, CallOK(call)' PROVE CallOK(calls[d])'
<1>1. Reaching(call)' => Reaching(calls[d])' BY DEF Reaching, Entitled, Loaded
<1>2. Setting(call)' => Setting(calls[d])' BY DEF Setting, Loaded, AuditedSetting
<1>3. Budgeting(call)' => Budgeting(calls[d])' BY DEF Budgeting
<1>4. PurgeStage(call)' => PurgeStage(calls[d])'
  BY DEF PurgeStage, EntitledToPurge, Entitled, Loaded
<1>5. ImportStage(call)' => ImportStage(calls[d])' BY DEF ImportStage, KeyOrCommand, Loaded
<1>6. ExportStage(call)' => ExportStage(calls[d])'
  BY DEF ExportStage, EntitledToExport, Loaded, RecordedExport
<1> QED BY <1>1, <1>2, <1>3, <1>4, <1>5, <1>6 DEF CallOK

LEMMA CallStays ==
  ASSUME NEW call, CallOK(call), AdminRowsKept,
         call # Idle => /\ running'[call.server].up
                        /\ running'[call.server].keys = running[call.server].keys
  PROVE  CallOK(call)'
<1>1. CASE call = Idle BY <1>1 DEF CallOK
<1>2. CASE call # Idle
  <2>1. \A k : Loaded(call.server, k) => Loaded(call.server, k)' BY <1>2 DEF Loaded
  <2>2. \A a, j : Entitled(call.server, a, j) => Entitled(call.server, a, j)'
    BY <1>2, <2>1 DEF Entitled
  <2>3. \A s : AuditedSetting(s) => AuditedSetting(s)' BY DEF AuditedSetting, AdminRowsKept
  <2>4. Reaching(call) => Reaching(call)' BY <2>2 DEF Reaching
  <2>5. Setting(call) => Setting(call)' BY <1>2, <2>1, <2>3 DEF Setting
  <2>6. Budgeting(call) => Budgeting(call)' BY DEF Budgeting
  <2>7. PurgeStage(call) => PurgeStage(call)' BY <2>2 DEF PurgeStage, EntitledToPurge
  <2>8. ImportStage(call) => ImportStage(call)' BY <1>2, <2>1 DEF ImportStage, KeyOrCommand
  <2>9. \A a, n : RecordedExport(a, n) => RecordedExport(a, n)'
    BY DEF RecordedExport, AdminRowsKept
  <2>10. ExportStage(call) => ExportStage(call)'
    <3> SUFFICES ASSUME ExportStage(call) PROVE ExportStage(call)' OBVIOUS
    <3>1. call.since \in Nat /\ call.since =< minted' BY DEF ExportStage, AdminRowsKept
    <3>2. EntitledToExport(call.server, call.actor, call.subject)'
      BY <1>2, <2>1 DEF ExportStage, EntitledToExport
    <3> QED BY <2>9, <3>1, <3>2 DEF ExportStage
  <2> QED BY <1>2, <2>4, <2>5, <2>6, <2>7, <2>8, <2>10 DEF CallOK
<1> QED BY <1>1, <1>2

(* A caller returns, or goes on, and the others stay as they are.          *)
LEMMA CallsStay ==
  ASSUME CallsOK, AdminRowsKept, UNCHANGED running, NEW c \in Callers, NEW next,
         calls' = [calls EXCEPT ![c] = next], CallOK(next)'
  PROVE  CallsOK'
<1>1. \A d \in Callers : CallOK(calls[d])' \/ d = c
  BY CallStays DEF CallsOK, CallOK
<1> QED BY <1>1 DEF CallsOK

(* A call's stage tells what is known of it. *)
LEMMA StageIs ==
  ASSUME ServiceInv, NEW c \in Callers, calls[c].at # "idle"
  PROVE  /\ calls[c] # Idle /\ CallOK(calls[c])
         /\ calls[c].server \in Processes /\ running[calls[c].server].up
         /\ calls[c].at \in {"apply", "read"} => Reaching(calls[c])
         /\ calls[c].at \in {"audit", "install"} => Setting(calls[c])
         /\ calls[c].at = "ceiling" => Budgeting(calls[c])
         /\ calls[c].at = "record" /\ calls[c].event = "PolicyChanged" => Budgeting(calls[c])
         /\ calls[c].at = "record" /\ calls[c].event = "Imported" => ImportStage(calls[c])
         /\ calls[c].at = "import" => ImportStage(calls[c])
         /\ calls[c].at \in {"namespaces", "purge"} => PurgeStage(calls[c])
         /\ calls[c].at \in {"export", "exported", "answer"} => ExportStage(calls[c])
<1>1. CallOK(calls[c]) /\ calls[c] # Idle BY DEF ServiceInv, CallsOK, Idle
<1> QED BY <1>1 DEF CallOK, Reaching, Setting, Budgeting, PurgeStage, ImportStage, ExportStage

(* The tables and what was shown stay, or a row is written that may be in  *)
(* a reserved scope only as one of the engine's own.                       *)
LEMMA ApartStays ==
  ASSUME Apart, UNCHANGED <<items, audit, brought, minted, brought>>, shown' = shown \/ shown' = {}
  PROVE  Apart'
BY DEF Apart, ReadsStayWithTheSubject, ReservedScopesAreTheEngines, ExportsAreAudited

LEMMA RowsStayApart ==
  ASSUME Apart, AdminRowsKept, UNCHANGED <<shown, brought>>, NEW a,
         \A q \in items' \ items : Open(q.scope),
         audit' \subseteq audit \cup {a},
         \/ Open(a.scope)
         \/ a.scope = AdminScope /\ a.event = "PolicyChanged" /\ a.meta.setting # "none"
         \/ a.scope = AdminScope /\ a.event \in {"Imported", "Exported"}
         \/ a.event = "SubjectPurged" /\ a.scope[1] \notin Reserved
  PROVE  Apart'
<1>1. ReadsStayWithTheSubject' BY DEF Apart, ReadsStayWithTheSubject
<1>2. ExportsAreAudited' BY DEF Apart, ExportsAreAudited, AdminRowsKept
<1>3. ReservedScopesAreTheEngines'
  BY DEF Apart, ReservedScopesAreTheEngines, Open, CheckReserved
<1> QED BY <1>1, <1>2, <1>3 DEF Apart

-----------------------------------------------------------------------------
(* What a credential reaches.                                              *)

(* A scope that resolves to this tenant is the caller's own, and its       *)
(* namespace, wherever it comes from, is not the engine's.                 *)
LEMMA ResolvedIs ==
  ASSUME ServiceInv, NEW p \in Processes, running[p].up,
         NEW r, NEW x \in Resolve(p, r), x.tenant = Home
  PROVE  Entitled(p, x.actor, SubjectOf(x.scope)) /\ Open(x.scope)
<1>1. ProcessOK(p) /\ running[p] # Down BY DEF ServiceInv, ProcessesOK, Down
<1>2. TransportOf[p] \in {"http", "stdio", "cli"} BY ServiceAssumption
<1>3. CASE TransportOf[p] = "http"
  <2>1. x \in ApiKeyScope(p, r.credential, r.namespace, r.header) BY <1>3 DEF Resolve
  <2>2. PICK k \in Authenticate(running[p].keys, r.credential) :
          \E n : CheckReserved({k.subject, n}) /\ x = Reached(k.tenant, k.subject, n, k.id)
    BY <2>1 DEF ApiKeyScope
  <2>3. k \in running[p].keys /\ Loaded(p, k)
    BY <2>2 DEF Authenticate, Reached, Loaded
  <2> QED BY <2>2, <2>3 DEF Reached, CheckReserved, Open, Entitled, SubjectOf
<1>4. CASE TransportOf[p] = "stdio"
  <2>1. x \in FixedScope(p, r.namespace) BY <1>4 DEF Resolve
  <2>2. PICK n \in PickNamespace(r.namespace, {}, {running[p].dir}) :
               x = Reached(Home, Operator, n, "agent")
    BY <2>1 DEF FixedScope
  <2>3. n \notin Reserved BY <2>2, <1>1 DEF PickNamespace, CheckReserved, ProcessOK
  <2> QED BY <2>2, <2>3, ServiceAssumption DEF Reached, Open, Entitled, SubjectOf
<1>5. CASE TransportOf[p] = "cli"
  <2>1. x \in CommandScope(r.namespace) BY <1>5 DEF Resolve
  <2> QED BY <2>1 DEF CommandScope, CheckReserved, Reached, Open, Entitled, SubjectOf
<1> QED BY <1>2, <1>3, <1>4, <1>5

LEMMA KeyIsEntitled ==
  ASSUME ServiceInv, NEW p \in Processes, running[p].up,
         NEW shownKey, NEW k \in Authenticate(running[p].keys, shownKey), k.tenant = Home
  PROVE  Loaded(p, k) /\ Entitled(p, k.id, k.subject) /\ k.subject \notin Reserved
<1>1. ProcessOK(p) /\ running[p] # Down BY DEF ServiceInv, ProcessesOK, Down
<1>2. k \in running[p].keys /\ Loaded(p, k) BY DEF Authenticate, Loaded
<1>3. PICK q \in FirstKeys \cup NewKeys : k.subject = q.subject
  BY <1>1, <1>2 DEF ProcessOK, Genuine
<1>4. q.subject \notin Reserved BY <1>3, ServiceAssumption
<1> QED BY <1>2, <1>3, <1>4 DEF Entitled

(* A subject is one key's: ids are not used twice.                         *)
LEMMA EntitledAlone ==
  ASSUME ServiceInv, NEW p \in Processes, running[p].up,
         NEW actor, NEW j, Entitled(p, actor, j)
  PROVE  /\ \A k \in FirstKeys \cup NewKeys : k.id = actor => j = k.subject
         /\ actor \in {"agent", "cli"} => j = Operator
<1>1. ProcessOK(p) /\ running[p] # Down BY DEF ServiceInv, ProcessesOK, Down
<1>2. CASE actor \in {"agent", "cli"} /\ j = Operator
  BY <1>2, ServiceAssumption DEF KeyIds
<1>3. ASSUME NEW k \in running[p].keys, k.id = actor, j = k.subject
      PROVE  /\ \A q \in FirstKeys \cup NewKeys : q.id = actor => j = q.subject
             /\ actor \notin {"agent", "cli"}
  <2>1. PICK q \in FirstKeys \cup NewKeys : k.id = q.id /\ k.subject = q.subject
    BY <1>1, <1>3 DEF ProcessOK, Genuine
  <2> QED BY <2>1, <1>3, ServiceAssumption DEF KeyIds
<1> QED BY <1>2, <1>3 DEF Entitled

-----------------------------------------------------------------------------
(* What the calls do to the tables.                                        *)

(* A transaction that only writes its audit row commits. *)
LEMMA RecordIs ==
  ASSUME NEW s, NEW e, NEW m, NEW id, Apply(Record(s, e, m), id)
  PROVE  /\ audit' = audit \cup {[id |-> id, scope |-> s, event |-> e, items |-> {}, meta |-> m]}
         /\ aggregates' = Counted(aggregates, {[id |-> id, scope |-> s, event |-> e,
                                                items |-> {}, meta |-> m]})
         /\ items' = items
<1> DEFINE t == Record(s, e, m)
<1>1. t.upsert = {} /\ t.merge = {} /\ t.evictions = {} /\ t.key = {} /\ t.refs = {}
      /\ t.scope = s /\ t.auditScope = s /\ t.event = e /\ t.auditMeta = m
  BY DEF Record
<1> HIDE DEF t
<1>2. Prior(t) = {} /\ Victims(t) = {} /\ Targets(t) = {} /\ Inserted(t) = {} /\ Merged(t) = {}
  BY <1>1 DEF Prior, Victims, Targets, Inserted, Merged
<1>3. Commits(t) BY <1>1, <1>2 DEF Commits, IsValid, KeyTaken, TargetMissing
<1>4. ApplyCommit(t, id) BY <1>3 DEF Apply, t
<1>5. Kept(t) = items BY <1>2 DEF Kept
<1> QED BY <1>1, <1>2, <1>4, <1>5 DEF ApplyCommit, AuditInserted

(* So does that of an import, which names the items it brought. *)
LEMMA ImportRecordIs ==
  ASSUME NEW c, AuditImport(c)
  PROVE  \E a : /\ audit' = audit \cup {a} /\ aggregates' = Counted(aggregates, {a})
                /\ items' = items
                /\ a.scope = AdminScope /\ a.event = "Imported"
                /\ a.meta = Meta(calls[c].actor, FALSE, "none")
<1> DEFINE m == Meta(calls[c].actor, FALSE, "none")
           t == [Record(AdminScope, "Imported", m) EXCEPT !.refs = calls[c].refs]
           a == [id |-> minted + 1, scope |-> t.auditScope, event |-> t.event,
                 items |-> t.refs, meta |-> t.auditMeta]
<1>1. Apply(t, minted + 1) BY DEF AuditImport
<1>2. t.upsert = {} /\ t.merge = {} /\ t.evictions = {} /\ t.key = {}
      /\ t.scope = AdminScope /\ t.auditScope = AdminScope /\ t.event = "Imported"
      /\ t.auditMeta = m
  BY DEF Record
<1>3. a.scope = AdminScope /\ a.event = "Imported" /\ a.meta = m BY <1>2
<1> HIDE DEF t
<1>4. Prior(t) = {} /\ Victims(t) = {} /\ Targets(t) = {} /\ Inserted(t) = {} /\ Merged(t) = {}
  BY <1>2 DEF Prior, Victims, Targets, Inserted, Merged
<1>5. Commits(t) BY <1>2, <1>4 DEF Commits, IsValid, KeyTaken, TargetMissing
<1>6. ApplyCommit(t, minted + 1) BY <1>1, <1>5 DEF Apply
<1>7. Kept(t) = items BY <1>4 DEF Kept
<1>8. /\ audit' = audit \cup {a} /\ aggregates' = Counted(aggregates, {a}) /\ items' = items
  BY <1>4, <1>6, <1>7 DEF ApplyCommit, AuditInserted
<1> HIDE DEF a
<1> QED BY <1>3, <1>8

(* One that inserts an item leaves the others, or changes nothing. *)
LEMMA InsertIs ==
  ASSUME NEW t, NEW id, Apply(t, id), t.merge = {}, t.evictions = {},
         \A w \in t.upsert : w.scope = t.scope
  PROVE  /\ audit' = audit \/ audit' = audit \cup {[id |-> id, scope |-> t.auditScope,
              event |-> t.event, items |-> t.refs, meta |-> t.auditMeta]}
         /\ aggregates' = aggregates \/ aggregates' = Counted(aggregates, {[id |-> id,
              scope |-> t.auditScope, event |-> t.event, items |-> t.refs, meta |-> t.auditMeta]})
         /\ \A q \in items' \ items : q.scope = t.scope
<1>1. CASE ~Commits(t) BY <1>1 DEF Apply, tables
<1>2. CASE Commits(t)
  <2>1. ApplyCommit(t, id) BY <1>2 DEF Apply
  <2>2. Merged(t) = {} BY DEF Merged
  <2>3. \A q \in Inserted(t) : q.scope = t.scope BY DEF Inserted
  <2> QED BY <2>1, <2>2, <2>3 DEF ApplyCommit, AuditInserted, Kept
<1> QED BY <1>1, <1>2

LEMMA PurgeIs ==
  ASSUME NEW j, NEW cascade, NEW s, NEW id, NEW m, PurgeSubject(j, cascade, s, id, m)
  PROVE  /\ items' \subseteq items
         /\ audit' \subseteq audit \cup {[id |-> id, scope |-> s, event |-> "SubjectPurged",
                                          items |-> {}, meta |-> m]}
         /\ \A a \in audit : SubjectOf(a.scope) # j => a \in audit'
         /\ aggregates' = Counted(aggregates, {[id |-> id, scope |-> s,
              event |-> "SubjectPurged", items |-> {}, meta |-> m]})
BY DEF PurgeSubject, PurgedAudit, OfSubject

-----------------------------------------------------------------------------
(* Every step keeps the invariant, and writes only for whom it may.        *)

RowAuthorised(a) ==
  a.meta.actor \in KeyIds =>
    IF a.scope = AdminScope THEN Holder(a.meta.actor)
    ELSE HolderFor(a.meta.actor, SubjectOf(a.scope))

NewRowsAreAuthorised ==
  /\ \A a \in (audit' \ audit) \ brought'.audits : RowAuthorised(a)
  /\ brought' # brought =>
       \E c \in Callers : calls[c].at = "import" /\ calls'[c].at = "record" /\
         (calls[c].actor = "cli" \/ Holder(calls[c].actor))

KeysKeptInFile ==
  overtook' \/ \A k \in file.keys :
    \E q \in file'.keys : q.id = k.id /\ (k.disabled => q.disabled)

LEMMA RowIsAuthorised ==
  ASSUME ServiceInv, ServiceAssumption, NEW c \in Callers, calls[c] # Idle, NEW a,
         \/ a.meta.actor \notin KeyIds
         \/ a.meta.actor = "cli"
         \/ a.scope = AdminScope /\ \E k \in running[calls[c].server].keys :
              Loaded(calls[c].server, k) /\ k.id = a.meta.actor
         \/ Entitled(calls[c].server, a.meta.actor, SubjectOf(a.scope))
  PROVE  RowAuthorised(a)
<1>1. calls[c].server \in Processes /\ running[calls[c].server].up
  BY DEF ServiceInv, CallsOK, CallOK
<1> SUFFICES ASSUME a.meta.actor \in KeyIds
             PROVE  IF a.scope = AdminScope THEN Holder(a.meta.actor)
                    ELSE HolderFor(a.meta.actor, SubjectOf(a.scope))
  BY DEF RowAuthorised
<1>2. a.meta.actor \notin {"agent", "cli"} BY ServiceAssumption
<1>3. PICK k \in running[calls[c].server].keys :
        /\ Loaded(calls[c].server, k) /\ k.id = a.meta.actor
        /\ a.scope = AdminScope \/ SubjectOf(a.scope) = k.subject
  BY <1>2 DEF Entitled
<1> QED BY <1>1, <1>3 DEF Loaded, Holder, HolderFor

(* No row, or one. *)
LEMMA NoRowIsAuthorised ==
  ASSUME audit' = audit, brought' = brought PROVE NewRowsAreAuthorised
  BY DEF NewRowsAreAuthorised

LEMMA OneRowIsAuthorised ==
  ASSUME NEW a, RowAuthorised(a), audit' \subseteq audit \cup {a}, brought' = brought
  PROVE  NewRowsAreAuthorised
  BY DEF NewRowsAreAuthorised

LEMMA BegunKeeps ==
  ASSUME ServiceInv, NEW c \in Callers, NEW call, Begun(c, call),
         call # Idle, call.server \in Processes,
         \/ Reaching(call) \/ Setting(call) \/ Budgeting(call) \/ PurgeStage(call)
         \/ ImportStage(call) \/ ExportStage(call)
  PROVE  ServiceInv'
<1> DEFINE p == call.server
           r == [running[p] EXCEPT !.served = (TransportOf[p] = "cli")]
<1>1. /\ UNCHANGED <<items, audit, minted, file, added, brought>> /\ shown' = {}
      /\ running[p].up /\ calls' = [calls EXCEPT ![c] = call]
      /\ running' = [running EXCEPT ![p] = r]
  BY DEF Begun, vars, tables
<1>2. ProcessesOK /\ ProcessOK(p) /\ running[p] \in UpProcess /\ FileOK
  BY <1>1 DEF ServiceInv, ProcessesOK, ProcessOK, Down
<1>3. /\ r \in UpProcess /\ r.keys = running[p].keys /\ r.up /\ r.dir = running[p].dir
      /\ r.policy = running[p].policy /\ r.retention = running[p].retention
  <2>1. (TransportOf[p] = "cli") \in BOOLEAN OBVIOUS
  <2> QED BY <1>2, <2>1 DEF UpProcess
<1> HIDE DEF r
<1>4. /\ \A q \in Processes : q # p => running'[q] = running[q]
      /\ running'[p] = r /\ running' \in [Processes -> {Down} \cup UpProcess]
  BY <1>1, <1>2, <1>3 DEF ProcessesOK
<1>5. AdminRowsKept /\ \A s : AuditedSetting(s) => AuditedSetting(s)'
  BY <1>1 DEF AdminRowsKept, AuditedSetting, ServiceInv
<1>6. \A keys : Genuine(keys) => Genuine(keys)' BY <1>1 DEF Genuine
<1>7. ProcessesOK'
  <2>1. ASSUME NEW q \in Processes PROVE ProcessOK(q)'
    <3>1. ProcessOK(q) BY <1>2 DEF ProcessesOK
    <3>2. CASE q # p BY <3>1, <3>2, <1>4, <1>5, <1>6 DEF ProcessOK
    <3>3. CASE q = p
      <4>1. running[p] # Down BY <1>1 DEF Down
      <4> QED BY <3>1, <3>3, <4>1, <1>3, <1>4, <1>5, <1>6 DEF ProcessOK
    <3> QED BY <3>2, <3>3
  <2> QED BY <2>1, <1>4 DEF ProcessesOK
<1>8. CallsOK'
  <2>1. ASSUME NEW any, CallOK(any) PROVE CallOK(any)'
    <3>1. any # Idle => any.server \in Processes /\ running[any.server].up
      BY <2>1 DEF CallOK
    <3>2. any # Idle => /\ running'[any.server].up
                        /\ running'[any.server].keys = running[any.server].keys
      BY <3>1, <1>3, <1>4
    <3> QED BY <2>1, <3>2, <1>5, CallStays
  <2>2. CallOK(call)
    <3>1. running[call.server].up BY <1>1
    <3> QED BY <3>1 DEF CallOK
  <2>3. CallOK(call)' BY <2>1, <2>2
  <2>4. \A d \in Callers : d = c \/ CallOK(calls[d])'
    <3>1. \A d \in Callers : CallOK(calls[d]) BY DEF ServiceInv, CallsOK
    <3>2. \A d \in Callers \ {c} : calls'[d] = calls[d] BY <1>1 DEF ServiceInv, CallsOK
    <3>3. SUFFICES ASSUME NEW d \in Callers, d # c PROVE CallOK(calls[d])' OBVIOUS
    <3>4. CallOK(calls[d]) /\ calls'[d] = calls[d] BY <3>1, <3>2, <3>3
    <3>5. \A x : CallOK(x) /\ x = calls[d] => CallOK(x)' BY <2>1
    <3> QED BY <3>4, <3>5, CallIsOK
  <2> QED BY <1>1, <2>3, <2>4 DEF CallsOK, ServiceInv
<1>9. FileOK' BY <1>1, <1>2, <1>6 DEF FileOK
<1>10. Apart' BY <1>1, ApartStays DEF ServiceInv
<1> QED BY <1>5, <1>7, <1>8, <1>9, <1>10 DEF ServiceInv, AdminRowsKept

LEMMA StepKeeps ==
  ASSUME ServiceInv, NEW c \in Callers, NEW next,
         calls' = [calls EXCEPT ![c] = next], CallOK(next)',
         AdminRowsKept, UNCHANGED <<file, running, added>>,
         Apart'
  PROVE  ServiceInv'
<1>1. CallsOK' BY CallsStay DEF ServiceInv
<1>2. ProcessesOK' BY ProcessesStay DEF ServiceInv
<1>3. FileOK' BY GenuineStays DEF ServiceInv, FileOK, Genuine
<1> QED BY <1>1, <1>2, <1>3 DEF ServiceInv, AdminRowsKept

LEMMA IdleIsOK == CallOK(Idle) /\ CallOK(Idle)'
  BY DEF CallOK

LEMMA RememberKeeps ==
  ASSUME ServiceInv, ServiceAssumption, NEW c \in Callers, Remember(c)
  PROVE  ServiceInv' /\ NewRowsAreAuthorised
<1> DEFINE s == calls[c].scope
           actor == calls[c].actor
           m == Meta(actor, TRUE, "none")
<1>1. /\ calls' = [calls EXCEPT ![c] = Idle] /\ calls[c].at = "apply" /\ minted' = minted + 1
      /\ UNCHANGED <<file, running, added, shown, brought>>
  BY DEF Remember, Returned, histories, Mint
<1>2. Reaching(calls[c]) /\ calls[c] # Idle
  BY <1>1, StageIs
<1>3. PICK id \in ItemIds \ Ids(items), b \in Bodies, v \in Metas :
        Apply([Record(s, "Admitted", m) EXCEPT
                !.refs = {id},
                !.upsert = {[id |-> id, scope |-> s, body |-> b, tags |-> {},
                             meta |-> v, pending |-> FALSE, embedded |-> TRUE]}],
              minted + 1)
  BY DEF Remember
<1> DEFINE t == [Record(s, "Admitted", m) EXCEPT
                !.refs = {id},
                !.upsert = {[id |-> id, scope |-> s, body |-> b, tags |-> {},
                             meta |-> v, pending |-> FALSE, embedded |-> TRUE]}]
           a == [id |-> minted + 1, scope |-> t.auditScope, event |-> t.event,
                 items |-> t.refs, meta |-> t.auditMeta]
<1>4. /\ t.merge = {} /\ t.evictions = {} /\ t.scope = s /\ t.auditScope = s
      /\ t.auditMeta = m /\ \A w \in t.upsert : w.scope = t.scope
  BY DEF Record
<1> HIDE DEF t
<1>5. /\ audit' = audit \/ audit' = audit \cup {a}
      /\ \A q \in items' \ items : q.scope = s
  BY <1>3, <1>4, InsertIs DEF t
<1>6. a.scope = s /\ a.meta = m /\ m.actor = actor BY <1>4 DEF Meta
<1> HIDE DEF a, m
<1>7. AdminRowsKept BY <1>1, <1>5 DEF AdminRowsKept, ServiceInv
<1>8. Apart' BY <1>1, <1>2, <1>5, <1>6, <1>7, RowsStayApart DEF ServiceInv, Reaching
<1>9. ServiceInv' BY <1>1, <1>7, <1>8, IdleIsOK, StepKeeps
<1>10. RowAuthorised(a) BY <1>2, <1>6, RowIsAuthorised DEF Reaching
<1> QED BY <1>1, <1>5, <1>9, <1>10, OneRowIsAuthorised

LEMMA ReadKeeps ==
  ASSUME ServiceInv, ServiceAssumption, NEW c \in Callers, Read(c)
  PROVE  ServiceInv' /\ NewRowsAreAuthorised
<1>1. /\ calls' = [calls EXCEPT ![c] = Idle] /\ calls[c].at = "read"
      /\ UNCHANGED <<file, running, added, items, audit, minted, brought>>
      /\ \A z \in shown' : z[1] = calls[c].actor /\ z[2] = calls[c].scope /\ z[3] = {}
  BY DEF Read, Returned, vars, tables, InScope, Showing
<1>2. Reaching(calls[c]) /\ calls[c] # Idle
      /\ calls[c].server \in Processes /\ running[calls[c].server].up
  BY <1>1, StageIs
<1>3. /\ \A k \in FirstKeys \cup NewKeys :
           k.id = calls[c].actor => SubjectOf(calls[c].scope) = k.subject
      /\ calls[c].actor \in {"agent", "cli"} => SubjectOf(calls[c].scope) = Operator
  BY <1>2, EntitledAlone DEF Reaching
<1>4. Reaching(calls[c]) BY <1>2
<1>5. ReadsStayWithTheSubject'
  BY <1>1, <1>3, <1>4 DEF ReadsStayWithTheSubject, Reaching, Open, SubjectOf, CheckReserved
<1>6. ReservedScopesAreTheEngines' BY <1>1 DEF ServiceInv, Apart, ReservedScopesAreTheEngines
<1>7. ExportsAreAudited' BY <1>1 DEF ExportsAreAudited
<1>8. AdminRowsKept BY <1>1 DEF AdminRowsKept, ServiceInv
<1> QED BY <1>1, <1>5, <1>6, <1>7, <1>8, IdleIsOK, StepKeeps, NoRowIsAuthorised DEF Apart

LEMMA AuditSettingKeeps ==
  ASSUME ServiceInv, ServiceAssumption, NEW c \in Callers, AuditSetting(c)
  PROVE  ServiceInv' /\ NewRowsAreAuthorised
<1> DEFINE p == calls[c].server
           m == Meta(calls[c].actor, TRUE, calls[c].to)
           a == [id |-> minted + 1, scope |-> AdminScope, event |-> "PolicyChanged",
                 items |-> {}, meta |-> m]
           Next1(d) == IF d = c THEN [calls[c] EXCEPT !.at = "install"]
                       ELSE IF calls[d].at = "purge" /\ calls[d].server = p
                       THEN [calls[d] EXCEPT !.superseded = TRUE] ELSE calls[d]
<1>1. /\ calls[c].at = "audit" /\ UNCHANGED <<file, running, added, shown, brought>>
      /\ audit' = audit \cup {a} /\ items' = items
      /\ calls' = [d \in Callers |-> Next1(d)] /\ minted' = minted + 1
  BY RecordIs DEF AuditSetting, Mint
<1>2. Setting(calls[c]) /\ calls[c] # Idle
  BY <1>1, StageIs
<1>3. m.actor = calls[c].actor /\ m.setting = calls[c].to /\ m.setting # "none"
  BY <1>2, ServiceAssumption DEF Meta, Setting, Profiles
<1>4. a.scope = AdminScope /\ a.meta = m /\ a.event = "PolicyChanged" /\ a.id > 0
  BY DEF ServiceInv
<1> HIDE DEF a, m
<1>5. AdminRowsKept BY <1>1 DEF AdminRowsKept, ServiceInv
<1>6. Apart'
  <2>1. items' \ items = {} BY <1>1
  <2> QED BY <2>1, <1>1, <1>3, <1>4, <1>5, RowsStayApart DEF ServiceInv
<1>7. AuditedSetting(calls[c].to)'
  <2>1. \E z \in audit' : z.scope = AdminScope /\ z.meta.setting = calls[c].to /\ z.id > 0
    BY <1>1, <1>3, <1>4
  <2>2. \A s : (\E z \in audit' : z.scope = AdminScope /\ z.meta.setting = s /\ z.id > 0)
                  => AuditedSetting(s)'
    BY DEF AuditedSetting
  <2> HIDE DEF p, Next1
  <2>3. calls[c].to = [calls[c] EXCEPT !.at = "install"].to BY <1>2 DEF Setting
  <2>4. calls'[c].to = calls[c].to BY <1>1, <2>3 DEF Next1
  <2> QED BY <2>1, <2>4 DEF AuditedSetting
<1>8. CallsOK'
  <2>1. ASSUME NEW d \in Callers PROVE CallOK(calls[d])'
    <3>1. CallOK(calls[d]) BY DEF ServiceInv, CallsOK
    <3>2. ASSUME NEW call, CallOK(call) PROVE CallOK(call)'
      BY <1>1, <1>5, <3>2, CallStays DEF CallOK
    <3>3. CASE d = c
      <4>1. PICK next : next = [calls[c] EXCEPT !.at = "install"] OBVIOUS
      <4>2. /\ next = [kind |-> next.kind, at |-> next.at, server |-> next.server,
                       to |-> next.to, actor |-> next.actor]
            /\ next.at = "install" /\ next.kind = calls[c].kind /\ next.to = calls[c].to
            /\ next.actor = calls[c].actor /\ next.server = p
        BY <4>1, <1>2 DEF Setting
      <4>3. calls'[c] = next BY <1>1, <4>1
      <4>4. Setting(next)'
        <5>1. AuditedSetting(next.to)' BY <1>7, <4>3 DEF AuditedSetting
        <5>2. \E k \in running'[next.server].keys :
                 Loaded(next.server, k)' /\ k.id = next.actor
          BY <1>1, <1>2, <4>2 DEF Setting, Loaded
        <5>3. \/ next.kind = "policy" /\ next.to \in Configs /\ ValidConfig(next.to)
              \/ next.kind = "retention" /\ next.to \in Profiles
          BY <1>2, <4>2 DEF Setting
        <5> QED BY <4>2, <5>1, <5>2, <5>3 DEF Setting
      <4>5. p \in Processes /\ running[p].up BY <3>1, <3>3, <1>2 DEF CallOK
      <4>6. next.server \in Processes /\ running'[next.server].up BY <4>5, <4>2, <1>1
      <4>7. CallOK(next)' BY <4>4, <4>6 DEF CallOK
      <4> QED BY <4>3, <4>7, <3>3, CallIsOK
    <3>4. CASE d # c /\ calls[d].at = "purge" /\ calls[d].server = p
      <4>1. PICK next : next = [calls[d] EXCEPT !.superseded = TRUE] OBVIOUS
      <4>2. PurgeStage(calls[d]) /\ calls[d] # Idle
        BY <3>4, StageIs
      <4>3. /\ next = [kind |-> next.kind, at |-> next.at, server |-> next.server,
                       actor |-> next.actor, scope |-> next.scope, cascade |-> next.cascade,
                       superseded |-> next.superseded]
            /\ next.at = "purge" /\ next.scope = calls[d].scope
            /\ next.actor = calls[d].actor /\ next.server = calls[d].server
        BY <4>1, <4>2, <3>4 DEF PurgeStage
      <4>4. PurgeStage(next) BY <4>2, <4>3, <3>4 DEF PurgeStage
      <4>5. CallOK(next) BY <3>1, <4>2, <4>3, <4>4 DEF CallOK
      <4>6. calls'[d] = next BY <1>1, <3>4, <4>1
      <4> QED BY <3>2, <4>5, <4>6, CallIsOK
    <3>5. CASE d # c /\ ~(calls[d].at = "purge" /\ calls[d].server = p)
      <4>1. calls'[d] = calls[d] BY <1>1, <3>5
      <4> QED BY <3>1, <3>2, <4>1, CallIsOK
    <3> QED BY <3>3, <3>4, <3>5
  <2> QED BY <2>1, <1>1 DEF CallsOK
<1>9. ProcessesOK' BY <1>1, <1>5, ProcessesStay DEF ServiceInv
<1>10. FileOK' BY <1>1, GenuineStays DEF ServiceInv, FileOK, Genuine
<1>11. RowAuthorised(a)
  <2>1. \E k \in running[p].keys : Loaded(p, k) /\ k.id = a.meta.actor
    BY <1>2, <1>3, <1>4 DEF Setting
  <2> QED BY <1>2, <1>4, <2>1, RowIsAuthorised
<1>12. NewRowsAreAuthorised BY <1>1, <1>11, OneRowIsAuthorised
<1> QED BY <1>1, <1>6, <1>8, <1>9, <1>10, <1>12 DEF ServiceInv

LEMMA InstallKeeps ==
  ASSUME ServiceInv, ServiceAssumption, NEW c \in Callers, Install(c)
  PROVE  ServiceInv' /\ NewRowsAreAuthorised
<1> DEFINE p == calls[c].server
           r == [running[p] EXCEPT ![calls[c].kind] = {calls[c].to}]
<1>1. /\ calls[c].at = "install" /\ UNCHANGED <<file, added, shown, items, audit, minted, brought>>
      /\ calls' = [calls EXCEPT ![c] = Idle]
      /\ running' = [running EXCEPT ![p] = r]
  BY DEF Install, InsertedOver, Returned, histories, vars, tables
<1>2. Setting(calls[c]) /\ p \in Processes /\ running[p].up
  BY <1>1, StageIs
<1>3. ProcessesOK /\ ProcessOK(p) /\ running[p] \in UpProcess /\ running[p] # Down /\ FileOK
  BY <1>2 DEF ServiceInv, ProcessesOK, ProcessOK, Down
<1>4. /\ r \in UpProcess /\ r.keys = running[p].keys /\ r.up /\ r.dir = running[p].dir
      /\ \A s \in r.policy : s \in running[p].policy \/ (s = calls[c].to /\ ValidConfig(s))
      /\ \A s \in r.retention : s \in running[p].retention \/ s = calls[c].to
  <2>1. CASE calls[c].kind = "policy"
    BY <2>1, <1>2, <1>3, ZenonT(40) DEF Setting, UpProcess, Profiles
  <2>2. CASE calls[c].kind = "retention" BY <2>2, <1>2, <1>3 DEF Setting, UpProcess
  <2> QED BY <1>2, <2>1, <2>2 DEF Setting
<1> HIDE DEF r
<1>5. /\ \A q \in Processes : q # p => running'[q] = running[q]
      /\ running'[p] = r /\ running' \in [Processes -> {Down} \cup UpProcess]
  BY <1>1, <1>2, <1>3, <1>4 DEF ProcessesOK
<1>6. AdminRowsKept /\ \A s : AuditedSetting(s) => AuditedSetting(s)'
  BY <1>1 DEF AdminRowsKept, AuditedSetting, ServiceInv
<1>7. \A keys : Genuine(keys) => Genuine(keys)' BY <1>1 DEF Genuine
<1>8. ProcessesOK'
  <2>1. ASSUME NEW q \in Processes PROVE ProcessOK(q)'
    <3>1. ProcessOK(q) BY <1>3 DEF ProcessesOK
    <3>2. CASE q # p BY <3>1, <3>2, <1>5, <1>6, <1>7 DEF ProcessOK
    <3>3. CASE q = p
      <4>1. \A s \in r.policy \cup r.retention : AuditedSetting(s)
        BY <1>1, <1>2, <1>3, <1>4 DEF ProcessOK, Setting
      <4>2. \A n \in r.policy : ValidConfig(n) BY <1>3, <1>4 DEF ProcessOK
      <4> QED BY <3>3, <4>1, <4>2, <1>3, <1>4, <1>5, <1>6, <1>7 DEF ProcessOK
    <3> QED BY <3>2, <3>3
  <2> QED BY <2>1, <1>5 DEF ProcessesOK
<1>9. CallsOK'
  <2>1. ASSUME NEW any, CallOK(any) PROVE CallOK(any)'
    <3>1. any # Idle => any.server \in Processes /\ running[any.server].up
      BY <2>1 DEF CallOK
    <3>2. any # Idle => /\ running'[any.server].up
                        /\ running'[any.server].keys = running[any.server].keys
      BY <3>1, <1>4, <1>5
    <3> QED BY <2>1, <3>2, <1>6, CallStays
  <2>2. \A d \in Callers : d = c \/ CallOK(calls[d])'
    <3>1. \A d \in Callers : CallOK(calls[d]) BY DEF ServiceInv, CallsOK
    <3>2. \A d \in Callers \ {c} : calls'[d] = calls[d] BY <1>1 DEF ServiceInv, CallsOK
    <3> QED BY <2>1, <3>1, <3>2, CallIsOK
  <2> QED BY <1>1, <2>2, IdleIsOK DEF CallsOK, ServiceInv
<1>10. FileOK' BY <1>1, <1>3, <1>7 DEF FileOK
<1>11. Apart' BY <1>1, ApartStays DEF ServiceInv
<1>12. NewRowsAreAuthorised BY <1>1, NoRowIsAuthorised
<1> QED BY <1>6, <1>8, <1>9, <1>10, <1>11, <1>12 DEF ServiceInv, AdminRowsKept

LEMMA ChangeCeilingKeeps ==
  ASSUME ServiceInv, ServiceAssumption, NEW c \in Callers, ChangeCeiling(c)
  PROVE  ServiceInv' /\ NewRowsAreAuthorised
<1>1. /\ calls[c].at = "ceiling"
      /\ UNCHANGED <<file, running, added, shown, items, audit, minted, brought>>
      /\ calls' = [calls EXCEPT ![c].at = "record"]
  BY DEF ChangeCeiling, SetBudget
<1>2. /\ Budgeting(calls[c])
      /\ calls[c].server \in Processes /\ running[calls[c].server].up
  BY <1>1, StageIs
<1>3. PICK next : next = [calls[c] EXCEPT !.at = "record"] OBVIOUS
<1>4. /\ next = [kind |-> next.kind, at |-> next.at, server |-> next.server,
                 scope |-> next.scope, actor |-> next.actor, to |-> next.to,
                 event |-> "PolicyChanged"]
      /\ next.at = "record" /\ next.actor = "system" /\ next.server = calls[c].server
      /\ Open(next.scope)
  BY <1>2, <1>3 DEF Budgeting
<1>5. CallOK(next)' BY <1>1, <1>2, <1>4 DEF CallOK, Budgeting
<1>6. calls' = [calls EXCEPT ![c] = next] BY <1>1, <1>3
<1>7. AdminRowsKept /\ NewRowsAreAuthorised
  BY <1>1, NoRowIsAuthorised DEF AdminRowsKept, ServiceInv
<1>8. Apart' BY <1>1, ApartStays DEF ServiceInv
<1> QED BY <1>1, <1>5, <1>6, <1>7, <1>8, StepKeeps

LEMMA AuditBudgetKeeps ==
  ASSUME ServiceInv, ServiceAssumption, NEW c \in Callers, AuditBudget(c)
  PROVE  ServiceInv' /\ NewRowsAreAuthorised
<1> DEFINE m == BudgetMeta(calls[c].actor)
           a == [id |-> minted + 1, scope |-> calls[c].scope, event |-> "PolicyChanged",
                 items |-> {}, meta |-> m]
<1>1. /\ calls[c].at = "record" /\ calls[c].event = "PolicyChanged" /\ minted' = minted + 1
      /\ UNCHANGED <<file, running, added, shown, brought>>
      /\ audit' = audit \cup {a} /\ items' = items
      /\ calls' = [calls EXCEPT ![c] = Idle]
  BY RecordIs DEF AuditBudget, Returned, histories, Mint, Unaudited
<1>2. Budgeting(calls[c]) /\ calls[c] # Idle
  BY <1>1, StageIs
<1>3. m.actor \notin KeyIds
  BY <1>2, ServiceAssumption DEF BudgetMeta, Meta, Budgeting
<1>4. a.scope = calls[c].scope /\ a.meta = m OBVIOUS
<1> HIDE DEF a, m
<1>5. AdminRowsKept BY <1>1 DEF AdminRowsKept, ServiceInv
<1>6. Apart'
  <2>1. items' \ items = {} BY <1>1
  <2> QED BY <2>1, <1>1, <1>2, <1>4, <1>5, RowsStayApart DEF ServiceInv, Budgeting
<1>7. NewRowsAreAuthorised
  BY <1>1, <1>3, <1>4, OneRowIsAuthorised DEF RowAuthorised
<1> QED BY <1>1, <1>5, <1>6, <1>7, IdleIsOK, StepKeeps

LEMMA ReadNamespacesKeeps ==
  ASSUME ServiceInv, ServiceAssumption, NEW c \in Callers, ReadNamespaces(c)
  PROVE  ServiceInv' /\ NewRowsAreAuthorised
<1>1. /\ calls[c].at = "namespaces"
      /\ UNCHANGED <<file, running, added, shown, items, audit, minted, brought>>
  BY DEF ReadNamespaces, histories, vars, tables
<1>2. PICK n : calls' = [calls EXCEPT ![c] =
         [kind |-> "purge", at |-> "purge", server |-> calls[c].server, actor |-> @.actor,
          scope |-> <<@.subject, n>>, cascade |-> CascadeFor(calls[c].server),
          superseded |-> Installing(calls[c].server) # {}]]
  BY DEF ReadNamespaces
<1>3. PICK next : next =
         [kind |-> "purge", at |-> "purge", server |-> calls[c].server,
          actor |-> calls[c].actor,
          scope |-> <<calls[c].subject, n>>, cascade |-> CascadeFor(calls[c].server),
          superseded |-> Installing(calls[c].server) # {}]
  OBVIOUS
<1>4. /\ PurgeStage(calls[c]) /\ calls[c].server \in Processes
      /\ running[calls[c].server].up
  BY <1>1, StageIs
<1>5. calls' = [calls EXCEPT ![c] = next] BY <1>2, <1>3
<1>6. /\ next = [kind |-> next.kind, at |-> next.at, server |-> next.server,
                 actor |-> next.actor, scope |-> next.scope, cascade |-> next.cascade,
                 superseded |-> next.superseded]
      /\ next.at = "purge" /\ next.server = calls[c].server /\ next.actor = calls[c].actor
      /\ SubjectOf(next.scope) = calls[c].subject
  BY <1>3 DEF SubjectOf
<1>7. EntitledToPurge(next.server, next.actor, SubjectOf(next.scope))
  BY <1>1, <1>4, <1>6 DEF PurgeStage
<1>8. AdminRowsKept /\ NewRowsAreAuthorised
  BY <1>1, NoRowIsAuthorised DEF AdminRowsKept, ServiceInv
<1>9. CallOK(next)'
  <2>1. CallOK(next) BY <1>4, <1>6, <1>7 DEF CallOK, PurgeStage
  <2>2. running[next.server].up BY <1>4, <1>6
  <2> QED BY <2>1, <2>2, <1>1, <1>8, CallStays
<1>10. Apart' BY <1>1, ApartStays DEF ServiceInv
<1> QED BY <1>1, <1>5, <1>8, <1>9, <1>10, StepKeeps

LEMMA PurgeKeepsScopes ==
  ASSUME ServiceInv, ServiceAssumption, NEW c \in Callers, Purge(c)
  PROVE  ServiceInv' /\ NewRowsAreAuthorised
<1> DEFINE m == Meta(calls[c].actor, FALSE, "none")
           s == calls[c].scope
           a == [id |-> minted + 1, scope |-> s, event |-> "SubjectPurged",
                 items |-> {}, meta |-> m]
<1>1. /\ calls[c].at = "purge" /\ UNCHANGED <<file, running, added, shown, brought>>
      /\ calls' = [calls EXCEPT ![c] = Idle] /\ minted' = minted + 1
      /\ PurgeSubject(SubjectOf(s), calls[c].cascade, s, minted + 1, m)
  BY DEF Purge, Returned, histories, SubjectOf, Mint
<1>2. /\ items' \subseteq items /\ audit' \subseteq audit \cup {a}
      /\ \A z \in audit : SubjectOf(z.scope) # SubjectOf(s) => z \in audit'
  BY <1>1, PurgeIs
<1>3. PurgeStage(calls[c]) /\ calls[c] # Idle
  BY <1>1, StageIs
<1>4. EntitledToPurge(calls[c].server, calls[c].actor, SubjectOf(s))
  BY <1>1, <1>3 DEF PurgeStage
<1>5. a.scope = s /\ a.event = "SubjectPurged" /\ a.meta.actor = calls[c].actor
  BY DEF Meta
<1> HIDE DEF a, m
<1>6. AdminRowsKept
  BY <1>1, <1>2, <1>4
  DEF AdminRowsKept, EntitledToPurge, AdminScope, SubjectOf, Reserved, ServiceInv
<1>7. Apart'
  <2>1. items' \ items = {} BY <1>2
  <2>2. a.scope[1] \notin Reserved BY <1>4, <1>5 DEF EntitledToPurge, SubjectOf
  <2> QED BY <2>1, <2>2, <1>1, <1>2, <1>5, <1>6, RowsStayApart DEF ServiceInv
<1>8. RowAuthorised(a) BY <1>3, <1>4, <1>5, RowIsAuthorised DEF EntitledToPurge
<1>9. NewRowsAreAuthorised BY <1>1, <1>2, <1>8, OneRowIsAuthorised
<1> QED BY <1>1, <1>6, <1>7, <1>9, IdleIsOK, StepKeeps

LEMMA CutKeeps ==
  ASSUME ServiceInv, NEW c \in Callers, Cut(c)
  PROVE  ServiceInv' /\ NewRowsAreAuthorised
<1>1. /\ UNCHANGED <<file, running, added, shown, items, audit, minted, brought>>
      /\ calls' = [calls EXCEPT ![c] = Idle]
  BY DEF Cut, Returned, vars, tables
<1>2. AdminRowsKept /\ NewRowsAreAuthorised
  BY <1>1, NoRowIsAuthorised DEF AdminRowsKept, ServiceInv
<1>3. Apart' BY <1>1, ApartStays DEF ServiceInv
<1> QED BY <1>1, <1>2, <1>3, IdleIsOK, StepKeeps

LEMMA BringInKeeps ==
  ASSUME ServiceInv, ServiceAssumption, NEW c \in Callers, BringIn(c)
  PROVE  ServiceInv' /\ NewRowsAreAuthorised
<1>1. PICK st \in Streams :
        /\ ImportCommits(st) /\ Import(st) /\ brought' = Brought(st)
        /\ calls' = [calls EXCEPT ![c].at = "record", ![c].refs = Ids(st.items)]
  BY DEF BringIn
<1>2. /\ calls[c].at = "import" /\ UNCHANGED <<file, running, added, shown, minted>>
      /\ items' = items \cup ImportedRows(st) /\ audit' = audit \cup st.audits
  BY <1>1 DEF BringIn, Import, ImportCommit, AuditInserted
<1>3. /\ ImportStage(calls[c]) /\ calls[c] # Idle
      /\ calls[c].server \in Processes /\ running[calls[c].server].up
  BY <1>2, StageIs
<1>4. /\ brought'.items = brought.items \cup ImportedRows(st)
      /\ brought'.audits = brought.audits \cup st.audits
  BY <1>1 DEF Brought
<1>5. PICK next : next = [calls[c] EXCEPT !.at = "record", !.refs = Ids(st.items)] OBVIOUS
<1>6. /\ next = [kind |-> next.kind, at |-> next.at, server |-> next.server,
                 actor |-> next.actor, event |-> next.event, refs |-> next.refs]
      /\ next.at = "record" /\ next.server = calls[c].server /\ next.actor = calls[c].actor
      /\ next.event = "Imported"
  BY <1>3, <1>5 DEF ImportStage
<1>7. calls' = [calls EXCEPT ![c] = next] /\ calls'[c] = next
  BY <1>1, <1>5 DEF ServiceInv, CallsOK
<1>8. AdminRowsKept BY <1>2 DEF AdminRowsKept, ServiceInv
<1>9. CallOK(next)'
  <2>1. CallOK(next) BY <1>3, <1>6 DEF CallOK, ImportStage
  <2>2. running[next.server].up BY <1>3, <1>6
  <2> QED BY <2>1, <2>2, <1>2, <1>8, CallStays
<1>10. Apart'
  <2>1. ReadsStayWithTheSubject' BY <1>2 DEF ServiceInv, Apart, ReadsStayWithTheSubject
  <2>2. ExportsAreAudited' BY <1>2 DEF ServiceInv, Apart, ExportsAreAudited
  <2>3. ReservedScopesAreTheEngines'
    BY <1>2, <1>4 DEF ServiceInv, Apart, ReservedScopesAreTheEngines
  <2> QED BY <2>1, <2>2, <2>3 DEF Apart
<1>11. NewRowsAreAuthorised
  <2>1. calls[c].actor = "cli" \/ Holder(calls[c].actor)
    BY <1>3 DEF ImportStage, KeyOrCommand, Loaded, Holder
  <2>2. calls'[c].at = "record" BY <1>6, <1>7
  <2>3. (audit' \ audit) \ brought'.audits = {} BY <1>2, <1>4
  <2> QED BY <1>2, <2>1, <2>2, <2>3 DEF NewRowsAreAuthorised
<1> QED BY <1>2, <1>7, <1>8, <1>9, <1>10, <1>11, StepKeeps

LEMMA AuditImportKeeps ==
  ASSUME ServiceInv, ServiceAssumption, NEW c \in Callers, AuditImport(c)
  PROVE  ServiceInv' /\ NewRowsAreAuthorised
<1>1. /\ calls' = [calls EXCEPT ![c] = Idle] /\ minted' = minted + 1
      /\ calls[c].at = "record" /\ calls[c].event = "Imported"
      /\ UNCHANGED <<file, running, added, shown, brought>>
  BY DEF AuditImport, Returned, histories, Mint, Unaudited
<1>2. ImportStage(calls[c]) /\ calls[c] # Idle BY <1>1, StageIs
<1>3. PICK a : /\ audit' = audit \cup {a} /\ items' = items /\ a.scope = AdminScope
               /\ a.event = "Imported" /\ a.meta = Meta(calls[c].actor, FALSE, "none")
  BY ImportRecordIs
<1>4. a.meta.actor = calls[c].actor BY <1>3 DEF Meta
<1>5. AdminRowsKept BY <1>1, <1>3 DEF AdminRowsKept, ServiceInv
<1>6. Apart'
  <2>1. items' \ items = {} BY <1>3
  <2> QED BY <2>1, <1>1, <1>3, <1>5, RowsStayApart DEF ServiceInv
<1>7. RowAuthorised(a)
  BY <1>2, <1>3, <1>4, RowIsAuthorised DEF ImportStage, KeyOrCommand
<1>8. NewRowsAreAuthorised BY <1>1, <1>3, <1>7, OneRowIsAuthorised
<1> QED BY <1>1, <1>5, <1>6, <1>8, IdleIsOK, StepKeeps

LEMMA ExportKeeps ==
  ASSUME ServiceInv, ServiceAssumption, NEW c \in Callers, Export(c)
  PROVE  ServiceInv' /\ NewRowsAreAuthorised
<1>1. /\ calls[c].at = "export"
      /\ UNCHANGED <<items, audit, minted, brought, file, running, added, shown>>
      /\ calls' = [calls EXCEPT ![c].at = "exported", ![c].scopes = Selected(calls[c])]
  BY DEF Export, histories, vars, tables
<1>2. /\ ExportStage(calls[c])
      /\ calls[c].server \in Processes /\ running[calls[c].server].up
  BY <1>1, StageIs
<1>3. PICK next : next = [calls[c] EXCEPT !.at = "exported", !.scopes = Selected(calls[c])]
  OBVIOUS
<1>4. /\ next = [kind |-> next.kind, at |-> next.at, server |-> next.server,
                 actor |-> next.actor, subject |-> next.subject, namespace |-> next.namespace,
                 includeAudit |-> next.includeAudit, scopes |-> next.scopes,
                 since |-> next.since]
      /\ next.at = "exported" /\ next.server = calls[c].server /\ next.actor = calls[c].actor
      /\ next.subject = calls[c].subject /\ next.scopes = Selected(calls[c])
      /\ next.since = calls[c].since
  BY <1>2, <1>3 DEF ExportStage
<1>5. calls[c].subject # {} => \A s \in next.scopes : s[1] \in calls[c].subject
  BY <1>4 DEF Selected
<1>6. ExportStage(next) BY <1>2, <1>4, <1>5 DEF ExportStage
<1>7. calls' = [calls EXCEPT ![c] = next] BY <1>1, <1>3
<1>8. AdminRowsKept /\ NewRowsAreAuthorised /\ Apart'
  BY <1>1, NoRowIsAuthorised, ApartStays DEF AdminRowsKept, ServiceInv
<1>9. CallOK(next)'
  <2>1. CallOK(next) BY <1>2, <1>4, <1>6 DEF CallOK
  <2>2. running[next.server].up BY <1>2, <1>4
  <2> QED BY <2>1, <2>2, <1>1, <1>8, CallStays
<1> QED BY <1>1, <1>7, <1>8, <1>9, StepKeeps

LEMMA AuditExportKeeps ==
  ASSUME ServiceInv, ServiceAssumption, NEW c \in Callers, AuditExport(c)
  PROVE  ServiceInv' /\ NewRowsAreAuthorised
<1> DEFINE m == Meta(calls[c].actor, TRUE, "none")
           a == [id |-> minted + 1, scope |-> AdminScope, event |-> "Exported",
                 items |-> {}, meta |-> m]
<1>1. /\ calls[c].at = "exported" /\ UNCHANGED <<file, running, added, shown, brought>>
      /\ audit' = audit \cup {a} /\ items' = items /\ minted' = minted + 1
      /\ calls' = [calls EXCEPT ![c].at = "answer"]
  BY RecordIs DEF AuditExport, histories, Mint
<1>2. /\ ExportStage(calls[c]) /\ calls[c] # Idle
      /\ calls[c].server \in Processes /\ running[calls[c].server].up
  BY <1>1, StageIs
<1>3. PICK next : next = [calls[c] EXCEPT !.at = "answer"] OBVIOUS
<1>4. /\ next = [kind |-> next.kind, at |-> next.at, server |-> next.server,
                 actor |-> next.actor, subject |-> next.subject, namespace |-> next.namespace,
                 includeAudit |-> next.includeAudit, scopes |-> next.scopes,
                 since |-> next.since]
      /\ next.at = "answer" /\ next.server = calls[c].server /\ next.actor = calls[c].actor
      /\ next.subject = calls[c].subject /\ next.scopes = calls[c].scopes
      /\ next.since = calls[c].since
  BY <1>2, <1>3 DEF ExportStage
<1>5. calls' = [calls EXCEPT ![c] = next] BY <1>1, <1>3
<1>6. /\ a.scope = AdminScope /\ a.event = "Exported" /\ a.meta.actor = calls[c].actor
      /\ a.id = minted + 1
  BY DEF Meta
<1> HIDE DEF a, m
<1>7. AdminRowsKept BY <1>1 DEF AdminRowsKept, ServiceInv
<1>8. Apart'
  <2>1. items' \ items = {} BY <1>1
  <2> QED BY <2>1, <1>1, <1>6, <1>7, RowsStayApart DEF ServiceInv
<1>9. ExportStage(next)'
  <2>1. next.since \in Nat /\ next.since =< minted' /\ a.id > next.since
    BY <1>1, <1>2, <1>4, <1>6 DEF ExportStage, ServiceInv
  <2>2. RecordedExport(next.actor, next.since)' BY <1>1, <1>4, <1>6, <2>1 DEF RecordedExport
  <2>3. EntitledToExport(next.server, next.actor, next.subject)'
    BY <1>1, <1>2, <1>4 DEF ExportStage, EntitledToExport, Loaded
  <2> QED BY <1>2, <1>4, <2>1, <2>2, <2>3 DEF ExportStage
<1>10. CallOK(next)' BY <1>1, <1>2, <1>4, <1>9 DEF CallOK
<1>11. RowAuthorised(a)
  BY <1>2, <1>6, RowIsAuthorised DEF ExportStage, EntitledToExport
<1>12. NewRowsAreAuthorised BY <1>1, <1>11, OneRowIsAuthorised
<1> QED BY <1>1, <1>5, <1>7, <1>8, <1>10, <1>12, StepKeeps

LEMMA AnswerExportKeeps ==
  ASSUME ServiceInv, ServiceAssumption, NEW c \in Callers, AnswerExport(c)
  PROVE  ServiceInv' /\ NewRowsAreAuthorised
<1>1. /\ calls' = [calls EXCEPT ![c] = Idle] /\ calls[c].at = "answer"
      /\ UNCHANGED <<file, running, added, items, audit, minted, brought>>
      /\ \A z \in shown' : /\ z[1] = calls[c].actor /\ z[3] = {calls[c].since}
                           /\ z[2] \in calls[c].scopes \cup Selected(calls[c])
  BY DEF AnswerExport, Returned, vars, tables, Showing
<1>2. /\ ExportStage(calls[c])
      /\ calls[c].server \in Processes /\ running[calls[c].server].up
  BY <1>1, StageIs
<1>3. calls[c].subject # {} => \A z \in shown' : z[2][1] \in calls[c].subject
  BY <1>1, <1>2 DEF ExportStage, Selected
<1>4. ReadsStayWithTheSubject'
  <2> SUFFICES ASSUME NEW z \in shown', NEW k \in FirstKeys \cup NewKeys, k.id = z[1]
               PROVE  z[2][1] = k.subject
    BY <1>1 DEF ReadsStayWithTheSubject
  <2>1. calls[c].actor # "cli" BY <1>1, ServiceAssumption DEF KeyIds
  <2>2. PICK q \in running[calls[c].server].keys :
          /\ Loaded(calls[c].server, q) /\ q.id = calls[c].actor
          /\ calls[c].subject = {q.subject}
    BY <1>2, <2>1 DEF ExportStage, EntitledToExport
  <2>3. Entitled(calls[c].server, calls[c].actor, q.subject) BY <2>2 DEF Entitled
  <2>4. q.subject = k.subject BY <1>1, <1>2, <2>3, EntitledAlone
  <2> QED BY <1>3, <2>2, <2>4
<1>5. ExportsAreAudited' BY <1>1, <1>2 DEF ExportsAreAudited, ExportStage, RecordedExport
<1>6. ReservedScopesAreTheEngines' BY <1>1 DEF ServiceInv, Apart, ReservedScopesAreTheEngines
<1>7. AdminRowsKept BY <1>1 DEF AdminRowsKept, ServiceInv
<1> QED BY <1>1, <1>4, <1>5, <1>6, <1>7, IdleIsOK, StepKeeps, NoRowIsAuthorised DEF Apart

LEMMA RefuseImportKeeps ==
  ASSUME ServiceInv, NEW c \in Callers, RefuseImport(c)
  PROVE  ServiceInv' /\ NewRowsAreAuthorised
<1>1. /\ UNCHANGED <<file, running, added, shown, items, audit, minted, brought>>
      /\ calls' = [calls EXCEPT ![c] = Idle]
  BY DEF RefuseImport, Returned, vars, tables, histories
<1>2. AdminRowsKept /\ NewRowsAreAuthorised
  BY <1>1, NoRowIsAuthorised DEF AdminRowsKept, ServiceInv
<1>3. Apart' BY <1>1, ApartStays DEF ServiceInv
<1> QED BY <1>1, <1>2, <1>3, IdleIsOK, StepKeeps

LEMMA NewCallKeeps ==
  ASSUME ServiceInv, ServiceAssumption, NEW c \in Callers,
         \/ BeginRemember(c) \/ BeginRead(c) \/ BeginSetting(c)
         \/ BeginBudget(c) \/ BeginPurge(c) \/ BeginImport(c) \/ BeginExport(c)
  PROVE  ServiceInv' /\ NewRowsAreAuthorised
<1>1. ASSUME NEW call, Begun(c, call) PROVE NewRowsAreAuthorised
  BY <1>1, NoRowIsAuthorised DEF Begun, vars, tables
<1>2. CASE BeginRemember(c)
  <2>1. PICK p \in Processes, r \in Requests :
          running[p].up /\ \E x \in Resolve(p, r) :
             /\ x.tenant = Home
             /\ Begun(c, [kind |-> "remember", at |-> "apply", server |-> p,
                          scope |-> x.scope, actor |-> x.actor])
    BY <1>2 DEF BeginRemember
  <2>2. PICK x \in Resolve(p, r) :
             /\ x.tenant = Home
             /\ Begun(c, [kind |-> "remember", at |-> "apply", server |-> p,
                          scope |-> x.scope, actor |-> x.actor])
    BY <2>1
  <2>3. Entitled(p, x.actor, SubjectOf(x.scope)) /\ Open(x.scope) BY <2>1, <2>2, ResolvedIs
  <2>4. PICK call : call = [kind |-> "remember", at |-> "apply", server |-> p,
                            scope |-> x.scope, actor |-> x.actor]
    OBVIOUS
  <2>5. Begun(c, call) /\ call # Idle /\ call.server \in Processes
    BY <2>2, <2>4 DEF Idle
  <2>6. Reaching(call) BY <2>3, <2>4 DEF Reaching
  <2> QED BY <1>1, <2>5, <2>6, BegunKeeps
<1>3. CASE BeginRead(c)
  <2>1. PICK p \in Processes, r \in Requests :
          running[p].up /\ \E x \in Resolve(p, r) \cup
                                    UNION {ResourceScope(p, r, u) : u \in Resources} :
             /\ x.tenant = Home
             /\ Begun(c, [kind |-> "read", at |-> "read", server |-> p,
                          scope |-> x.scope, actor |-> x.actor])
    BY <1>3 DEF BeginRead
  <2>2. PICK x \in Resolve(p, r) \cup UNION {ResourceScope(p, r, u) : u \in Resources} :
             /\ x.tenant = Home
             /\ Begun(c, [kind |-> "read", at |-> "read", server |-> p,
                          scope |-> x.scope, actor |-> x.actor])
    BY <2>1
  <2>3. PICK asked : x \in Resolve(p, asked) BY <2>2 DEF ResourceScope
  <2>4. Entitled(p, x.actor, SubjectOf(x.scope)) /\ Open(x.scope)
    BY <2>1, <2>2, <2>3, ResolvedIs
  <2>5. PICK call : call = [kind |-> "read", at |-> "read", server |-> p,
                            scope |-> x.scope, actor |-> x.actor]
    OBVIOUS
  <2>6. Begun(c, call) /\ call # Idle /\ call.server \in Processes
    BY <2>2, <2>5 DEF Idle
  <2>7. Reaching(call) BY <2>4, <2>5 DEF Reaching
  <2> QED BY <1>1, <2>6, <2>7, BegunKeeps
<1>4. CASE BeginSetting(c)
  <2>1. PICK p \in Processes, shownKey \in Presented, tenant \in Tenants, s \in SettingsPut :
          running[p].up /\ \E k \in Authenticate(running[p].keys, shownKey) :
             /\ k.tenant = Home
             /\ Begun(c, [kind |-> s.kind, at |-> "audit", server |-> p, to |-> s.to,
                          actor |-> k.id])
    BY <1>4 DEF BeginSetting, SameTenant
  <2>2. PICK k \in Authenticate(running[p].keys, shownKey) :
             /\ k.tenant = Home
             /\ Begun(c, [kind |-> s.kind, at |-> "audit", server |-> p, to |-> s.to,
                          actor |-> k.id])
    BY <2>1
  <2>3. Loaded(p, k) /\ k \in running[p].keys BY <2>1, <2>2, KeyIsEntitled DEF Authenticate
  <2>4. \/ s.kind = "policy" /\ s.to \in Configs /\ ValidConfig(s.to)
        \/ s.kind = "retention" /\ s.to \in Profiles
    BY ServiceAssumption DEF SettingsPut
  <2>5. PICK call : call = [kind |-> s.kind, at |-> "audit", server |-> p, to |-> s.to,
                            actor |-> k.id]
    OBVIOUS
  <2>6. Begun(c, call) /\ call # Idle /\ call.server \in Processes
    BY <2>2, <2>5 DEF Idle
  <2>7. Setting(call) BY <2>3, <2>4, <2>5 DEF Setting
  <2> QED BY <1>1, <2>6, <2>7, BegunKeeps
<1>5. CASE BeginBudget(c)
  <2>1. PICK p \in Processes, r \in Requests, tenant \in Tenants, b \in Budgets :
          /\ running[p].up
          /\ TransportOf[p] = "http"
          /\ \E k \in Authenticate(running[p].keys, r.credential) : SameTenant(k, tenant)
          /\ tenant = Home
          /\ \E x \in Resolve(p, r) :
               Begun(c, [kind |-> "budget", at |-> "ceiling", server |-> p,
                         scope |-> x.scope, actor |-> "system", to |-> b,
                         event |-> "PolicyChanged"])
    BY <1>5 DEF BeginBudget
  <2>2. PICK x \in Resolve(p, r) :
               Begun(c, [kind |-> "budget", at |-> "ceiling", server |-> p,
                         scope |-> x.scope, actor |-> "system", to |-> b,
                         event |-> "PolicyChanged"])
    BY <2>1
  <2>3. Open(x.scope)
    BY <2>1, <2>2 DEF Resolve, ApiKeyScope, Reached, CheckReserved, Open
  <2>4. PICK call : call = [kind |-> "budget", at |-> "ceiling", server |-> p,
                            scope |-> x.scope, actor |-> "system", to |-> b,
                         event |-> "PolicyChanged"]
    OBVIOUS
  <2>5. Begun(c, call) /\ call # Idle /\ call.server \in Processes
    BY <2>2, <2>4 DEF Idle
  <2>6. Budgeting(call) BY <2>3, <2>4 DEF Budgeting
  <2> QED BY <1>1, <2>5, <2>6, BegunKeeps
<1>6. CASE BeginPurge(c)
  <2>1. PICK p \in Processes :
          /\ running[p].up
          /\ \/ /\ TransportOf[p] = "http"
                /\ \E shownKey \in Presented : \E k \in Authenticate(running[p].keys, shownKey) :
                     k.tenant = Home /\ Begun(c, Purging(p, k.subject, k.id))
             \/ /\ TransportOf[p] = "cli"
                /\ \E j \in PurgeableSubjects : Begun(c, Purging(p, j, "cli"))
    BY <1>6 DEF BeginPurge
  <2>2. PICK j, actor : EntitledToPurge(p, actor, j) /\ Begun(c, Purging(p, j, actor))
    <3>1. CASE \E shownKey \in Presented : \E k \in Authenticate(running[p].keys, shownKey) :
                 k.tenant = Home /\ Begun(c, Purging(p, k.subject, k.id))
      BY <2>1, <3>1, KeyIsEntitled DEF EntitledToPurge
    <3>2. CASE \E j \in PurgeableSubjects : Begun(c, Purging(p, j, "cli"))
      BY <3>2 DEF EntitledToPurge, PurgeableSubjects, CheckReserved
    <3> QED BY <2>1, <3>1, <3>2
  <2>3. PICK call : call = Purging(p, j, actor) OBVIOUS
  <2>4. Begun(c, call) /\ call # Idle /\ call.server \in Processes
    BY <2>2, <2>3 DEF Purging, Idle
  <2>5. PurgeStage(call) BY <2>2, <2>3 DEF PurgeStage, Purging
  <2> QED BY <1>1, <2>4, <2>5, BegunKeeps
<1>7. CASE BeginImport(c)
  <2>1. PICK p \in Processes :
          /\ running[p].up
          /\ \/ \E shownKey \in Presented : \E k \in Authenticate(running[p].keys, shownKey) :
                  k.tenant = Home /\ Begun(c, Importing(p, k.id))
             \/ Begun(c, Importing(p, "cli"))
    BY <1>7 DEF BeginImport
  <2>2. PICK actor : KeyOrCommand(p, actor) /\ Begun(c, Importing(p, actor))
    <3>1. CASE \E shownKey \in Presented : \E k \in Authenticate(running[p].keys, shownKey) :
                 k.tenant = Home /\ Begun(c, Importing(p, k.id))
      BY <2>1, <3>1, KeyIsEntitled DEF KeyOrCommand, Authenticate
    <3>2. CASE Begun(c, Importing(p, "cli")) BY <3>2 DEF KeyOrCommand
    <3> QED BY <2>1, <3>1, <3>2
  <2>3. PICK call : call = Importing(p, actor) OBVIOUS
  <2>4. Begun(c, call) /\ call # Idle /\ call.server \in Processes
    BY <2>2, <2>3 DEF Importing, Idle
  <2>5. ImportStage(call) BY <2>2, <2>3 DEF ImportStage, Importing
  <2> QED BY <1>1, <2>4, <2>5, BegunKeeps
<1>8. CASE BeginExport(c)
  <2>1. PICK p \in Processes, r \in Requests :
          running[p].up /\ \E x \in SelectionsOf(p, r) :
            Begun(c, [kind |-> "export", at |-> "export", server |-> p, actor |-> x.actor,
                      subject |-> x.subject, namespace |-> x.namespace,
                      includeAudit |-> "includeAudit" \in r.flags, scopes |-> {}, since |-> minted])
    BY <1>8 DEF BeginExport
  <2>2. PICK x \in SelectionsOf(p, r) :
            Begun(c, [kind |-> "export", at |-> "export", server |-> p, actor |-> x.actor,
                      subject |-> x.subject, namespace |-> x.namespace,
                      includeAudit |-> "includeAudit" \in r.flags, scopes |-> {}, since |-> minted])
    BY <2>1
  <2>3. EntitledToExport(p, x.actor, x.subject)
    <3>1. CASE TransportOf[p] = "http"
      <4>1. PICK k \in Authenticate(running[p].keys, r.credential) :
              k.tenant = Home /\ x = Selection({k.subject}, r.namespace, k.id)
        BY <2>2, <3>1 DEF SelectionsOf
      <4> QED BY <2>1, <4>1, KeyIsEntitled DEF Authenticate, EntitledToExport, Selection
    <3>2. CASE TransportOf[p] = "stdio" BY <2>2, <3>2 DEF SelectionsOf
    <3>3. CASE TransportOf[p] = "cli"
      BY <2>2, <3>3 DEF SelectionsOf, SelectionOfFlags, Selection, EntitledToExport,
                        CommandScope, Reached
    <3> QED BY <3>1, <3>2, <3>3, ServiceAssumption
  <2>4. PICK call : call = [kind |-> "export", at |-> "export", server |-> p,
                      actor |-> x.actor, subject |-> x.subject, namespace |-> x.namespace,
                      includeAudit |-> "includeAudit" \in r.flags, scopes |-> {}, since |-> minted]
    OBVIOUS
  <2>5. Begun(c, call) /\ call # Idle /\ call.server \in Processes
    BY <2>2, <2>4 DEF Idle
  <2>6. ExportStage(call) BY <2>3, <2>4 DEF ExportStage, ServiceInv
  <2> QED BY <1>1, <2>5, <2>6, BegunKeeps
<1> QED BY <1>2, <1>3, <1>4, <1>5, <1>6, <1>7, <1>8

(* A process starts on the file, ends, or is replaced by one that differs  *)
(* in nothing the calls rely on.                                           *)
LEMMA OtherProcessesStay ==
  ASSUME ProcessesOK, NEW p \in Processes, NEW r, r = Down \/ r \in UpProcess,
         running' = [running EXCEPT ![p] = r], AdminRowsKept, added \subseteq added',
         ProcessOK(p)'
  PROVE  ProcessesOK'
<1>1. running' \in [Processes -> {Down} \cup UpProcess] BY DEF ProcessesOK
<1>2. ASSUME NEW q \in Processes, q # p PROVE ProcessOK(q)'
  <2>1. ProcessOK(q) /\ running'[q] = running[q] BY <1>2 DEF ProcessesOK
  <2>2. \A keys : Genuine(keys) => Genuine(keys)' BY DEF Genuine
  <2>3. \A s : AuditedSetting(s) => AuditedSetting(s)' BY DEF AuditedSetting, AdminRowsKept
  <2> QED BY <2>1, <2>2, <2>3 DEF ProcessOK
<1> QED BY <1>1, <1>2 DEF ProcessesOK

LEMMA StartKeeps ==
  ASSUME ServiceInv, ServiceAssumption, NEW p \in Processes, Start(p)
  PROVE  ServiceInv' /\ NewRowsAreAuthorised /\ KeysKeptInFile
<1>1. PICK dir \in Directories \cup {Fallback} :
        dir \notin Reserved /\ running' = [running EXCEPT ![p] = Starting(dir)]
  BY ZenonT(40) DEF Start, Slug, CheckReserved
<1>2. ~running[p].up /\ UNCHANGED <<items, audit, file, calls, shown, added, minted, brought>>
  BY DEF Start, vars, tables, histories
<1>3. PICK r : r = Starting(dir) OBVIOUS
<1>4. /\ r \in UpProcess /\ r.keys = file.keys /\ r.policy = {} /\ r.retention = {}
      /\ r.dir = dir
  BY <1>3 DEF Starting, UpProcess, ServiceInv, FileOK, Genuine
<1>5. running' = [running EXCEPT ![p] = r] BY <1>1, <1>3
<1>6. AdminRowsKept BY <1>2 DEF AdminRowsKept, ServiceInv
<1>7. ProcessOK(p)'
  <2>1. running'[p] = r BY <1>5 DEF ServiceInv, ProcessesOK
  <2>2. Genuine(r.keys)' BY <1>2, <1>4 DEF ServiceInv, FileOK, Genuine
  <2> QED BY <2>1, <2>2, <1>1, <1>4 DEF ProcessOK
<1>8. ProcessesOK' BY <1>2, <1>4, <1>5, <1>6, <1>7, OtherProcessesStay DEF ServiceInv
<1>9. CallsOK'
  <2>1. ASSUME NEW d \in Callers PROVE CallOK(calls[d])'
    <3>1. CallOK(calls[d]) BY DEF ServiceInv, CallsOK
    <3>2. calls[d] # Idle => running'[calls[d].server] = running[calls[d].server]
      BY <3>1, <1>2, <1>5 DEF CallOK, ServiceInv, ProcessesOK
    <3>3. calls[d] # Idle => running[calls[d].server].up BY <3>1 DEF CallOK
    <3>4. \A call : CallOK(call) /\ call = calls[d] => CallOK(call)'
      BY <3>2, <3>3, <1>6, CallStays
    <3> QED BY <3>1, <3>4, <1>2, CallIsOK
  <2> QED BY <2>1, <1>2 DEF CallsOK, ServiceInv
<1>10. FileOK' BY <1>2 DEF ServiceInv, FileOK, Genuine
<1>11. Apart' BY <1>2, ApartStays DEF ServiceInv
<1>12. NewRowsAreAuthorised /\ KeysKeptInFile
  BY <1>2 DEF NewRowsAreAuthorised, KeysKeptInFile
<1> QED BY <1>6, <1>8, <1>9, <1>10, <1>11, <1>12 DEF ServiceInv, AdminRowsKept

LEMMA CrashKeeps ==
  ASSUME ServiceInv, NEW p \in Processes, Crash(p)
  PROVE  ServiceInv' /\ NewRowsAreAuthorised /\ KeysKeptInFile
<1> DEFINE gone == {c \in Callers : calls[c] # Idle /\ calls[c].server = p}
<1>1. /\ running' = [running EXCEPT ![p] = Down]
      /\ calls' = [c \in Callers |-> IF c \in gone THEN Idle ELSE calls[c]]
      /\ UNCHANGED <<items, audit, file, shown, added, minted, brought>>
  BY DEF Crash, vars, tables
<1>2. AdminRowsKept BY <1>1 DEF AdminRowsKept, ServiceInv
<1>3. ProcessOK(p)' BY <1>1 DEF ServiceInv, ProcessesOK, ProcessOK
<1>4. ProcessesOK' BY <1>1, <1>2, <1>3, OtherProcessesStay DEF ServiceInv
<1>5. CallsOK'
  <2>1. ASSUME NEW d \in Callers PROVE CallOK(calls[d])'
    <3>1. CallOK(calls[d]) BY DEF ServiceInv, CallsOK
    <3>2. CASE d \in gone
      <4>1. calls'[d] = Idle BY <1>1, <3>2
      <4> QED BY <4>1 DEF CallOK
    <3>3. CASE d \notin gone
      <4>1. calls'[d] = calls[d] BY <1>1, <3>3
      <4>2. calls[d] # Idle => running'[calls[d].server] = running[calls[d].server]
        BY <3>1, <3>3, <1>1 DEF CallOK, ServiceInv, ProcessesOK
      <4>3. calls[d] # Idle => running[calls[d].server].up BY <3>1 DEF CallOK
      <4>4. \A call : CallOK(call) /\ call = calls[d] => CallOK(call)'
        BY <4>2, <4>3, <1>2, CallStays
      <4> QED BY <3>1, <4>1, <4>4, CallIsOK
    <3> QED BY <3>2, <3>3
  <2> QED BY <2>1, <1>1 DEF CallsOK
<1>6. FileOK' BY <1>1 DEF ServiceInv, FileOK, Genuine
<1>7. Apart' BY <1>1, ApartStays DEF ServiceInv
<1>8. NewRowsAreAuthorised /\ KeysKeptInFile
  BY <1>1 DEF NewRowsAreAuthorised, KeysKeptInFile
<1> QED BY <1>2, <1>4, <1>5, <1>6, <1>7, <1>8 DEF ServiceInv, AdminRowsKept

LEMMA KeysAddKeeps ==
  ASSUME ServiceInv, ServiceAssumption, NEW p \in Processes, KeysAdd(p)
  PROVE  ServiceInv' /\ NewRowsAreAuthorised /\ KeysKeptInFile
<1>1. /\ running[p].up /\ UNCHANGED <<items, audit, calls, shown, minted, brought>>
      /\ running' = [running EXCEPT ![p].served = TRUE]
      /\ overtook' = (overtook \/ file # [keys |-> running[p].keys,
                                          retention |-> running[p].default])
  BY DEF KeysAdd, vars, tables
<1>2. PICK k \in NewKeys : /\ k.id \notin added /\ added' = added \cup {k.id}
                           /\ file' = [keys |-> running[p].keys \cup {k},
                                       retention |-> running[p].default]
  BY DEF KeysAdd, Saved
<1>3. ProcessesOK /\ ProcessOK(p) /\ running[p] \in UpProcess /\ running[p] # Down
  BY <1>1 DEF ServiceInv, ProcessesOK, ProcessOK, Down
<1>4. PICK r : r = [running[p] EXCEPT !.served = TRUE] OBVIOUS
<1>5. /\ r \in UpProcess /\ r.keys = running[p].keys /\ r.up /\ r.dir = running[p].dir
      /\ r.policy = running[p].policy /\ r.retention = running[p].retention
  BY <1>3, <1>4 DEF UpProcess
<1>6. /\ running' = [running EXCEPT ![p] = r] /\ running'[p] = r
      /\ \A q \in Processes : q # p => running'[q] = running[q]
  BY <1>1, <1>3, <1>4 DEF ProcessesOK
<1>7. AdminRowsKept /\ \A s : AuditedSetting(s) => AuditedSetting(s)'
  BY <1>1 DEF AdminRowsKept, AuditedSetting, ServiceInv
<1>8. \A keys : Genuine(keys) => Genuine(keys)' BY <1>2 DEF Genuine
<1>9. ProcessesOK'
  <2>1. ProcessOK(p)' BY <1>3, <1>5, <1>6, <1>7, <1>8 DEF ProcessOK
  <2> QED BY <2>1, <1>2, <1>3, <1>5, <1>6, <1>7, OtherProcessesStay
<1>10. CallsOK'
  <2>1. ASSUME NEW d \in Callers PROVE CallOK(calls[d])'
    <3>1. CallOK(calls[d]) BY DEF ServiceInv, CallsOK
    <3>2. calls[d] # Idle => /\ running'[calls[d].server].keys = running[calls[d].server].keys
                             /\ running'[calls[d].server].up
      BY <3>1, <1>5, <1>6 DEF CallOK
    <3>3. \A call : CallOK(call) /\ call = calls[d] => CallOK(call)'
      BY <3>2, <1>7, CallStays
    <3> QED BY <3>1, <3>3, <1>1, CallIsOK
  <2> QED BY <2>1, <1>1 DEF CallsOK, ServiceInv
<1>11. FileOK'
  <2>1. Genuine(running[p].keys) BY <1>3 DEF ProcessOK
  <2>2. running[p].keys \cup {k} \subseteq KeyRecord BY <2>1, ServiceAssumption DEF Genuine
  <2>3. \A z \in running[p].keys : z.id # k.id
    <3> SUFFICES ASSUME NEW z \in running[p].keys, z.id = k.id PROVE FALSE OBVIOUS
    <3>1. PICK q \in FirstKeys \cup NewKeys :
            z.id = q.id /\ (q \in FirstKeys \/ q.id \in added)
      BY <2>1 DEF Genuine
    <3>2. q = k BY <3>1, ServiceAssumption
    <3> QED BY <3>1, <3>2, <1>2, ServiceAssumption
  <2>4. Genuine(running[p].keys)' BY <2>1, <1>8, <1>5, <1>6, ZenonT(40) DEF Genuine
  <2>5. file'.keys = running[p].keys \cup {k} /\ file'.retention \in Profiles
    BY <1>2, <1>3 DEF UpProcess
  <2>6. Genuine(file.keys)'
    <3>1. \A z \in file'.keys : \E q \in FirstKeys \cup NewKeys :
            /\ z.id = q.id /\ z.subject = q.subject /\ z.default = q.default
            /\ q \in FirstKeys \/ q.id \in added'
      BY <2>1, <2>5, <1>2 DEF Genuine
    <3>2. \A z, q \in file'.keys : z.id = q.id => z = q
      BY <2>1, <2>3, <2>5 DEF Genuine
    <3> QED BY <2>2, <2>5, <3>1, <3>2 DEF Genuine
  <2> QED BY <2>5, <2>6, <1>2 DEF FileOK
<1>12. Apart' BY <1>1, ApartStays DEF ServiceInv
<1>13. NewRowsAreAuthorised BY <1>1, NoRowIsAuthorised
<1>14. KeysKeptInFile
  <2>1. CASE overtook' BY <2>1 DEF KeysKeptInFile
  <2>2. CASE ~overtook'
    <3>1. file.keys = running[p].keys /\ file'.keys = running[p].keys \cup {k}
      <4>1. file = [keys |-> running[p].keys, retention |-> running[p].default]
        BY <1>1, <2>2, Zenon
      <4> QED BY <4>1, <1>2
    <3> QED BY <3>1 DEF KeysKeptInFile
  <2> QED BY <2>1, <2>2
<1> QED BY <1>7, <1>9, <1>10, <1>11, <1>12, <1>13, <1>14 DEF ServiceInv, AdminRowsKept

LEMMA DisabledKeyIs ==
  ASSUME NEW k \in KeyRecord, NEW z, z = [k EXCEPT !.disabled = TRUE]
  PROVE  /\ z \in KeyRecord /\ z.id = k.id /\ z.subject = k.subject
         /\ z.default = k.default /\ z.disabled
<1> DEFINE ids == {q.id : q \in FirstKeys \cup NewKeys}
           defaults == AtMostOne(Namespaces)
           secrets == {q.secret : q \in FirstKeys \cup NewKeys}
<1>1. KeyRecord = [id : ids, tenant : Tenants, subject : Subjects, default : defaults,
                   secret : secrets, disabled : BOOLEAN]
  BY DEF KeyRecord
<1> HIDE DEF ids, defaults, secrets
<1> QED BY <1>1

LEMMA EditKeeps ==
  ASSUME ServiceInv, ServiceAssumption, Edit
  PROVE  ServiceInv' /\ NewRowsAreAuthorised /\ KeysKeptInFile
<1>1. UNCHANGED <<items, audit, running, calls, shown, added, minted, brought>>
  BY DEF Edit, vars, tables, histories
<1>2. AdminRowsKept /\ NewRowsAreAuthorised
  BY <1>1, NoRowIsAuthorised DEF AdminRowsKept, ServiceInv
<1>3. ProcessesOK' BY <1>1, <1>2, ProcessesStay DEF ServiceInv
<1>4. CallsOK'
  <2>1. ASSUME NEW d \in Callers PROVE CallOK(calls[d])'
    <3>1. CallOK(calls[d]) BY DEF ServiceInv, CallsOK
    <3>2. \A call : CallOK(call) /\ call = calls[d] => CallOK(call)'
      BY <1>1, <1>2, CallStays DEF CallOK
    <3> QED BY <3>1, <3>2, <1>1, CallIsOK
  <2> QED BY <2>1, <1>1 DEF CallsOK, ServiceInv
<1>5. FileOK' /\ KeysKeptInFile
  <2>1. FileOK BY DEF ServiceInv
  <2>2. CASE \E r \in ProfilesPut \ {file.retention} : file' = [file EXCEPT !.retention = r]
    <3>1. PICK r \in ProfilesPut : file' = [keys |-> file.keys, retention |-> r]
      BY <2>1, <2>2 DEF FileOK
    <3>2. r \in Profiles BY ServiceAssumption
    <3> QED BY <3>1, <3>2, <2>1, <1>1 DEF FileOK, Genuine, KeysKeptInFile
  <2>3. CASE \E k \in file.keys :
          ~k.disabled /\ file' = [file EXCEPT !.keys = (@ \ {k}) \cup {[k EXCEPT !.disabled = TRUE]}]
    <3>1. PICK k \in file.keys :
            file' = [keys |-> (file.keys \ {k}) \cup {[k EXCEPT !.disabled = TRUE]},
                     retention |-> file.retention]
      BY <2>1, <2>3 DEF FileOK
    <3>2. PICK z : z = [k EXCEPT !.disabled = TRUE] OBVIOUS
    <3>3. /\ z \in KeyRecord /\ z.id = k.id /\ z.subject = k.subject
          /\ z.default = k.default /\ z.disabled
      BY <2>1, <3>2, DisabledKeyIs DEF FileOK, Genuine
    <3>4. file'.keys = (file.keys \ {k}) \cup {z} /\ file'.retention = file.retention
      BY <3>1, <3>2
    <3>5. Genuine(file.keys)'
      <4>1. \A y, q \in file'.keys : y.id = q.id => y = q
        BY <2>1, <3>3, <3>4 DEF FileOK, Genuine
      <4>2. \A y \in file'.keys : \E q \in FirstKeys \cup NewKeys :
              /\ y.id = q.id /\ y.subject = q.subject /\ y.default = q.default
              /\ q \in FirstKeys \/ q.id \in added'
        BY <2>1, <3>3, <3>4, <1>1 DEF FileOK, Genuine
      <4>3. file'.keys \subseteq KeyRecord BY <2>1, <3>3, <3>4 DEF FileOK, Genuine
      <4> QED BY <4>1, <4>2, <4>3 DEF Genuine
    <3> QED BY <2>1, <3>1, <3>3, <3>4, <3>5 DEF FileOK, KeysKeptInFile
  <2> QED BY <2>2, <2>3 DEF Edit
<1>6. Apart' BY <1>1, ApartStays DEF ServiceInv
<1> QED BY <1>2, <1>3, <1>4, <1>5, <1>6 DEF ServiceInv, AdminRowsKept

LEMMA InitServiceInv ==
  ASSUME ServiceAssumption, ServiceInit PROVE ServiceInv
<1>1. /\ items = Stored /\ audit = Logged /\ shown = {} /\ minted = 0
      /\ calls = [c \in Callers |-> Idle]
      /\ file = [keys |-> FirstKeys, retention |-> FirstProfile]
      /\ running = [p \in Processes |-> IF p \in FirstUp THEN Starting(Fallback) ELSE Down]
  BY DEF ServiceInit
<1>2. FileOK BY <1>1, ServiceAssumption DEF FileOK, Genuine
<1>3. PICK r : r = Starting(Fallback) OBVIOUS
<1>4. /\ r \in UpProcess /\ r.keys = file.keys /\ r.policy = {} /\ r.retention = {}
      /\ r.dir = Fallback
  BY <1>2, <1>3 DEF Starting, UpProcess, FileOK, Genuine
<1>5. ProcessesOK
  <2>1. running = [p \in Processes |-> IF p \in FirstUp THEN r ELSE Down] BY <1>1, <1>3
  <2> QED BY <2>1, <1>2, <1>4 DEF ProcessesOK, ProcessOK, FileOK, Fallback, Reserved
<1>6. CallsOK BY <1>1 DEF CallsOK, CallOK
<1>7. ReadsStayWithTheSubject /\ ExportsAreAudited
  BY <1>1 DEF ReadsStayWithTheSubject, ExportsAreAudited
<1>8. ReservedScopesAreTheEngines
  BY <1>1, ServiceAssumption DEF ReservedScopesAreTheEngines, CheckReserved
<1> QED BY <1>1, <1>2, <1>5, <1>6, <1>7, <1>8 DEF ServiceInv, Apart

LEMMA ServiceStutters ==
  ASSUME ServiceInv, UNCHANGED serviceVars
  PROVE  ServiceInv' /\ NewRowsAreAuthorised
<1>1. UNCHANGED <<items, audit, file, running, calls, shown, added, minted, brought>>
  BY DEF serviceVars, vars, tables
<1>2. \A keys : Genuine(keys) => Genuine(keys)' BY <1>1 DEF Genuine
<1>3. AdminRowsKept BY <1>1 DEF AdminRowsKept, ServiceInv
<1>4. FileOK' BY <1>1, <1>2 DEF ServiceInv, FileOK
<1>5. ProcessesOK' BY <1>1, <1>3, ProcessesStay DEF ServiceInv
<1>6. CallsOK'
  <2>1. ASSUME NEW d \in Callers PROVE CallOK(calls[d])'
    <3>1. CallOK(calls[d]) BY DEF ServiceInv, CallsOK
    <3>2. \A call : CallOK(call) /\ call = calls[d] => CallOK(call)'
      BY <1>1, <1>3, CallStays DEF CallOK
    <3> QED BY <3>1, <3>2, <1>1, CallIsOK
  <2> QED BY <2>1, <1>1 DEF CallsOK, ServiceInv
<1>7. Apart' BY <1>1, ApartStays DEF ServiceInv
<1>8. NewRowsAreAuthorised BY <1>1, NoRowIsAuthorised
<1> QED BY <1>3, <1>4, <1>5, <1>6, <1>7, <1>8 DEF ServiceInv, AdminRowsKept

LEMMA ServiceNextKeeps ==
  ASSUME ServiceInv, [ServiceNext]_serviceVars
  PROVE  ServiceInv' /\ NewRowsAreAuthorised /\ (KeysKeptInFile \/ UNCHANGED file)
<1>1. CASE UNCHANGED serviceVars BY <1>1, ServiceStutters DEF serviceVars
<1>2. ASSUME NEW p \in Processes, Start(p) \/ Crash(p) \/ KeysAdd(p)
      PROVE  ServiceInv' /\ NewRowsAreAuthorised /\ KeysKeptInFile
  BY <1>2, StartKeeps, CrashKeeps, KeysAddKeeps, ServiceAssumption
<1>3. CASE Edit BY <1>3, EditKeeps, ServiceAssumption
<1>4. ASSUME NEW c \in Callers, Call(c)
      PROVE  ServiceInv' /\ NewRowsAreAuthorised
  <2>1. CASE \/ BeginRemember(c) \/ BeginRead(c) \/ BeginSetting(c)
             \/ BeginBudget(c) \/ BeginPurge(c) \/ BeginImport(c) \/ BeginExport(c)
    BY <2>1, NewCallKeeps, ServiceAssumption
  <2>2. CASE Remember(c) BY <2>2, RememberKeeps, ServiceAssumption
  <2>3. CASE Read(c) BY <2>3, ReadKeeps, ServiceAssumption
  <2>4. CASE AuditSetting(c) BY <2>4, AuditSettingKeeps, ServiceAssumption
  <2>5. CASE Install(c) BY <2>5, InstallKeeps, ServiceAssumption
  <2>6. CASE ChangeCeiling(c) BY <2>6, ChangeCeilingKeeps, ServiceAssumption
  <2>7. CASE AuditBudget(c) BY <2>7, AuditBudgetKeeps, ServiceAssumption
  <2>8. CASE ReadNamespaces(c) BY <2>8, ReadNamespacesKeeps, ServiceAssumption
  <2>9. CASE Purge(c) BY <2>9, PurgeKeepsScopes, ServiceAssumption
  <2>10. CASE Cut(c) BY <2>10, CutKeeps
  <2>11. CASE BringIn(c) BY <2>11, BringInKeeps, ServiceAssumption
  <2>12. CASE RefuseImport(c) BY <2>12, RefuseImportKeeps
  <2>13. CASE AuditImport(c) BY <2>13, AuditImportKeeps, ServiceAssumption
  <2>14. CASE Export(c) BY <2>14, ExportKeeps, ServiceAssumption
  <2>15. CASE AuditExport(c) BY <2>15, AuditExportKeeps, ServiceAssumption
  <2>16. CASE AnswerExport(c) BY <2>16, AnswerExportKeeps, ServiceAssumption
  <2> QED BY <1>4, <2>1, <2>2, <2>3, <2>4, <2>5, <2>6, <2>7, <2>8, <2>9, <2>10, <2>11, <2>12,
             <2>13, <2>14, <2>15, <2>16 DEF Call
<1>5. ASSUME NEW c \in Callers, Call(c) PROVE UNCHANGED file
  <2>1. \A call : Begun(c, call) => UNCHANGED file BY DEF Begun
  <2>2. BeginRemember(c) \/ BeginRead(c) => UNCHANGED file
    BY <2>1 DEF BeginRemember, BeginRead
  <2>3. BeginSetting(c) => UNCHANGED file BY <2>1 DEF BeginSetting
  <2>4. BeginBudget(c) => UNCHANGED file BY <2>1 DEF BeginBudget
  <2>5. BeginPurge(c) => UNCHANGED file BY <2>1 DEF BeginPurge
  <2>6. Remember(c) \/ Read(c) => UNCHANGED file BY DEF Remember, Read
  <2>7. AuditSetting(c) \/ Install(c) => UNCHANGED file BY DEF AuditSetting, Install
  <2>8. ChangeCeiling(c) \/ AuditBudget(c) => UNCHANGED file BY DEF ChangeCeiling, AuditBudget
  <2>9. ReadNamespaces(c) \/ Purge(c) \/ Cut(c) => UNCHANGED file
    BY DEF ReadNamespaces, Purge, Cut
  <2>10. BeginImport(c) => UNCHANGED file BY <2>1 DEF BeginImport
  <2>11. BeginExport(c) => UNCHANGED file BY <2>1 DEF BeginExport
  <2>12. BringIn(c) \/ RefuseImport(c) \/ AuditImport(c) => UNCHANGED file
    BY DEF BringIn, RefuseImport, AuditImport
  <2>13. Export(c) \/ AuditExport(c) \/ AnswerExport(c) => UNCHANGED file
    BY DEF Export, AuditExport, AnswerExport
  <2> QED BY <1>5, <2>2, <2>3, <2>4, <2>5, <2>6, <2>7, <2>8, <2>9, <2>10, <2>11, <2>12, <2>13
      DEF Call
<1> QED BY <1>1, <1>2, <1>3, <1>4, <1>5 DEF ServiceNext

-----------------------------------------------------------------------------
(* The theorems.                                                           *)

(* Whatever is asked, started, cut or crashed, the invariant holds.        *)
THEOREM ServiceInvariant == ServiceSpec => []ServiceInv
<1>1. ServiceInit => ServiceInv BY InitServiceInv, ServiceAssumption
<1>2. ServiceInv /\ [ServiceNext]_serviceVars => ServiceInv' BY ServiceNextKeeps
<1> QED BY <1>1, <1>2, PTL DEF ServiceSpec

(* What callers are shown keeps to the scopes their credentials reach, but *)
(* for the command line's exports; the reserved scopes hold what the       *)
(* engine files there and what imports brought, and every setting in force *)
(* has its row (resolver.rs, store.rs, settings.rs, ops.rs).               *)
THEOREM ScopesAreKeptAlways == ServiceSpec => []ScopesAreKept
<1>1. ServiceInv => ScopesAreKept
  <2> SUFFICES ASSUME ServiceInv PROVE ScopesAreKept OBVIOUS
  <2>1. ASSUME NEW p \in Processes, running[p].up
        PROVE  running[p] \in UpProcess /\ ProcessOK(p) /\ running[p] # Down
    BY <2>1 DEF ServiceInv, ProcessesOK, Down
  <2>2. ServiceTypeOK
    <3>1. /\ file.keys \subseteq KeyRecord /\ file.retention \in Profiles
          /\ \A k, q \in file.keys : k.id = q.id => k = q
      BY DEF ServiceInv, FileOK, Genuine
    <3>2. ASSUME NEW p \in Processes, running[p].up
          PROVE  /\ running[p].policy \subseteq Configs
                 /\ running[p].retention \subseteq Profiles
                 /\ running[p].dir \notin Reserved
                 /\ \A n \in running[p].policy : ValidConfig(n)
      BY <3>2, <2>1 DEF ProcessOK, UpProcess
    <3>3. \A n : ValidConfig(n) => ConfigOf[n].floor =< ConfigOf[n].merge
                                    /\ ConfigOf[n].merge =< ConfigOf[n].duplicate
      BY DEF ValidConfig, InUnit
    <3> QED BY <3>1, <3>2, <3>3 DEF ServiceTypeOK
  <2>3. SettingsAreAudited
    BY <2>1 DEF SettingsAreAudited, ProcessOK, AuditedSetting
  <2> QED BY <2>2, <2>3 DEF ScopesAreKept, ServiceInv, Apart
<1> QED BY <1>1, ServiceInvariant, PTL

(* No row is written in the name of a key but one a process has loaded,    *)
(* enabled and of this tenant, for its subject or for the tenant itself;   *)
(* a stream's rows claim what they like, and come in only by such a key or *)
(* by the command line (Authenticated::scope, ops::import, import_as).     *)
THEOREM ChangesAreAuthorisedAlways == ServiceSpec => ChangesAreAuthorised
<1>1. ServiceInv /\ [ServiceNext]_serviceVars => [NewRowsAreAuthorised]_serviceVars
  BY ServiceNextKeeps
<1> QED BY <1>1, ServiceInvariant, PTL
        DEF ServiceSpec, ChangesAreAuthorised, NewRowsAreAuthorised, RowAuthorised

(* Nobody is given an export that is not on record in the tenant's admin   *)
(* audit, in their name and since they asked (export_ndjson_as,            *)
(* record_admin_event).                                                    *)
THEOREM ExportsAreAuditedAlways == ServiceSpec => []ExportsAreAudited
<1>1. ServiceInv => ExportsAreAudited BY DEF ServiceInv, Apart
<1> QED BY <1>1, ServiceInvariant, PTL

(* No key leaves the file or is enabled again, but by a save that writes   *)
(* over a change made since it loaded the file (keys.rs).                  *)
THEOREM KeysStayAlways == ServiceSpec => KeysStay
<1>1. ServiceInv /\ [ServiceNext]_serviceVars => [KeysKeptInFile]_serviceVars
  <2> SUFFICES ASSUME ServiceInv, [ServiceNext]_serviceVars PROVE KeysKeptInFile
    OBVIOUS
  <2>1. CASE UNCHANGED file BY <2>1 DEF KeysKeptInFile
  <2> QED BY <2>1, ServiceNextKeeps
<1> QED BY <1>1, ServiceInvariant, PTL DEF ServiceSpec, KeysStay, KeysKeptInFile

-----------------------------------------------------------------------------
(* The settings: what is in force, and what was audited last.              *)

Kinds == {"policy", "retention"}

(* Calls whose setting of this kind is audited and not yet in force.       *)
Installs(p, kind) == {d \in Installing(p) : calls[d].kind = kind}

NewestOK ==
  /\ newest \in [Processes -> [policy : SUBSET Configs, retention : SUBSET Profiles]]
  /\ \A p \in Processes : ~running[p].up => newest[p] = NoSetting

(* Where no two settings overlapped, one call at most is to install each   *)
(* kind, and it installs what was audited last; if none is, that is in     *)
(* force.                                                                  *)
OverrideOK(p, kind) ==
  /\ Installs(p, kind) = {} => running[p][kind] = newest[p][kind]
  /\ \A d, e \in Installs(p, kind) : d = e
  /\ \A d \in Installs(p, kind) : newest[p][kind] = {calls[d].to}

OverridesOK ==
  \A p \in Processes \ raced : running[p].up => \A kind \in Kinds : OverrideOK(p, kind)

NewestRetention(p) ==
  IF newest[p].retention = {} THEN running[p].default
  ELSE CHOOSE r \in newest[p].retention : TRUE

(* A purge goes by the profile that is still the newest, unless it was     *)
(* superseded since it read it.                                            *)
PurgeOK(call) ==
  call.at = "purge" /\ ~call.superseded /\ call.server \notin raced =>
    call.cascade = Cascades(NewestRetention(call.server))

PurgesOK == \A c \in Callers : PurgeOK(calls[c])

SettingsInv == NewestOK /\ OverridesOK /\ PurgesOK

(* A process goes on with the settings it has. *)
SameSettings(p) ==
  /\ running'[p].up = running[p].up
  /\ running[p].up => /\ running'[p].policy = running[p].policy
                      /\ running'[p].retention = running[p].retention
                      /\ running'[p].default = running[p].default

(* Whatever moves no setting keeps the invariant: a call that was to       *)
(* install one may only be given up where that is noted.                   *)
LEMMA SettingsStay ==
  ASSUME ServiceInv, SettingsInv, UNCHANGED newest, raced \subseteq raced',
         \A p \in Processes : SameSettings(p),
         \A d \in Callers :
           \/ calls'[d] = calls[d]
           \/ /\ calls[d].at = "install" => calls[d].server \in raced'
              /\ calls'[d].at # "install"
              /\ PurgeOK(calls[d])'
  PROVE  SettingsInv'
<1>1. NewestOK' BY DEF SettingsInv, NewestOK, SameSettings
<1>2. ASSUME NEW p \in Processes, p \notin raced', running'[p].up, NEW kind \in Kinds
      PROVE  OverrideOK(p, kind)'
  <2>1. OverrideOK(p, kind) BY <1>2 DEF SettingsInv, OverridesOK, SameSettings
  <2>2. \A d \in Installs(p, kind) : calls'[d] = calls[d]
    BY <1>2 DEF Installs, Installing
  <2>3. \A d \in Installs(p, kind)' : calls'[d] = calls[d]
    BY DEF Installs, Installing
  <2>4. Installs(p, kind)' = Installs(p, kind)
    BY <2>2, <2>3 DEF Installs, Installing
  <2>5. running'[p][kind] = running[p][kind] BY <1>2 DEF SameSettings, Kinds
  <2> QED BY <2>1, <2>2, <2>4, <2>5 DEF OverrideOK
<1>3. ASSUME NEW d \in Callers PROVE PurgeOK(calls[d])'
  <2>1. CASE calls'[d] = calls[d]
    <3>1. PurgeOK(calls[d]) BY DEF SettingsInv, PurgesOK
    <3>2. SUFFICES ASSUME calls[d].at = "purge", ~calls[d].superseded,
                          calls[d].server \notin raced'
                   PROVE  calls[d].cascade = Cascades(NewestRetention(calls[d].server))'
      BY <2>1 DEF PurgeOK, NewestRetention, Cascades
    <3>3. calls[d].cascade = Cascades(NewestRetention(calls[d].server))
      BY <3>1, <3>2 DEF PurgeOK
    <3>4. calls[d].server \in Processes /\ running[calls[d].server].up
      BY <3>2 DEF ServiceInv, CallsOK, CallOK, Idle
    <3>5. \A q : q = calls[d].server => NewestRetention(q)' = NewestRetention(q)
      BY <3>4 DEF SameSettings, NewestRetention
    <3> QED BY <2>1, <3>3, <3>5 DEF Cascades
  <2> QED BY <2>1
<1>4. OverridesOK' BY <1>2 DEF OverridesOK
<1>5. PurgesOK' BY <1>3 DEF PurgesOK
<1> QED BY <1>1, <1>4, <1>5 DEF SettingsInv

(* One call goes on, or returns. *)
LEMMA SettingsStayAsOneMoves ==
  ASSUME ServiceInv, SettingsInv, UNCHANGED newest, raced \subseteq raced',
         \A p \in Processes : SameSettings(p), NEW c \in Callers, NEW next,
         calls' = [calls EXCEPT ![c] = next],
         calls[c].at = "install" => calls[c].server \in raced',
         next.at # "install", PurgeOK(next)'
  PROVE  SettingsInv'
<1>1. calls'[c] = next /\ \A d \in Callers \ {c} : calls'[d] = calls[d]
  BY DEF ServiceInv, CallsOK
<1>2. PurgeOK(calls[c])' BY <1>1 DEF PurgeOK, NewestRetention, Cascades
<1>3. \A d \in Callers :
        \/ calls'[d] = calls[d]
        \/ /\ calls[d].at = "install" => calls[d].server \in raced'
           /\ calls'[d].at # "install"
           /\ PurgeOK(calls[d])'
  <2>1. ASSUME NEW d \in Callers, d # c PROVE calls'[d] = calls[d] BY <1>1, <2>1
  <2>2. /\ calls[c].at = "install" => calls[c].server \in raced'
        /\ calls'[c].at # "install"
    BY <1>1
  <2> QED BY <2>1, <2>2, <1>2 DEF PurgeOK, NewestRetention, Cascades
<1> QED BY <1>3, SettingsStay

LEMMA ServedKeepsSettings ==
  ASSUME ServiceInv, NEW p \in Processes, running[p].up, NEW b \in BOOLEAN,
         running' = [running EXCEPT ![p].served = b]
  PROVE  \A q \in Processes : SameSettings(q)
<1>1. running[p] \in UpProcess BY DEF ServiceInv, ProcessesOK, Down
<1>2. PICK r : r = [running[p] EXCEPT !.served = b] OBVIOUS
<1>3. /\ r.up = running[p].up /\ r.policy = running[p].policy
      /\ r.retention = running[p].retention /\ r.default = running[p].default
  BY <1>1, <1>2 DEF UpProcess
<1>4. running' = [running EXCEPT ![p] = r] BY <1>2
<1>5. running'[p] = r /\ \A q \in Processes \ {p} : running'[q] = running[q]
  BY <1>4 DEF ServiceInv, ProcessesOK
<1> QED BY <1>3, <1>5 DEF SameSettings

-----------------------------------------------------------------------------
(* Every step keeps the settings' invariant, and purges as was audited.    *)

PurgedAsAudited ==
  \A c \in Callers :
    LET p == calls[c].server
        j == calls[c].scope[1]
        profile == IF newest[p].retention = {} THEN running[p].default
                   ELSE CHOOSE r \in newest[p].retention : TRUE IN
    (/\ calls[c].at = "purge" /\ calls'[c] = Idle
     /\ \E m \in audit' \ audit : m.event = "SubjectPurged"
     /\ p \notin raced /\ ~calls[c].superseded) =>
       IF profile \in {"hipaa_retain", "forensic"} THEN audit \subseteq audit'
       ELSE OfSubject(audit, j) \cap audit' = {}

LEMMA NoMarkerNoPurge ==
  ASSUME NEW a, audit' \subseteq audit \cup {a}, a.event # "SubjectPurged"
  PROVE  PurgedAsAudited
BY DEF PurgedAsAudited

LEMMA NoRowNoPurge ==
  ASSUME audit' = audit PROVE PurgedAsAudited
BY DEF PurgedAsAudited

FirstStages == {"apply", "read", "audit", "ceiling", "namespaces", "import", "export"}

LEMMA NewCallIs ==
  ASSUME ServiceAssumption, NEW c \in Callers,
         \/ BeginRemember(c) \/ BeginRead(c) \/ BeginSetting(c)
         \/ BeginBudget(c) \/ BeginPurge(c) \/ BeginImport(c) \/ BeginExport(c)
  PROVE  \E call : Begun(c, call) /\ call.server \in Processes /\ call.at \in FirstStages
<1>1. \/ \E p \in Processes : \E x : Begun(c, [kind |-> "remember", at |-> "apply",
             server |-> p, scope |-> x.scope, actor |-> x.actor])
      \/ \E p \in Processes : \E x : Begun(c, [kind |-> "read", at |-> "read",
             server |-> p, scope |-> x.scope, actor |-> x.actor])
      \/ \E p \in Processes : \E s, k : Begun(c, [kind |-> s.kind, at |-> "audit",
             server |-> p, to |-> s.to, actor |-> k.id])
      \/ \E p \in Processes : \E x, b : Begun(c, [kind |-> "budget", at |-> "ceiling",
             server |-> p, scope |-> x.scope, actor |-> "system", to |-> b,
             event |-> "PolicyChanged"])
      \/ \E p \in Processes : \E j, a : Begun(c, [kind |-> "purge", at |-> "namespaces",
             server |-> p, subject |-> j, actor |-> a])
      \/ \E p \in Processes : \E a : Begun(c, Importing(p, a))
      \/ \E p \in Processes : \E x, i : Begun(c, [kind |-> "export", at |-> "export",
             server |-> p, actor |-> x.actor, subject |-> x.subject,
             namespace |-> x.namespace, includeAudit |-> i, scopes |-> {}, since |-> minted])
  <2>1. CASE BeginRemember(c) BY <2>1 DEF BeginRemember
  <2>2. CASE BeginRead(c) BY <2>2 DEF BeginRead
  <2>3. CASE BeginSetting(c) BY <2>3 DEF BeginSetting
  <2>4. CASE BeginBudget(c) BY <2>4 DEF BeginBudget
  <2>5. CASE BeginPurge(c) BY <2>5 DEF BeginPurge, Purging
  <2>6. CASE BeginImport(c) BY <2>6 DEF BeginImport
  <2>7. CASE BeginExport(c) BY <2>7 DEF BeginExport
  <2> QED BY <2>1, <2>2, <2>3, <2>4, <2>5, <2>6, <2>7
<1>2. ASSUME NEW call, Begun(c, call), call.server \in Processes, call.at \in FirstStages
      PROVE  \E one : Begun(c, one) /\ one.server \in Processes /\ one.at \in FirstStages
  BY <1>2
<1> QED BY <1>1, <1>2 DEF FirstStages, Importing

LEMMA NewCallKeepsSettings ==
  ASSUME ServiceInv, SettingsInv, ServiceAssumption, NEW c \in Callers,
         \/ BeginRemember(c) \/ BeginRead(c) \/ BeginSetting(c)
         \/ BeginBudget(c) \/ BeginPurge(c) \/ BeginImport(c) \/ BeginExport(c)
  PROVE  SettingsInv' /\ PurgedAsAudited
<1>1. PICK call : Begun(c, call) /\ call.server \in Processes /\ call.at \in FirstStages
  BY NewCallIs
<1>2. /\ calls[c] = Idle /\ running[call.server].up /\ calls' = [calls EXCEPT ![c] = call]
      /\ running' = [running EXCEPT ![call.server].served = (TransportOf[call.server] = "cli")]
      /\ UNCHANGED <<newest, raced>> /\ audit' = audit
  BY <1>1 DEF Begun, vars, tables
<1>3. \A q \in Processes : SameSettings(q)
  <2>1. (TransportOf[call.server] = "cli") \in BOOLEAN OBVIOUS
  <2> QED BY <1>1, <1>2, <2>1, ServedKeepsSettings
<1>4. PurgeOK(call)'
  <2>1. \A any : any.at # "purge" => PurgeOK(any)' BY DEF PurgeOK
  <2> QED BY <1>1, <2>1 DEF FirstStages
<1>5. SettingsInv'
  <2>1. /\ calls[c].at = "install" => calls[c].server \in raced'
        /\ call.at # "install" /\ UNCHANGED newest /\ raced \subseteq raced'
        /\ calls' = [calls EXCEPT ![c] = call]
    BY <1>1, <1>2 DEF Idle, FirstStages
  <2> QED BY <2>1, <1>3, <1>4, SettingsStayAsOneMoves
<1> QED BY <1>2, <1>5, NoRowNoPurge

LEMMA SameRunningSameSettings ==
  ASSUME UNCHANGED running PROVE \A q \in Processes : SameSettings(q)
BY DEF SameSettings

(* A call that writes rows of its own and returns. *)
LEMMA ReturnKeepsSettings ==
  ASSUME ServiceInv, SettingsInv, NEW c \in Callers, UNCHANGED <<running, newest>>,
         Returned(c), raced \subseteq raced',
         calls[c].at = "install" => calls[c].server \in raced'
  PROVE  SettingsInv'
<1>1. \A q \in Processes : SameSettings(q) BY SameRunningSameSettings
<1>2. PurgeOK(Idle)' BY DEF PurgeOK, Idle
<1> QED BY <1>1, <1>2, SettingsStayAsOneMoves DEF Returned, Idle

LEMMA RememberKeepsSettings ==
  ASSUME ServiceInv, SettingsInv, NEW c \in Callers, Remember(c)
  PROVE  SettingsInv' /\ PurgedAsAudited
<1>1. /\ Returned(c) /\ calls[c].at = "apply" /\ UNCHANGED <<running, newest, raced>>
  BY DEF Remember, histories
<1>2. SettingsInv' BY <1>1, ReturnKeepsSettings
<1> DEFINE s == calls[c].scope
           u == Meta(calls[c].actor, TRUE, "none")
<1>3. PICK id \in ItemIds \ Ids(items), b \in Bodies, v \in Metas :
        Apply([Record(s, "Admitted", u) EXCEPT
                !.refs = {id},
                !.upsert = {[id |-> id, scope |-> s, body |-> b, tags |-> {},
                             meta |-> v, pending |-> FALSE, embedded |-> TRUE]}],
              minted + 1)
  BY DEF Remember
<1> DEFINE t == [Record(s, "Admitted", u) EXCEPT
                !.refs = {id},
                !.upsert = {[id |-> id, scope |-> s, body |-> b, tags |-> {},
                             meta |-> v, pending |-> FALSE, embedded |-> TRUE]}]
           a == [id |-> minted + 1, scope |-> t.auditScope, event |-> t.event,
                 items |-> t.refs, meta |-> t.auditMeta]
<1>4. /\ t.merge = {} /\ t.evictions = {} /\ t.event = "Admitted"
      /\ \A w \in t.upsert : w.scope = t.scope
  BY DEF Record
<1> HIDE DEF t
<1>5. audit' = audit \/ audit' = audit \cup {a} BY <1>3, <1>4, InsertIs DEF t
<1>6. a.event = "Admitted" BY <1>4
<1> HIDE DEF a
<1>7. PurgedAsAudited BY <1>5, <1>6, NoMarkerNoPurge
<1> QED BY <1>2, <1>7

LEMMA AuditBudgetKeepsSettings ==
  ASSUME ServiceInv, SettingsInv, NEW c \in Callers, AuditBudget(c)
  PROVE  SettingsInv' /\ PurgedAsAudited
<1>1. /\ Returned(c) /\ calls[c].at = "record" /\ UNCHANGED <<running, newest, raced>>
  BY DEF AuditBudget, histories, Unaudited
<1>2. SettingsInv' BY <1>1, ReturnKeepsSettings
<1> DEFINE a == [id |-> minted + 1, scope |-> calls[c].scope, event |-> "PolicyChanged",
                 items |-> {}, meta |-> BudgetMeta(calls[c].actor)]
<1>3. audit' = audit \cup {a} BY RecordIs DEF AuditBudget
<1>4. a.event # "SubjectPurged" OBVIOUS
<1> HIDE DEF a
<1> QED BY <1>2, <1>3, <1>4, NoMarkerNoPurge

LEMMA ReadOrCutKeepsSettings ==
  ASSUME ServiceInv, SettingsInv, NEW c \in Callers,
         Read(c) \/ Cut(c) \/ RefuseImport(c) \/ AnswerExport(c)
  PROVE  SettingsInv' /\ PurgedAsAudited
<1>1. /\ Returned(c) /\ UNCHANGED <<running, newest, audit>> /\ raced \subseteq raced'
      /\ calls[c].at = "install" => calls[c].server \in raced'
  BY DEF Read, Cut, RefuseImport, AnswerExport, vars, tables, histories
<1> QED BY <1>1, ReturnKeepsSettings, NoRowNoPurge

(* A call that is to record, or to answer, goes on to do that. *)
LEMMA NextStageKeepsSettings ==
  ASSUME ServiceInv, SettingsInv, NEW c \in Callers, UNCHANGED <<running, newest, raced>>,
         calls[c].at # "install", NEW next, calls' = [calls EXCEPT ![c] = next],
         next.at \in {"record", "exported", "answer"}
  PROVE  SettingsInv'
<1>1. PurgeOK(next)'
  <2>1. \A any : any.at # "purge" => PurgeOK(any)' BY DEF PurgeOK
  <2> QED BY <2>1
<1> QED BY <1>1, SameRunningSameSettings, SettingsStayAsOneMoves

(* A stream may carry markers of purges, but the call that brings them in  *)
(* is no purge.                                                            *)
LEMMA BringInKeepsSettings ==
  ASSUME ServiceInv, SettingsInv, NEW c \in Callers, BringIn(c)
  PROVE  SettingsInv' /\ PurgedAsAudited
<1>1. PICK refs : calls' = [calls EXCEPT ![c].at = "record", ![c].refs = refs]
  BY DEF BringIn
<1>2. calls[c].at = "import" /\ UNCHANGED <<running, newest, raced>>
  BY DEF BringIn
<1>3. ImportStage(calls[c]) BY <1>2, StageIs
<1>4. PICK next : next = [calls[c] EXCEPT !.at = "record", !.refs = refs] OBVIOUS
<1>5. next.at = "record" BY <1>3, <1>4 DEF ImportStage
<1>6. calls' = [calls EXCEPT ![c] = next] BY <1>1, <1>4 DEF ServiceInv, CallsOK
<1>7. SettingsInv' BY <1>2, <1>5, <1>6, NextStageKeepsSettings
<1>8. calls'[c].at = "record" /\ \A d \in Callers \ {c} : calls'[d] = calls[d]
  BY <1>5, <1>6 DEF ServiceInv, CallsOK
<1>9. \A d \in Callers : calls[d].at = "purge" => calls'[d] # Idle
  BY <1>2, <1>8 DEF Idle
<1> QED BY <1>7, <1>9 DEF PurgedAsAudited

LEMMA AuditImportKeepsSettings ==
  ASSUME ServiceInv, SettingsInv, NEW c \in Callers, AuditImport(c)
  PROVE  SettingsInv' /\ PurgedAsAudited
<1>1. /\ Returned(c) /\ calls[c].at = "record" /\ UNCHANGED <<running, newest, raced>>
  BY DEF AuditImport, histories, Unaudited
<1>2. SettingsInv' BY <1>1, ReturnKeepsSettings
<1>3. PICK a : audit' = audit \cup {a} /\ a.event = "Imported" BY ImportRecordIs
<1> QED BY <1>2, <1>3, NoMarkerNoPurge

LEMMA ExportKeepsSettings ==
  ASSUME ServiceInv, SettingsInv, NEW c \in Callers, Export(c) \/ AuditExport(c)
  PROVE  SettingsInv' /\ PurgedAsAudited
<1>1. CASE Export(c)
  <2>1. /\ calls[c].at = "export" /\ UNCHANGED <<running, newest, raced, audit>>
        /\ calls' = [calls EXCEPT ![c].at = "exported", ![c].scopes = Selected(calls[c])]
    BY <1>1 DEF Export, histories, vars, tables
  <2>2. ExportStage(calls[c]) BY <2>1, StageIs
  <2>3. PICK next : next = [calls[c] EXCEPT !.at = "exported", !.scopes = Selected(calls[c])]
    OBVIOUS
  <2>4. next.at = "exported" BY <2>2, <2>3 DEF ExportStage
  <2>5. calls' = [calls EXCEPT ![c] = next] BY <2>1, <2>3
  <2> QED BY <2>1, <2>4, <2>5, NextStageKeepsSettings, NoRowNoPurge
<1>2. CASE AuditExport(c)
  <2> DEFINE a == [id |-> minted + 1, scope |-> AdminScope, event |-> "Exported",
                   items |-> {}, meta |-> Meta(calls[c].actor, TRUE, "none")]
  <2>1. /\ calls[c].at = "exported" /\ UNCHANGED <<running, newest, raced>>
        /\ calls' = [calls EXCEPT ![c].at = "answer"] /\ audit' = audit \cup {a}
    BY <1>2, RecordIs DEF AuditExport, histories
  <2>2. ExportStage(calls[c]) BY <2>1, StageIs
  <2>3. PICK next : next = [calls[c] EXCEPT !.at = "answer"] OBVIOUS
  <2>4. next.at = "answer" BY <2>2, <2>3 DEF ExportStage
  <2>5. calls' = [calls EXCEPT ![c] = next] BY <2>1, <2>3
  <2>6. a.event # "SubjectPurged" OBVIOUS
  <2> HIDE DEF a
  <2> QED BY <2>1, <2>4, <2>5, <2>6, NextStageKeepsSettings, NoMarkerNoPurge
<1> QED BY <1>1, <1>2

LEMMA ChangeCeilingKeepsSettings ==
  ASSUME ServiceInv, SettingsInv, NEW c \in Callers, ChangeCeiling(c)
  PROVE  SettingsInv' /\ PurgedAsAudited
<1>1. /\ calls[c].at = "ceiling" /\ calls' = [calls EXCEPT ![c].at = "record"]
      /\ UNCHANGED <<running, newest, raced, audit>>
  BY DEF ChangeCeiling, SetBudget
<1>2. Budgeting(calls[c])
  BY <1>1, StageIs
<1>3. PICK next : next = [calls[c] EXCEPT !.at = "record"] OBVIOUS
<1>4. next.at = "record" BY <1>2, <1>3 DEF Budgeting
<1>5. PurgeOK(next)'
  <2>1. \A any : any.at # "purge" => PurgeOK(any)' BY DEF PurgeOK
  <2> QED BY <1>4, <2>1
<1>6. calls' = [calls EXCEPT ![c] = next] BY <1>1, <1>3
<1>7. SettingsInv'
  BY <1>1, <1>4, <1>5, <1>6, SameRunningSameSettings, SettingsStayAsOneMoves
<1> QED BY <1>1, <1>7, NoRowNoPurge

(* A purge that reads its cascade while nothing is being installed reads   *)
(* the profile audited last.                                               *)
LEMMA ReadNamespacesKeepsSettings ==
  ASSUME ServiceInv, SettingsInv, NEW c \in Callers, ReadNamespaces(c)
  PROVE  SettingsInv' /\ PurgedAsAudited
<1> DEFINE p == calls[c].server
<1>1. /\ calls[c].at = "namespaces" /\ UNCHANGED <<running, newest, raced, audit>>
  BY DEF ReadNamespaces, histories, vars, tables
<1>2. PICK n : calls' = [calls EXCEPT ![c] =
         [kind |-> "purge", at |-> "purge", server |-> p, actor |-> @.actor,
          scope |-> <<@.subject, n>>, cascade |-> CascadeFor(p),
          superseded |-> Installing(p) # {}]]
  BY DEF ReadNamespaces
<1>3. PICK next : next =
         [kind |-> "purge", at |-> "purge", server |-> p, actor |-> calls[c].actor,
          scope |-> <<calls[c].subject, n>>, cascade |-> CascadeFor(p),
          superseded |-> Installing(p) # {}]
  OBVIOUS
<1>4. calls' = [calls EXCEPT ![c] = next] BY <1>2, <1>3
<1>5. /\ next.at = "purge" /\ next.server = p /\ next.cascade = CascadeFor(p)
      /\ next.superseded = (Installing(p) # {})
  BY <1>3
<1>6. p \in Processes /\ running[p].up
  BY <1>1 DEF ServiceInv, CallsOK, CallOK, Idle
<1>7. PurgeOK(next)'
  <2> SUFFICES ASSUME Installing(p) = {}, p \notin raced
               PROVE  CascadeFor(p) = Cascades(NewestRetention(p))
    <3>1. \A q : UNCHANGED <<running, newest>> => NewestRetention(q)' = NewestRetention(q)
      BY DEF NewestRetention
    <3>2. \A q, r : q = r => Cascades(q) = Cascades(r) OBVIOUS
    <3> QED BY <1>1, <1>5, <3>1, <3>2 DEF PurgeOK, Cascades
  <2>1. OverrideOK(p, "retention") BY <1>6 DEF SettingsInv, OverridesOK, Kinds
  <2>2. Installs(p, "retention") = {} BY DEF Installs
  <2>3. running[p].retention = newest[p].retention BY <2>1, <2>2 DEF OverrideOK
  <2> QED BY <2>3 DEF CascadeFor, RetentionFor, NewestRetention
<1>8. SettingsInv'
  BY <1>1, <1>4, <1>5, <1>7, SameRunningSameSettings, SettingsStayAsOneMoves
<1> QED BY <1>1, <1>8, NoRowNoPurge

(* The purge does what it read: its marker is new, or it was there.        *)
LEMMA PurgeKeepsSettings ==
  ASSUME ServiceInv, SettingsInv, NEW c \in Callers, Purge(c)
  PROVE  SettingsInv' /\ PurgedAsAudited
<1> DEFINE call == calls[c]
           p == call.server
           j == call.scope[1]
           marker == [id |-> minted + 1, scope |-> call.scope, event |-> "SubjectPurged",
                      items |-> {}, meta |-> Meta(call.actor, FALSE, "none")]
<1>1. /\ call.at = "purge" /\ Returned(c) /\ UNCHANGED <<running, newest, raced>>
      /\ audit' = PurgedAudit(j, call.cascade) \cup {marker}
  BY DEF Purge, PurgeSubject, histories
<1>2. SettingsInv' BY <1>1, ReturnKeepsSettings
<1>3. /\ PurgeOK(call) /\ p \in Processes /\ running[p] \in UpProcess
      /\ newest[p].retention \subseteq Profiles
  BY <1>1 DEF SettingsInv, PurgesOK, NewestOK, ServiceInv, CallsOK, CallOK, Idle,
              ProcessesOK, Down
<1>4. marker.scope = call.scope OBVIOUS
<1> HIDE DEF marker
<1>5. NewestRetention(p) \in Profiles
  <2>1. running[p].default \in Profiles BY <1>3 DEF UpProcess
  <2> QED BY <2>1, <1>3 DEF NewestRetention
<1>6. ASSUME p \notin raced, ~call.superseded, \E m \in audit' \ audit : TRUE
      PROVE  IF NewestRetention(p) \in {"hipaa_retain", "forensic"} THEN audit \subseteq audit'
             ELSE OfSubject(audit, j) \cap audit' = {}
  <2>1. call.cascade = Cascades(NewestRetention(p)) BY <1>1, <1>3, <1>6 DEF PurgeOK
  <2>2. marker \notin audit BY <1>1, <1>6 DEF PurgedAudit
  <2>3. CASE NewestRetention(p) \in {"hipaa_retain", "forensic"}
    <3>1. ~call.cascade BY <2>1, <2>3 DEF Cascades
    <3> QED BY <3>1, <2>3, <1>1 DEF PurgedAudit
  <2>4. CASE NewestRetention(p) \notin {"hipaa_retain", "forensic"}
    <3>1. call.cascade BY <2>1, <2>4, <1>5 DEF Cascades, Profiles
    <3>2. audit' = (audit \ OfSubject(audit, j)) \cup {marker} BY <3>1, <1>1 DEF PurgedAudit
    <3> QED BY <3>2, <2>2, <2>4 DEF OfSubject
  <2> QED BY <2>3, <2>4
<1>7. \A d \in Callers \ {c} : calls'[d] = calls[d] BY <1>1 DEF Returned, ServiceInv, CallsOK
<1>8. PurgedAsAudited
  <2> SUFFICES ASSUME NEW d \in Callers, calls[d].at = "purge", calls'[d] = Idle,
                      \E m \in audit' \ audit : m.event = "SubjectPurged",
                      calls[d].server \notin raced, ~calls[d].superseded
               PROVE  IF NewestRetention(calls[d].server) \in {"hipaa_retain", "forensic"}
                      THEN audit \subseteq audit'
                      ELSE OfSubject(audit, calls[d].scope[1]) \cap audit' = {}
    BY DEF PurgedAsAudited, NewestRetention
  <2>1. d = c BY <1>7 DEF Idle
  <2> QED BY <2>1, <1>6
<1> QED BY <1>2, <1>8

(* What AuditSetting does to the calls: the one goes on to install, the    *)
(* purges under way in its process are superseded.                         *)
LEMMA AuditSettingIs ==
  ASSUME ServiceInv, NEW c \in Callers, AuditSetting(c)
  PROVE  LET p == calls[c].server IN
         /\ calls[c].at = "audit" /\ Setting(calls[c]) /\ p \in Processes /\ running[p].up
         /\ calls'[c].at = "install" /\ calls'[c].server = p
         /\ calls'[c].kind = calls[c].kind /\ calls'[c].to = calls[c].to
         /\ \A d \in Callers \ {c} :
              \/ calls'[d] = calls[d] /\ (calls[d].at = "purge" => calls[d].server # p)
              \/ calls[d].at = "purge" /\ calls'[d].at = "purge" /\ calls'[d].superseded
<1> DEFINE p == calls[c].server
<1>1. /\ calls[c].at = "audit"
      /\ calls' = [d \in Callers |->
           IF d = c THEN [calls[c] EXCEPT !.at = "install"]
           ELSE IF calls[d].at = "purge" /\ calls[d].server = p
           THEN [calls[d] EXCEPT !.superseded = TRUE] ELSE calls[d]]
  BY DEF AuditSetting
<1>2. Setting(calls[c]) /\ p \in Processes /\ running[p].up
  BY <1>1, StageIs
<1>3. PICK next : next = [calls[c] EXCEPT !.at = "install"] OBVIOUS
<1>4. /\ next.at = "install" /\ next.server = p
      /\ next.kind = calls[c].kind /\ next.to = calls[c].to
  BY <1>2, <1>3 DEF Setting
<1>5. calls'[c] = next BY <1>1, <1>3
<1>6. ASSUME NEW d \in Callers \ {c}
      PROVE  \/ calls'[d] = calls[d] /\ (calls[d].at = "purge" => calls[d].server # p)
             \/ calls[d].at = "purge" /\ calls'[d].at = "purge" /\ calls'[d].superseded
  <2>1. CASE ~(calls[d].at = "purge" /\ calls[d].server = p) BY <1>1, <1>6, <2>1
  <2>2. CASE calls[d].at = "purge" /\ calls[d].server = p
    <3>1. PurgeStage(calls[d])
      BY <2>2, StageIs
    <3>2. PICK other : other = [calls[d] EXCEPT !.superseded = TRUE] OBVIOUS
    <3>3. other.at = "purge" /\ other.superseded BY <3>1, <3>2, <2>2 DEF PurgeStage
    <3>4. calls'[d] = other BY <1>1, <2>2, <3>2
    <3> QED BY <2>2, <3>3, <3>4
  <2> QED BY <2>1, <2>2
<1> QED BY <1>1, <1>2, <1>4, <1>5, <1>6

LEMMA AuditSettingKeepsSettings ==
  ASSUME ServiceInv, SettingsInv, NEW c \in Callers, AuditSetting(c)
  PROVE  SettingsInv' /\ PurgedAsAudited
<1> DEFINE p == calls[c].server
           k == calls[c].kind
           to == calls[c].to
           a == [id |-> minted + 1, scope |-> AdminScope, event |-> "PolicyChanged",
                 items |-> {}, meta |-> Meta(calls[c].actor, TRUE, calls[c].to)]
<1>1. /\ calls[c].at = "audit" /\ Setting(calls[c]) /\ p \in Processes /\ running[p].up
      /\ calls'[c].at = "install" /\ calls'[c].server = p
      /\ calls'[c].kind = k /\ calls'[c].to = to
      /\ \A d \in Callers \ {c} :
           \/ calls'[d] = calls[d] /\ (calls[d].at = "purge" => calls[d].server # p)
           \/ calls[d].at = "purge" /\ calls'[d].at = "purge" /\ calls'[d].superseded
  BY AuditSettingIs
<1>2. /\ UNCHANGED running /\ newest' = [newest EXCEPT ![p][k] = {to}]
      /\ raced' = IF \E d \in Installing(p) : SameSetting(c, d) THEN raced \cup {p} ELSE raced
      /\ audit' = audit \cup {a}
  BY RecordIs DEF AuditSetting
<1>3. NewestOK BY DEF SettingsInv
<1>4. \/ k = "policy" /\ to \in Configs
      \/ k = "retention" /\ to \in Profiles
  BY <1>1 DEF Setting
<1>5. PICK n : n = [newest[p] EXCEPT ![k] = {to}] OBVIOUS
<1>6. /\ n \in [policy : SUBSET Configs, retention : SUBSET Profiles]
      /\ n[k] = {to} /\ \A kind \in Kinds : kind = k \/ n[kind] = newest[p][kind]
  <2>1. CASE k = "policy" BY <2>1, <1>1, <1>3, <1>4, <1>5 DEF NewestOK, Kinds
  <2>2. CASE k = "retention" BY <2>2, <1>1, <1>3, <1>4, <1>5 DEF NewestOK, Kinds
  <2> QED BY <1>4, <2>1, <2>2
<1>7. newest' = [newest EXCEPT ![p] = n] BY <1>2, <1>5
<1>8. newest'[p] = n /\ \A q \in Processes \ {p} : newest'[q] = newest[q]
  BY <1>1, <1>3, <1>7 DEF NewestOK
<1>9. NewestOK' BY <1>1, <1>2, <1>3, <1>6, <1>7 DEF NewestOK
<1>10. raced \subseteq raced' BY <1>2
<1>11. \A q \in Processes, kind \in Kinds : \A d \in Callers \ {c} :
         /\ d \in Installs(q, kind)' <=> d \in Installs(q, kind)
         /\ d \in Installs(q, kind) => calls'[d] = calls[d]
  BY <1>1 DEF Installs, Installing
<1>12. c \notin Installing(p) /\ \A q, kind : c \notin Installs(q, kind)
  BY <1>1 DEF Installs, Installing
<1>13. \A q, kind : c \in Installs(q, kind)' <=> q = p /\ kind = k
  BY <1>1 DEF Installs, Installing
<1>14. \A q, kind : Installs(q, kind) \subseteq Callers /\ Installs(q, kind)' \subseteq Callers
  BY DEF Installs, Installing
<1>15. ASSUME NEW q \in Processes, q \notin raced', running'[q].up, NEW kind \in Kinds
       PROVE  OverrideOK(q, kind)'
  <2>1. OverrideOK(q, kind) BY <1>2, <1>10, <1>15 DEF SettingsInv, OverridesOK
  <2>2. CASE q # p \/ kind # k
    <3>1. Installs(q, kind)' = Installs(q, kind) BY <1>11, <1>12, <1>13, <1>14, <2>2
    <3>2. newest'[q][kind] = newest[q][kind] BY <1>6, <1>8, <2>2
    <3>3. \A d \in Installs(q, kind) : calls'[d] = calls[d]
      BY <1>11, <1>12, <1>14
    <3> QED BY <2>1, <3>1, <3>2, <3>3, <1>2 DEF OverrideOK
  <2>3. CASE q = p /\ kind = k
    <3>1. ~\E d \in Installing(p) : SameSetting(c, d) BY <1>2, <1>15, <2>3
    <3>2. Installs(p, k) = {}
      <4> SUFFICES ASSUME NEW d \in Installs(p, k) PROVE FALSE OBVIOUS
      <4>1. calls[d].at = "install" /\ calls[d].server = p /\ calls[d].kind = k
        BY DEF Installs, Installing
      <4>2. SameSetting(c, d) BY <4>1, <1>1 DEF SameSetting, Idle
      <4> QED BY <4>2, <3>1 DEF Installs
    <3>3. Installs(q, kind)' = {c}
      <4>1. \A d \in Callers : d \in Installs(q, kind)' <=> d = c
        BY <2>3, <3>2, <1>11, <1>13
      <4> QED BY <4>1, <1>14
    <3>4. newest'[q][kind] = {calls'[c].to} BY <2>3, <1>1, <1>6, <1>8
    <3> QED BY <3>3, <3>4 DEF OverrideOK
  <2> QED BY <2>2, <2>3
<1>16. OverridesOK' BY <1>15 DEF OverridesOK
<1>17. ASSUME NEW d \in Callers PROVE PurgeOK(calls[d])'
  <2>1. CASE d = c \/ calls'[d] # calls[d]
    <3>1. calls'[d].at # "purge" \/ calls'[d].superseded BY <2>1, <1>1
    <3> QED BY <3>1 DEF PurgeOK
  <2>2. CASE d # c /\ calls'[d] = calls[d]
    <3> SUFFICES ASSUME calls[d].at = "purge", ~calls[d].superseded,
                        calls[d].server \notin raced'
                 PROVE  calls'[d].cascade = Cascades(NewestRetention(calls[d].server))'
      BY <2>2 DEF PurgeOK, NewestRetention, Cascades
    <3>1. calls[d].server # p BY <2>2, <1>1
    <3>2. calls[d].server \in Processes
      BY DEF ServiceInv, CallsOK, CallOK, Idle
    <3>3. ASSUME NEW q \in Processes \ {p} PROVE NewestRetention(q)' = NewestRetention(q)
      <4>1. newest'[q] = newest[q] /\ running'[q] = running[q] BY <1>2, <1>8
      <4> QED BY <4>1 DEF NewestRetention
    <3>4. calls[d].cascade = Cascades(NewestRetention(calls[d].server))
      BY <1>10 DEF SettingsInv, PurgesOK, PurgeOK
    <3>5. \A q : q = calls[d].server => NewestRetention(q)' = NewestRetention(q)
      BY <3>1, <3>2, <3>3
    <3> QED BY <2>2, <3>4, <3>5 DEF Cascades
  <2> QED BY <2>1, <2>2
<1>18. PurgesOK' BY <1>17 DEF PurgesOK
<1>19. PurgedAsAudited
  <2>1. a.event # "SubjectPurged" OBVIOUS
  <2> HIDE DEF a
  <2> QED BY <2>1, <1>2, NoMarkerNoPurge
<1> QED BY <1>9, <1>16, <1>18, <1>19 DEF SettingsInv

LEMMA InstallKeepsSettings ==
  ASSUME ServiceInv, SettingsInv, NEW c \in Callers, Install(c)
  PROVE  SettingsInv' /\ PurgedAsAudited
<1> DEFINE p == calls[c].server
           k == calls[c].kind
           to == calls[c].to
<1>1. /\ calls[c].at = "install" /\ UNCHANGED <<newest, raced, audit>>
      /\ calls' = [calls EXCEPT ![c] = Idle]
      /\ running' = [running EXCEPT ![p][k] = {to}]
  BY DEF Install, InsertedOver, Returned, histories, vars, tables
<1>2. Setting(calls[c]) /\ p \in Processes /\ running[p].up
  BY <1>1, StageIs
<1>3. running[p] \in UpProcess BY <1>2 DEF ServiceInv, ProcessesOK, Down
<1>4. k \in Kinds BY <1>2 DEF Setting, Kinds
<1>5. PICK r : r = [running[p] EXCEPT ![k] = {to}] OBVIOUS
<1>6. /\ r.up = running[p].up /\ r.default = running[p].default
      /\ r[k] = {to} /\ \A kind \in Kinds : kind = k \/ r[kind] = running[p][kind]
  BY <1>3, <1>4, <1>5 DEF UpProcess, Kinds
<1>7. running' = [running EXCEPT ![p] = r] BY <1>1, <1>5
<1>8. running'[p] = r /\ \A q \in Processes \ {p} : running'[q] = running[q]
  BY <1>2, <1>7 DEF ServiceInv, ProcessesOK
<1>9. NewestOK' BY <1>1, <1>6, <1>8 DEF SettingsInv, NewestOK
<1>10. calls'[c] = Idle /\ \A d \in Callers \ {c} : calls'[d] = calls[d]
  BY <1>1 DEF ServiceInv, CallsOK
<1>11. \A q, kind : Installs(q, kind) \subseteq Callers
                    /\ Installs(q, kind)' = Installs(q, kind) \ {c}
  BY <1>10 DEF Installs, Installing, Idle
<1>12. \A q, kind : c \in Installs(q, kind) <=> q = p /\ kind = k
  BY <1>1 DEF Installs, Installing
<1>13. ASSUME NEW q \in Processes, q \notin raced', running'[q].up, NEW kind \in Kinds
       PROVE  OverrideOK(q, kind)'
  <2>1. running[q].up BY <1>6, <1>8, <1>13
  <2>2. OverrideOK(q, kind) BY <2>1, <1>1, <1>13 DEF SettingsInv, OverridesOK
  <2>3. \A d \in Installs(q, kind)' : calls'[d] = calls[d] BY <1>10, <1>11
  <2>4. CASE q # p \/ kind # k
    <3>1. Installs(q, kind)' = Installs(q, kind) BY <1>11, <1>12, <2>4
    <3>2. running'[q][kind] = running[q][kind] BY <1>6, <1>8, <2>4
    <3> QED BY <2>2, <2>3, <3>1, <3>2, <1>1 DEF OverrideOK
  <2>5. CASE q = p /\ kind = k
    <3>1. c \in Installs(q, kind) BY <1>12, <2>5
    <3>2. newest[q][kind] = {to} /\ Installs(q, kind)' = {}
      BY <2>2, <3>1, <1>11 DEF OverrideOK
    <3>3. running'[q][kind] = {to} BY <1>6, <1>8, <2>5
    <3> QED BY <3>2, <3>3, <1>1 DEF OverrideOK
  <2> QED BY <2>4, <2>5
<1>14. OverridesOK' BY <1>13 DEF OverridesOK
<1>15. ASSUME NEW d \in Callers PROVE PurgeOK(calls[d])'
  <2>1. CASE d = c BY <2>1, <1>10 DEF PurgeOK, Idle
  <2>2. CASE d # c
    <3> SUFFICES ASSUME calls[d].at = "purge", ~calls[d].superseded,
                        calls[d].server \notin raced
                 PROVE  calls'[d].cascade = Cascades(NewestRetention(calls[d].server))'
      BY <2>2, <1>1, <1>10 DEF PurgeOK, NewestRetention, Cascades
    <3>1. calls[d].cascade = Cascades(NewestRetention(calls[d].server))
      BY DEF SettingsInv, PurgesOK, PurgeOK
    <3>2. calls[d].server \in Processes BY DEF ServiceInv, CallsOK, CallOK, Idle
    <3>3. ASSUME NEW q \in Processes PROVE NewestRetention(q)' = NewestRetention(q)
      <4>1. newest'[q] = newest[q] /\ running'[q].default = running[q].default
        BY <1>1, <1>6, <1>8
      <4> QED BY <4>1 DEF NewestRetention
    <3>4. \A q : q = calls[d].server => NewestRetention(q)' = NewestRetention(q)
      BY <3>2, <3>3
    <3> QED BY <2>2, <1>10, <3>1, <3>4 DEF Cascades
  <2> QED BY <2>1, <2>2
<1>16. PurgesOK' BY <1>15 DEF PurgesOK
<1> QED BY <1>1, <1>9, <1>14, <1>16, NoRowNoPurge DEF SettingsInv

(* A process starts or ends: no call is left in it, and no override.       *)
LEMMA ProcessChangeKeepsSettings ==
  ASSUME ServiceInv, SettingsInv, NEW p \in Processes, NEW r,
         running' = [running EXCEPT ![p] = r],
         r.up => r.policy = {} /\ r.retention = {},
         newest' = [newest EXCEPT ![p] = NoSetting], raced' \cup {p} = raced \cup {p},
         \A d \in Callers :
           calls'[d] = IF calls[d] # Idle /\ calls[d].server = p THEN Idle ELSE calls[d]
  PROVE  SettingsInv'
<1>1. running'[p] = r /\ \A q \in Processes \ {p} : running'[q] = running[q]
  BY DEF ServiceInv, ProcessesOK
<1>2. /\ newest'[p] = NoSetting /\ \A q \in Processes \ {p} : newest'[q] = newest[q]
      /\ newest' \in [Processes -> [policy : SUBSET Configs, retention : SUBSET Profiles]]
  BY DEF SettingsInv, NewestOK, NoSetting
<1>3. NewestOK' BY <1>1, <1>2 DEF SettingsInv, NewestOK
<1>4. \A kind : Installs(p, kind)' = {} BY DEF Installs, Installing, Idle
<1>5. ASSUME NEW q \in Processes, q \notin raced', running'[q].up, NEW kind \in Kinds
      PROVE  OverrideOK(q, kind)'
  <2>1. CASE q = p
    <3>1. Installs(q, kind)' = {} BY <1>4, <2>1
    <3>2. running'[q][kind] = {} /\ newest'[q][kind] = {}
      BY <1>1, <1>2, <1>5, <2>1 DEF Kinds, NoSetting
    <3> QED BY <3>1, <3>2 DEF OverrideOK
  <2>2. CASE q # p
    <3>1. newest'[q] = newest[q] /\ running'[q] = running[q] BY <1>1, <1>2, <2>2
    <3>2. OverrideOK(q, kind) BY <3>1, <2>2, <1>5 DEF SettingsInv, OverridesOK
    <3>3. \A d \in Callers : calls'[d] # calls[d] => calls[d].server = p /\ calls'[d] = Idle
      OBVIOUS
    <3>4. \A d \in Callers : /\ d \in Installs(q, kind) <=> d \in Installs(q, kind)'
                             /\ d \in Installs(q, kind) => calls'[d] = calls[d]
      BY <2>2, <3>3 DEF Installs, Installing, Idle
    <3>5. Installs(q, kind) \subseteq Callers /\ Installs(q, kind)' \subseteq Callers
      BY DEF Installs, Installing
    <3>6. Installs(q, kind) = Installs(q, kind)' BY <3>4, <3>5
    <3> QED BY <3>1, <3>2, <3>4, <3>5, <3>6 DEF OverrideOK
  <2> QED BY <2>1, <2>2
<1>6. OverridesOK' BY <1>5 DEF OverridesOK
<1>7. ASSUME NEW d \in Callers PROVE PurgeOK(calls[d])'
  <2> SUFFICES ASSUME calls'[d].at = "purge", ~calls'[d].superseded,
                      calls'[d].server \notin raced'
               PROVE  calls'[d].cascade = Cascades(NewestRetention(calls[d].server))'
    BY DEF PurgeOK, NewestRetention, Cascades
  <2>1. calls'[d] = calls[d] /\ calls[d] # Idle /\ calls[d].server # p BY DEF Idle
  <2>2. calls[d].cascade = Cascades(NewestRetention(calls[d].server))
    BY <2>1 DEF SettingsInv, PurgesOK, PurgeOK
  <2>3. calls[d].server \in Processes BY <2>1 DEF ServiceInv, CallsOK, CallOK, Idle
  <2>4. ASSUME NEW q \in Processes \ {p} PROVE NewestRetention(q)' = NewestRetention(q)
    <3>1. newest'[q] = newest[q] /\ running'[q] = running[q] BY <1>1, <1>2
    <3> QED BY <3>1 DEF NewestRetention
  <2>5. \A q : q = calls[d].server => NewestRetention(q)' = NewestRetention(q)
    BY <2>1, <2>3, <2>4
  <2> QED BY <2>1, <2>2, <2>5 DEF Cascades
<1>8. PurgesOK' BY <1>7 DEF PurgesOK
<1> QED BY <1>3, <1>6, <1>8 DEF SettingsInv

LEMMA ProcessKeepsSettings ==
  ASSUME ServiceInv, SettingsInv, NEW p \in Processes, Start(p) \/ Crash(p) \/ KeysAdd(p)
  PROVE  SettingsInv' /\ PurgedAsAudited
<1>1. audit' = audit BY DEF Start, Crash, KeysAdd, vars, tables
<1>2. CASE Start(p)
  <2>1. /\ ~running[p].up /\ UNCHANGED <<calls, newest, raced>>
        /\ \E dir : running' = [running EXCEPT ![p] = Starting(dir)]
    BY <1>2 DEF Start, histories
  <2>2. PICK dir : running' = [running EXCEPT ![p] = Starting(dir)] BY <2>1
  <2>3. PICK r : r = Starting(dir) OBVIOUS
  <2>4. r.policy = {} /\ r.retention = {} BY <2>3 DEF Starting
  <2>5. newest' = [newest EXCEPT ![p] = NoSetting]
    BY <2>1 DEF SettingsInv, NewestOK
  <2>6. \A d \in Callers : calls[d] # Idle => calls[d].server # p
    BY <2>1 DEF ServiceInv, CallsOK, CallOK
  <2>7. \A d \in Callers :
          calls'[d] = IF calls[d] # Idle /\ calls[d].server = p THEN Idle ELSE calls[d]
    BY <2>1, <2>6
  <2>8. running' = [running EXCEPT ![p] = r] BY <2>2, <2>3
  <2>9. SettingsInv' BY <2>1, <2>4, <2>5, <2>7, <2>8, ProcessChangeKeepsSettings
  <2> QED BY <2>9, <1>1, NoRowNoPurge
<1>3. CASE Crash(p)
  <2>1. /\ running' = [running EXCEPT ![p] = Down]
        /\ newest' = [newest EXCEPT ![p] = NoSetting] /\ raced' = raced \ {p}
        /\ calls' = [c \in Callers |->
             IF c \in {d \in Callers : calls[d] # Idle /\ calls[d].server = p}
             THEN Idle ELSE calls[c]]
    BY <1>3 DEF Crash
  <2>2. \A d \in Callers :
          calls'[d] = IF calls[d] # Idle /\ calls[d].server = p THEN Idle ELSE calls[d]
    BY <2>1
  <2>3. PICK r : r = Down OBVIOUS
  <2>4. ~r.up /\ running' = [running EXCEPT ![p] = r] BY <2>1, <2>3 DEF Down
  <2>5. SettingsInv' BY <2>1, <2>2, <2>4, ProcessChangeKeepsSettings
  <2> QED BY <2>5, <1>1, NoRowNoPurge
<1>4. CASE KeysAdd(p)
  <2>1. /\ running[p].up /\ running' = [running EXCEPT ![p].served = TRUE]
        /\ UNCHANGED <<calls, newest, raced>>
    BY <1>4 DEF KeysAdd
  <2>2. \A q \in Processes : SameSettings(q) BY <2>1, ServedKeepsSettings
  <2>3. SettingsInv' BY <2>1, <2>2, SettingsStay
  <2> QED BY <2>3, <1>1, NoRowNoPurge
<1> QED BY <1>2, <1>3, <1>4

LEMMA InitSettingsInv ==
  ASSUME ServiceInit PROVE SettingsInv
<1>1. /\ newest = [p \in Processes |-> NoSetting] /\ calls = [c \in Callers |-> Idle]
      /\ running = [p \in Processes |-> IF p \in FirstUp THEN Starting(Fallback) ELSE Down]
  BY DEF ServiceInit
<1>2. NewestOK BY <1>1 DEF NewestOK, NoSetting
<1>3. PurgesOK BY <1>1 DEF PurgesOK, PurgeOK, Idle
<1>4. ASSUME NEW p \in Processes, running[p].up, NEW kind \in Kinds
      PROVE  OverrideOK(p, kind)
  <2>1. Installs(p, kind) = {} BY <1>1 DEF Installs, Installing, Idle
  <2>2. PICK r : r = Starting(Fallback) OBVIOUS
  <2>3. r[kind] = {} BY <2>2, <1>4 DEF Starting, Kinds
  <2>4. running[p] = r BY <1>1, <1>4, <2>2 DEF Down
  <2>5. newest[p][kind] = {} BY <1>1, <1>4 DEF NoSetting, Kinds
  <2> QED BY <2>1, <2>3, <2>4, <2>5 DEF OverrideOK
<1>5. OverridesOK BY <1>4 DEF OverridesOK
<1> QED BY <1>2, <1>3, <1>5 DEF SettingsInv

LEMMA ServiceNextKeepsSettings ==
  ASSUME ServiceInv, SettingsInv, [ServiceNext]_serviceVars
  PROVE  SettingsInv' /\ PurgedAsAudited
<1>1. CASE UNCHANGED serviceVars \/ Edit
  <2>1. UNCHANGED <<running, calls, newest, raced, audit>>
    BY <1>1 DEF serviceVars, Edit, histories, vars, tables
  <2> QED BY <2>1, SameRunningSameSettings, SettingsStay, NoRowNoPurge
<1>2. CASE \E p \in Processes : Start(p) \/ Crash(p) \/ KeysAdd(p)
  BY <1>2, ProcessKeepsSettings
<1>3. ASSUME NEW c \in Callers, Call(c) PROVE SettingsInv' /\ PurgedAsAudited
  <2>1. CASE \/ BeginRemember(c) \/ BeginRead(c) \/ BeginSetting(c)
             \/ BeginBudget(c) \/ BeginPurge(c) \/ BeginImport(c) \/ BeginExport(c)
    BY <2>1, NewCallKeepsSettings, ServiceAssumption
  <2>2. CASE Remember(c) BY <2>2, RememberKeepsSettings
  <2>3. CASE Read(c) \/ Cut(c) \/ RefuseImport(c) \/ AnswerExport(c)
    BY <2>3, ReadOrCutKeepsSettings
  <2>4. CASE AuditSetting(c) BY <2>4, AuditSettingKeepsSettings
  <2>5. CASE Install(c) BY <2>5, InstallKeepsSettings
  <2>6. CASE ChangeCeiling(c) BY <2>6, ChangeCeilingKeepsSettings
  <2>7. CASE AuditBudget(c) BY <2>7, AuditBudgetKeepsSettings
  <2>8. CASE ReadNamespaces(c) BY <2>8, ReadNamespacesKeepsSettings
  <2>9. CASE Purge(c) BY <2>9, PurgeKeepsSettings
  <2>10. CASE BringIn(c) BY <2>10, BringInKeepsSettings
  <2>11. CASE AuditImport(c) BY <2>11, AuditImportKeepsSettings
  <2>12. CASE Export(c) \/ AuditExport(c) BY <2>12, ExportKeepsSettings
  <2> QED BY <1>3, <2>1, <2>2, <2>3, <2>4, <2>5, <2>6, <2>7, <2>8, <2>9, <2>10, <2>11, <2>12
      DEF Call
<1> QED BY <1>1, <1>2, <1>3 DEF ServiceNext

(* While no two settings overlap, what is in force in a process is what    *)
(* was audited last through it (settings.rs).                              *)
THEOREM SettingsFollowTheAuditAlways == ServiceSpec => []SettingsFollowTheAudit
<1>1. ServiceInit => SettingsInv BY InitSettingsInv
<1>2. ServiceInv /\ SettingsInv /\ [ServiceNext]_serviceVars => SettingsInv'
  BY ServiceNextKeepsSettings
<1>3. SettingsInv => SettingsFollowTheAudit
  <2> SUFFICES ASSUME SettingsInv, NEW p \in Processes, p \notin raced, running[p].up,
                      Installing(p) = {}
               PROVE  [policy |-> running[p].policy, retention |-> running[p].retention]
                        = newest[p]
    BY DEF SettingsFollowTheAudit
  <2>1. \A kind \in Kinds : running[p][kind] = newest[p][kind]
    BY DEF SettingsInv, OverridesOK, OverrideOK, Installs
  <2>2. newest[p] \in [policy : SUBSET Configs, retention : SUBSET Profiles]
    BY DEF SettingsInv, NewestOK
  <2>3. running[p].policy = newest[p].policy /\ running[p].retention = newest[p].retention
    BY <2>1 DEF Kinds
  <2> QED BY <2>2, <2>3
<1> QED BY <1>1, <1>2, <1>3, ServiceInvariant, PTL DEF ServiceSpec

(* A purge that no setting overtook removes the subject's audit, or keeps  *)
(* it, as the profile audited last says (settings.rs, purge.rs).           *)
THEOREM PurgeHonoursRetentionAlways == ServiceSpec => PurgeHonoursRetention
<1>1. ServiceInit => SettingsInv BY InitSettingsInv
<1>2. ServiceInv /\ SettingsInv /\ [ServiceNext]_serviceVars
        => SettingsInv' /\ [PurgedAsAudited]_serviceVars
  BY ServiceNextKeepsSettings
<1> QED BY <1>1, <1>2, ServiceInvariant, PTL
        DEF ServiceSpec, PurgeHonoursRetention, PurgedAsAudited

-----------------------------------------------------------------------------
(* Ceilings changed and streams imported are counted.                      *)

(* The callers that still owe the row of e. *)
Owing(all, e) == {c \in Callers : all[c].at = "record" /\ all[c].event = e}

CountsInv ==
  /\ aggregates \in [AggregateKeys -> Nat]
  /\ changes \in [Afterwards -> Nat] /\ lost \in [Afterwards -> Nat]
  /\ brought.counts \in [Afterwards -> Nat]
  /\ \A e \in Afterwards :
       changes[e] + brought.counts[e] + HowMany(Logged, e) =
         aggregates[Undecided(e)] + lost[e] + Cardinality(Owing(calls, e))

LEMMA WaitingIsFinite ==
  ASSUME NEW all PROVE \A e : IsFiniteSet(Owing(all, e)) /\ Cardinality(Owing(all, e)) \in Nat
<1>1. \A e : Owing(all, e) \in SUBSET Callers BY DEF Owing
<1> QED BY <1>1, ServiceAssumption, FS_Subset, FS_CardinalityType

LEMMA RowsAreANumber ==
  ASSUME NEW rows, IsFiniteSet(rows)
  PROVE  /\ \A k : Cardinality({a \in rows : KeyOf(a) = k}) \in Nat
         /\ \A e : HowMany(rows, e) \in Nat
<1>1. \A k : {a \in rows : KeyOf(a) = k} \in SUBSET rows OBVIOUS
<1>2. ASSUME NEW k PROVE Cardinality({a \in rows : KeyOf(a) = k}) \in Nat
  BY <1>1, FS_Subset, FS_CardinalityType
<1> QED BY <1>2 DEF HowMany

LEMMA UndecidedIsABucket == \A e \in Afterwards : Undecided(e) \in AggregateKeys
<1>1. PICK m : m = Meta("system", FALSE, "none") OBVIOUS
<1>2. m \in AuditMetas /\ ~m.decided BY <1>1, ServiceAssumption DEF Meta, AuditColumns
<1>3. BucketOf[m] = "undecided" BY <1>2, ServiceAssumption
<1> QED BY <1>2, <1>3, StoreAssumption DEF Undecided, AggregateKeys, Events, Afterwards

LEMMA RowsCount ==
  ASSUME aggregates \in [AggregateKeys -> Nat], NEW rows, IsFiniteSet(rows),
         aggregates' = Counted(aggregates, rows)
  PROVE  /\ aggregates' \in [AggregateKeys -> Nat]
         /\ \A e \in Afterwards :
              /\ HowMany(rows, e) \in Nat
              /\ aggregates'[Undecided(e)] = aggregates[Undecided(e)] + HowMany(rows, e)
<1> DEFINE N(k) == Cardinality({a \in rows : KeyOf(a) = k})
<1>1. aggregates' = [k \in AggregateKeys |-> aggregates[k] + N(k)] BY DEF Counted
<1>2. \A k : N(k) \in Nat BY RowsAreANumber
<1>3. \A e : HowMany(rows, e) = N(Undecided(e)) BY DEF HowMany
<1> HIDE DEF N
<1>4. aggregates' \in [AggregateKeys -> Nat] BY <1>1, <1>2
<1>5. \A e \in Afterwards : aggregates'[Undecided(e)] = aggregates[Undecided(e)] + N(Undecided(e))
  BY <1>1, UndecidedIsABucket
<1> QED BY <1>2, <1>3, <1>4, <1>5

(* One row more is one more in its own bucket. *)
LEMMA OneRowCounts ==
  ASSUME aggregates \in [AggregateKeys -> Nat], NEW a, aggregates' = Counted(aggregates, {a})
  PROVE  /\ aggregates' \in [AggregateKeys -> Nat]
         /\ \A e \in Afterwards :
              aggregates'[Undecided(e)] =
                aggregates[Undecided(e)] + (IF KeyOf(a) = Undecided(e) THEN 1 ELSE 0)
<1>1. ASSUME NEW e PROVE HowMany({a}, e) = IF KeyOf(a) = Undecided(e) THEN 1 ELSE 0
  <2>1. CASE KeyOf(a) = Undecided(e)
    <3>1. {x \in {a} : KeyOf(x) = Undecided(e)} = {a} BY <2>1
    <3>2. Cardinality({a}) = 1 BY FS_Singleton
    <3> QED BY <2>1, <3>1, <3>2 DEF HowMany
  <2>2. CASE KeyOf(a) # Undecided(e)
    <3>1. {x \in {a} : KeyOf(x) = Undecided(e)} = {} BY <2>2
    <3> QED BY <2>2, <3>1, FS_EmptySet DEF HowMany
  <2> QED BY <2>1, <2>2
<1>2. IsFiniteSet({a}) BY FS_Singleton
<1> QED BY <1>1, <1>2, RowsCount

(* What moves both sides of the equation alike. *)
LEMMA CountsMove ==
  ASSUME CountsInv, aggregates' \in [AggregateKeys -> Nat], changes' \in [Afterwards -> Nat],
         lost' \in [Afterwards -> Nat], brought'.counts \in [Afterwards -> Nat],
         \A e \in Afterwards :
           (changes'[e] + brought'.counts[e])
               + (aggregates[Undecided(e)] + lost[e] + Cardinality(Owing(calls, e)))
           = (changes[e] + brought.counts[e])
               + (aggregates'[Undecided(e)] + lost'[e] + Cardinality(Owing(calls', e)))
  PROVE  CountsInv'
<1>1. ASSUME NEW e \in Afterwards
      PROVE  changes'[e] + brought'.counts[e] + HowMany(Logged, e) =
               aggregates'[Undecided(e)] + lost'[e] + Cardinality(Owing(calls', e))
  <2>1. changes[e] + brought.counts[e] + HowMany(Logged, e) =
          aggregates[Undecided(e)] + lost[e] + Cardinality(Owing(calls, e))
    BY DEF CountsInv
  <2>2. /\ changes[e] \in Nat /\ brought.counts[e] \in Nat /\ lost[e] \in Nat
        /\ aggregates[Undecided(e)] \in Nat
    BY UndecidedIsABucket DEF CountsInv
  <2>3. /\ changes'[e] \in Nat /\ brought'.counts[e] \in Nat /\ lost'[e] \in Nat
        /\ aggregates'[Undecided(e)] \in Nat
    BY UndecidedIsABucket
  <2>4. HowMany(Logged, e) \in Nat BY RowsAreANumber, ServiceAssumption
  <2>5. Cardinality(Owing(calls, e)) \in Nat /\ Cardinality(Owing(calls', e)) \in Nat
    BY WaitingIsFinite
  <2>6. (changes'[e] + brought'.counts[e])
            + (aggregates[Undecided(e)] + lost[e] + Cardinality(Owing(calls, e)))
        = (changes[e] + brought.counts[e])
            + (aggregates'[Undecided(e)] + lost'[e] + Cardinality(Owing(calls', e)))
    OBVIOUS
  <2> DEFINE p == changes[e] + brought.counts[e]
             q == aggregates[Undecided(e)] + lost[e] + Cardinality(Owing(calls, e))
             r == changes'[e] + brought'.counts[e]
             t == aggregates'[Undecided(e)] + lost'[e] + Cardinality(Owing(calls', e))
             h == HowMany(Logged, e)
  <2>7. p \in Nat /\ q \in Nat /\ r \in Nat /\ t \in Nat /\ h \in Nat
    BY <2>2, <2>3, <2>4, <2>5
  <2>8. p + h = q /\ r + q = p + t BY <2>1, <2>6
  <2> HIDE DEF p, q, r, t, h
  <2>9. r + h = t BY <2>7, <2>8
  <2> QED BY <2>9 DEF r, t, h
<1>2. \A e : HowMany(Logged, e)' = HowMany(Logged, e) BY DEF HowMany, KeyOf, Undecided
<1> QED BY <1>1, <1>2 DEF CountsInv, Owing, Undecided

LEMMA SilentCounts ==
  ASSUME CountsInv, UNCHANGED <<changes, lost, brought>>, aggregates' \in [AggregateKeys -> Nat],
         \A e \in Afterwards : /\ aggregates'[Undecided(e)] = aggregates[Undecided(e)]
                               /\ Owing(calls', e) = Owing(calls, e)
  PROVE  CountsInv'
<1>1. \A e \in Afterwards :
        (changes'[e] + brought'.counts[e])
            + (aggregates[Undecided(e)] + lost[e] + Cardinality(Owing(calls, e)))
        = (changes[e] + brought.counts[e])
            + (aggregates'[Undecided(e)] + lost'[e] + Cardinality(Owing(calls', e)))
  OBVIOUS
<1> QED BY <1>1, CountsMove DEF CountsInv

LEMMA NothingCounts ==
  ASSUME CountsInv, UNCHANGED <<changes, lost, brought, aggregates>>,
         \A e \in Afterwards : Owing(calls', e) = Owing(calls, e)
  PROVE  CountsInv'
<1> QED BY SilentCounts DEF CountsInv

(* A row of another kind, or one that carries a decision, is not counted.  *)
LEMMA OtherRowsDoNotCount ==
  ASSUME CountsInv, UNCHANGED <<changes, lost, brought>>,
         NEW a, \A e \in Afterwards : KeyOf(a) # Undecided(e),
         aggregates' = aggregates \/ aggregates' = Counted(aggregates, {a}),
         \A e \in Afterwards : Owing(calls', e) = Owing(calls, e)
  PROVE  CountsInv'
<1>1. CASE aggregates' = aggregates BY <1>1, NothingCounts
<1>2. CASE aggregates' = Counted(aggregates, {a})
  <2>1. /\ aggregates' \in [AggregateKeys -> Nat]
        /\ \A e \in Afterwards :
             aggregates'[Undecided(e)] =
               aggregates[Undecided(e)] + (IF KeyOf(a) = Undecided(e) THEN 1 ELSE 0)
    BY <1>2, OneRowCounts DEF CountsInv
  <2>2. \A e \in Afterwards : aggregates[Undecided(e)] \in Nat BY UndecidedIsABucket DEF CountsInv
  <2>3. \A e \in Afterwards : aggregates'[Undecided(e)] = aggregates[Undecided(e)] BY <2>1, <2>2
  <2> QED BY <2>1, <2>3, SilentCounts
<1> QED BY <1>1, <1>2

(* One call moves: it may begin to wait for its row, or end waiting.       *)
LEMMA WaitingMoves ==
  ASSUME ServiceInv, NEW c \in Callers, NEW next, calls' = [calls EXCEPT ![c] = next], NEW e
  PROVE  /\ next.at = "record" /\ next.event = e => Owing(calls', e) = Owing(calls, e) \cup {c}
         /\ ~(next.at = "record" /\ next.event = e) => Owing(calls', e) = Owing(calls, e) \ {c}
<1>1. calls'[c] = next /\ \A d \in Callers \ {c} : calls'[d] = calls[d]
  BY DEF ServiceInv, CallsOK
<1> QED BY <1>1 DEF Owing

LEMMA WaitingStays ==
  ASSUME ServiceInv, NEW c \in Callers, NEW next, calls' = [calls EXCEPT ![c] = next],
         next.at # "record", calls[c].at # "record"
  PROVE  \A e : Owing(calls', e) = Owing(calls, e)
<1> SUFFICES ASSUME NEW e PROVE Owing(calls', e) = Owing(calls, e) OBVIOUS
<1>1. Owing(calls', e) = Owing(calls, e) \ {c} BY WaitingMoves
<1>2. c \notin Owing(calls, e) BY DEF Owing
<1> QED BY <1>1, <1>2

LEMMA ReturnWaitsNoMore ==
  ASSUME ServiceInv, NEW c \in Callers, calls' = [calls EXCEPT ![c] = Idle],
         calls[c].at # "record"
  PROVE  \A e : Owing(calls', e) = Owing(calls, e)
<1>1. Idle.at # "record" BY DEF Idle
<1> QED BY <1>1, WaitingStays

-----------------------------------------------------------------------------
(* The three steps that count: the change, its row, and a call given up    *)
(* between them.                                                           *)

LEMMA ChangeCounts ==
  ASSUME ServiceInv, CountsInv, NEW c \in Callers, calls[c].at # "record",
         NEW f \in Afterwards, NEW next, calls' = [calls EXCEPT ![c] = next],
         next.at = "record", next.event = f,
         changes' = [changes EXCEPT ![f] = @ + 1], UNCHANGED lost,
         aggregates' \in [AggregateKeys -> Nat], brought'.counts \in [Afterwards -> Nat],
         \A e \in Afterwards : \E n \in Nat :
           /\ aggregates'[Undecided(e)] = aggregates[Undecided(e)] + n
           /\ brought'.counts[e] = brought.counts[e] + n
  PROVE  CountsInv'
<1>1. changes' \in [Afterwards -> Nat] BY DEF CountsInv
<1>2. ASSUME NEW e \in Afterwards
      PROVE  (changes'[e] + brought'.counts[e])
                 + (aggregates[Undecided(e)] + lost[e] + Cardinality(Owing(calls, e)))
             = (changes[e] + brought.counts[e])
                 + (aggregates'[Undecided(e)] + lost'[e] + Cardinality(Owing(calls', e)))
  <2>1. /\ changes[e] \in Nat /\ brought.counts[e] \in Nat /\ lost[e] \in Nat
        /\ aggregates[Undecided(e)] \in Nat
    BY UndecidedIsABucket DEF CountsInv
  <2>2. IsFiniteSet(Owing(calls, e)) /\ Cardinality(Owing(calls, e)) \in Nat BY WaitingIsFinite
  <2>3. PICK n \in Nat : aggregates'[Undecided(e)] = aggregates[Undecided(e)] + n
                         /\ brought'.counts[e] = brought.counts[e] + n
    OBVIOUS
  <2>4. c \notin Owing(calls, e) BY DEF Owing
  <2>5. changes'[e] + Cardinality(Owing(calls, e)) = changes[e] + Cardinality(Owing(calls', e))
        /\ changes'[e] \in Nat /\ Cardinality(Owing(calls', e)) \in Nat
    <3>1. CASE e = f
      <4>1. Owing(calls', e) = Owing(calls, e) \cup {c} BY <3>1, WaitingMoves
      <4>2. Cardinality(Owing(calls', e)) = Cardinality(Owing(calls, e)) + 1
        BY <2>2, <2>4, <4>1, FS_AddElement
      <4>3. changes'[e] = changes[e] + 1 BY <3>1 DEF CountsInv
      <4> DEFINE w == Cardinality(Owing(calls, e))
                 v == Cardinality(Owing(calls', e))
                 x == changes[e]
                 y == changes'[e]
      <4>4. w \in Nat /\ x \in Nat /\ v = w + 1 /\ y = x + 1 BY <2>1, <2>2, <4>2, <4>3
      <4> HIDE DEF w, v, x, y
      <4>5. y + w = x + v /\ y \in Nat /\ v \in Nat BY <4>4
      <4> QED BY <4>5 DEF w, v, x, y
    <3>2. CASE e # f
      <4>1. Owing(calls', e) = Owing(calls, e)
        <5>1. ~(next.at = "record" /\ next.event = e) BY <3>2
        <5>2. calls'[c] = next /\ \A d \in Callers \ {c} : calls'[d] = calls[d]
          BY DEF ServiceInv, CallsOK
        <5> QED BY <2>4, <5>1, <5>2 DEF Owing
      <4>2. changes'[e] = changes[e] BY <3>2 DEF CountsInv
      <4> QED BY <2>1, <2>2, <4>1, <4>2
    <3> QED BY <3>1, <3>2
  <2> DEFINE w == Cardinality(Owing(calls, e))
             v == Cardinality(Owing(calls', e))
             x == changes[e]
             y == changes'[e]
             b == brought.counts[e]
             g == aggregates[Undecided(e)]
             l == lost[e]
  <2>6. /\ w \in Nat /\ v \in Nat /\ x \in Nat /\ y \in Nat /\ b \in Nat /\ g \in Nat /\ l \in Nat
        /\ y + w = x + v
    BY <2>1, <2>2, <2>5
  <2>7. aggregates'[Undecided(e)] = g + n /\ brought'.counts[e] = b + n /\ lost'[e] = l
    BY <2>3
  <2> HIDE DEF w, v, x, y, b, g, l
  <2>8. (y + (b + n)) + (g + l + w) = (x + b) + ((g + n) + l + v) BY <2>3, <2>6
  <2> QED BY <2>7, <2>8 DEF w, v, x, y, b, g, l
<1> QED BY <1>1, <1>2, CountsMove DEF CountsInv

LEMMA RowOfChangeCounts ==
  ASSUME ServiceInv, CountsInv, NEW c \in Callers, NEW f \in Afterwards, c \in Owing(calls, f),
         calls' = [calls EXCEPT ![c] = Idle], NEW a, aggregates' = Counted(aggregates, {a}),
         KeyOf(a) = Undecided(f), UNCHANGED <<changes, lost, brought>>
  PROVE  CountsInv'
<1>1. /\ aggregates' \in [AggregateKeys -> Nat]
      /\ \A e \in Afterwards :
           aggregates'[Undecided(e)] =
             aggregates[Undecided(e)] + (IF KeyOf(a) = Undecided(e) THEN 1 ELSE 0)
  BY OneRowCounts DEF CountsInv
<1>2. Idle.at # "record" BY DEF Idle
<1>3. ASSUME NEW e PROVE Owing(calls', e) = Owing(calls, e) \ {c} BY <1>2, WaitingMoves
<1>4. ASSUME NEW e \in Afterwards
      PROVE  (changes'[e] + brought'.counts[e])
                 + (aggregates[Undecided(e)] + lost[e] + Cardinality(Owing(calls, e)))
             = (changes[e] + brought.counts[e])
                 + (aggregates'[Undecided(e)] + lost'[e] + Cardinality(Owing(calls', e)))
  <2>1. /\ changes[e] \in Nat /\ brought.counts[e] \in Nat /\ lost[e] \in Nat
        /\ aggregates[Undecided(e)] \in Nat
    BY UndecidedIsABucket DEF CountsInv
  <2>2. IsFiniteSet(Owing(calls, e)) /\ Cardinality(Owing(calls, e)) \in Nat BY WaitingIsFinite
  <2>3. Cardinality(Owing(calls', e)) \in Nat BY WaitingIsFinite
  <2>4. aggregates[Undecided(e)] + Cardinality(Owing(calls, e))
          = aggregates'[Undecided(e)] + Cardinality(Owing(calls', e))
        /\ aggregates'[Undecided(e)] \in Nat
    <3>1. CASE e = f
      <4>1. Cardinality(Owing(calls', e)) = Cardinality(Owing(calls, e)) - 1
        BY <1>3, <2>2, <3>1, FS_RemoveElement
      <4>2. aggregates'[Undecided(e)] = aggregates[Undecided(e)] + 1 BY <1>1, <3>1
      <4> DEFINE w == Cardinality(Owing(calls, e))
                 v == Cardinality(Owing(calls', e))
                 g == aggregates[Undecided(e)]
                 k == aggregates'[Undecided(e)]
      <4>3. w \in Nat /\ v \in Nat /\ g \in Nat /\ v = w - 1 /\ k = g + 1
        BY <2>1, <2>2, <2>3, <4>1, <4>2
      <4> HIDE DEF w, v, g, k
      <4>4. g + w = k + v /\ k \in Nat BY <4>3
      <4> QED BY <4>4 DEF w, v, g, k
    <3>2. CASE e # f
      <4>1. Owing(calls', e) = Owing(calls, e)
        <5>1. c \notin Owing(calls, e) BY <3>2 DEF Owing
        <5> QED BY <1>3, <5>1
      <4>2. aggregates'[Undecided(e)] = aggregates[Undecided(e)]
        <5>1. KeyOf(a) # Undecided(e) BY <3>2 DEF Undecided
        <5>2. aggregates'[Undecided(e)] = aggregates[Undecided(e)] + 0 BY <1>1, <5>1
        <5> QED BY <2>1, <5>2
      <4> QED BY <2>1, <2>2, <4>1, <4>2
    <3> QED BY <3>1, <3>2
  <2> DEFINE w == Cardinality(Owing(calls, e))
             v == Cardinality(Owing(calls', e))
             x == changes[e]
             b == brought.counts[e]
             g == aggregates[Undecided(e)]
             k == aggregates'[Undecided(e)]
             l == lost[e]
  <2>5. /\ w \in Nat /\ v \in Nat /\ x \in Nat /\ b \in Nat /\ g \in Nat /\ k \in Nat /\ l \in Nat
        /\ g + w = k + v
    BY <2>1, <2>2, <2>3, <2>4
  <2> HIDE DEF w, v, x, b, g, k, l
  <2>6. (x + b) + (g + l + w) = (x + b) + (k + l + v) BY <2>5
  <2> QED BY <2>6 DEF w, v, x, b, g, k, l
<1> QED BY <1>1, <1>4, CountsMove DEF CountsInv

LEMMA GivenUpCounts ==
  ASSUME ServiceInv, CountsInv, NEW gone \in SUBSET Callers,
         \A d \in Callers : calls'[d] = IF d \in gone THEN Idle ELSE calls[d],
         UNCHANGED <<aggregates, changes, brought>>,
         lost' = [e \in Afterwards |-> lost[e] + Cardinality(gone \cap Owing(calls, e))]
  PROVE  CountsInv'
<1>1. ASSUME NEW e \in Afterwards
      PROVE  /\ Cardinality(gone \cap Owing(calls, e)) \in Nat
             /\ Cardinality(Owing(calls', e)) =
                  Cardinality(Owing(calls, e)) - Cardinality(gone \cap Owing(calls, e))
  <2>1. Owing(calls', e) = Owing(calls, e) \ gone BY DEF Owing, Idle
  <2>2. IsFiniteSet(Owing(calls, e)) BY WaitingIsFinite
  <2>3. Cardinality(Owing(calls, e) \ gone) =
          Cardinality(Owing(calls, e)) - Cardinality(Owing(calls, e) \cap gone)
    BY <2>2, FS_Difference
  <2>4. Owing(calls, e) \cap gone = gone \cap Owing(calls, e) OBVIOUS
  <2>5. gone \cap Owing(calls, e) \in SUBSET Owing(calls, e) OBVIOUS
  <2>6. Cardinality(gone \cap Owing(calls, e)) \in Nat
    BY <2>2, <2>5, FS_Subset, FS_CardinalityType
  <2> QED BY <2>1, <2>3, <2>4, <2>6
<1>2. lost' \in [Afterwards -> Nat] BY <1>1 DEF CountsInv
<1>3. ASSUME NEW e \in Afterwards
      PROVE  (changes'[e] + brought'.counts[e])
                 + (aggregates[Undecided(e)] + lost[e] + Cardinality(Owing(calls, e)))
             = (changes[e] + brought.counts[e])
                 + (aggregates'[Undecided(e)] + lost'[e] + Cardinality(Owing(calls', e)))
  <2>1. /\ changes[e] \in Nat /\ brought.counts[e] \in Nat /\ lost[e] \in Nat
        /\ aggregates[Undecided(e)] \in Nat
    BY UndecidedIsABucket DEF CountsInv
  <2>2. Cardinality(Owing(calls, e)) \in Nat BY WaitingIsFinite
  <2>3. lost'[e] = lost[e] + Cardinality(gone \cap Owing(calls, e)) OBVIOUS
  <2>4. aggregates'[Undecided(e)] = aggregates[Undecided(e)] OBVIOUS
  <2> QED BY <1>1, <2>1, <2>2, <2>3, <2>4
<1> QED BY <1>2, <1>3, CountsMove DEF CountsInv

-----------------------------------------------------------------------------
(* Every step keeps the count.                                             *)

LEMMA NewCallKeepsCounts ==
  ASSUME ServiceInv, CountsInv, ServiceAssumption, NEW c \in Callers,
         \/ BeginRemember(c) \/ BeginRead(c) \/ BeginSetting(c)
         \/ BeginBudget(c) \/ BeginPurge(c) \/ BeginImport(c) \/ BeginExport(c)
  PROVE  CountsInv'
<1>1. PICK call : Begun(c, call) /\ call.server \in Processes /\ call.at \in FirstStages
  BY NewCallIs
<1>2. /\ calls[c] = Idle /\ calls' = [calls EXCEPT ![c] = call]
      /\ UNCHANGED <<aggregates, changes, lost, brought>>
  BY <1>1 DEF Begun, vars, tables
<1>3. calls[c].at # "record" /\ call.at # "record" BY <1>1, <1>2 DEF Idle, FirstStages
<1>4. \A e : Owing(calls', e) = Owing(calls, e) BY <1>2, <1>3, WaitingStays
<1> QED BY <1>2, <1>4, NothingCounts

LEMMA RememberKeepsCounts ==
  ASSUME ServiceInv, CountsInv, NEW c \in Callers, Remember(c)
  PROVE  CountsInv'
<1>1. /\ calls' = [calls EXCEPT ![c] = Idle] /\ calls[c].at = "apply"
      /\ UNCHANGED <<changes, lost, brought>>
  BY DEF Remember, Returned, histories
<1> DEFINE s == calls[c].scope
           u == Meta(calls[c].actor, TRUE, "none")
<1>2. PICK id \in ItemIds \ Ids(items), b \in Bodies, v \in Metas :
        Apply([Record(s, "Admitted", u) EXCEPT
                !.refs = {id},
                !.upsert = {[id |-> id, scope |-> s, body |-> b, tags |-> {},
                             meta |-> v, pending |-> FALSE, embedded |-> TRUE]}],
              minted + 1)
  BY DEF Remember
<1> DEFINE t == [Record(s, "Admitted", u) EXCEPT
                !.refs = {id},
                !.upsert = {[id |-> id, scope |-> s, body |-> b, tags |-> {},
                             meta |-> v, pending |-> FALSE, embedded |-> TRUE]}]
           a == [id |-> minted + 1, scope |-> t.auditScope, event |-> t.event,
                 items |-> t.refs, meta |-> t.auditMeta]
<1>3. /\ t.merge = {} /\ t.evictions = {} /\ t.event = "Admitted"
      /\ \A w \in t.upsert : w.scope = t.scope
  BY DEF Record
<1> HIDE DEF t
<1>4. aggregates' = aggregates \/ aggregates' = Counted(aggregates, {a})
  BY <1>2, <1>3, InsertIs DEF t
<1>5. \A e \in Afterwards : KeyOf(a) # Undecided(e) BY <1>3 DEF KeyOf, Undecided, Afterwards
<1> HIDE DEF a
<1>6. \A e : Owing(calls', e) = Owing(calls, e) BY <1>1, ReturnWaitsNoMore
<1> QED BY <1>1, <1>4, <1>5, <1>6, OtherRowsDoNotCount

LEMMA PurgeKeepsCounts ==
  ASSUME ServiceInv, CountsInv, NEW c \in Callers, Purge(c)
  PROVE  CountsInv'
<1> DEFINE a == [id |-> minted + 1, scope |-> calls[c].scope, event |-> "SubjectPurged",
                 items |-> {}, meta |-> Meta(calls[c].actor, FALSE, "none")]
<1>1. /\ calls' = [calls EXCEPT ![c] = Idle] /\ calls[c].at = "purge"
      /\ UNCHANGED <<changes, lost, brought>> /\ aggregates' = Counted(aggregates, {a})
  BY DEF Purge, PurgeSubject, Returned, histories
<1>2. \A e \in Afterwards : KeyOf(a) # Undecided(e) BY DEF KeyOf, Undecided, Afterwards
<1> HIDE DEF a
<1>3. \A e : Owing(calls', e) = Owing(calls, e) BY <1>1, ReturnWaitsNoMore
<1> QED BY <1>1, <1>2, <1>3, OtherRowsDoNotCount

LEMMA SettingKeepsCounts ==
  ASSUME ServiceInv, CountsInv, NEW c \in Callers, AuditSetting(c)
  PROVE  CountsInv'
<1> DEFINE m == Meta(calls[c].actor, TRUE, calls[c].to)
           a == [id |-> minted + 1, scope |-> AdminScope, event |-> "PolicyChanged",
                 items |-> {}, meta |-> m]
<1>1. aggregates' = Counted(aggregates, {a}) /\ UNCHANGED <<changes, lost, brought>>
  BY RecordIs DEF AuditSetting
<1>2. /\ calls[c].at = "audit" /\ Setting(calls[c]) /\ calls[c].server \in Processes
      /\ running[calls[c].server].up /\ calls'[c].at = "install"
      /\ \A d \in Callers \ {c} :
           calls'[d] = calls[d] \/ (calls[d].at = "purge" /\ calls'[d].at = "purge")
  BY AuditSettingIs
<1>3. calls[c].actor \in KeyIds
  <2>1. PICK k \in running[calls[c].server].keys : k.id = calls[c].actor
    BY <1>2 DEF Setting
  <2>2. Genuine(running[calls[c].server].keys)
    BY <1>2 DEF ServiceInv, ProcessesOK, ProcessOK, Down
  <2> QED BY <2>1, <2>2 DEF Genuine, KeyIds
<1>4. m \in AuditMetas /\ m.decided
  BY <1>2, <1>3, ServiceAssumption DEF Meta, AuditColumns, Setting
<1>5. \A e \in Afterwards : KeyOf(a) # Undecided(e)
  <2>1. BucketOf[m] = "decided" BY <1>4, ServiceAssumption
  <2> QED BY <2>1 DEF KeyOf, Undecided
<1> HIDE DEF a, m
<1>6. \A e : Owing(calls', e) = Owing(calls, e) BY <1>2 DEF Owing
<1> QED BY <1>1, <1>5, <1>6, OtherRowsDoNotCount

(* The change first, then its row: one caller more waits in between.       *)
LEMMA ChangeCeilingCounts ==
  ASSUME ServiceInv, CountsInv, NEW c \in Callers, ChangeCeiling(c)
  PROVE  CountsInv'
<1>1. /\ calls[c].at = "ceiling" /\ calls' = [calls EXCEPT ![c].at = "record"]
      /\ UNCHANGED <<aggregates, lost, brought>>
      /\ changes' = [changes EXCEPT !["PolicyChanged"] = @ + 1]
  BY DEF ChangeCeiling, SetBudget
<1>2. Budgeting(calls[c]) BY <1>1, StageIs
<1>3. PICK next : next = [calls[c] EXCEPT !.at = "record"] OBVIOUS
<1>4. next.at = "record" /\ next.event = "PolicyChanged" BY <1>2, <1>3 DEF Budgeting
<1>5. calls' = [calls EXCEPT ![c] = next] BY <1>1, <1>3
<1>6. \A e \in Afterwards : aggregates[Undecided(e)] \in Nat /\ brought.counts[e] \in Nat
  BY UndecidedIsABucket DEF CountsInv
<1>7. \A e \in Afterwards : aggregates'[Undecided(e)] = aggregates[Undecided(e)] + 0
                            /\ brought'.counts[e] = brought.counts[e] + 0
  BY <1>1, <1>6
<1>8. "PolicyChanged" \in Afterwards BY DEF Afterwards
<1>9. \A e \in Afterwards : \E n \in Nat :
        /\ aggregates'[Undecided(e)] = aggregates[Undecided(e)] + n
        /\ brought'.counts[e] = brought.counts[e] + n
  BY <1>7
<1> QED BY <1>1, <1>4, <1>5, <1>8, <1>9, ChangeCounts DEF CountsInv

(* So it is with a stream, whose own rows are counted as they come in.     *)
LEMMA BringInCounts ==
  ASSUME ServiceInv, CountsInv, NEW c \in Callers, BringIn(c)
  PROVE  CountsInv'
<1>1. PICK st \in Streams :
        /\ ImportCommits(st) /\ Import(st) /\ brought' = Brought(st)
        /\ calls' = [calls EXCEPT ![c].at = "record", ![c].refs = Ids(st.items)]
  BY DEF BringIn
<1>2. /\ calls[c].at = "import" /\ UNCHANGED lost
      /\ changes' = [changes EXCEPT !["Imported"] = @ + 1]
      /\ aggregates' = Counted(aggregates, st.audits)
  BY <1>1 DEF BringIn, Import, ImportCommit, AuditInserted
<1>3. ImportStage(calls[c]) BY <1>2, StageIs
<1>4. PICK next : next = [calls[c] EXCEPT !.at = "record", !.refs = Ids(st.items)] OBVIOUS
<1>5. next.at = "record" /\ next.event = "Imported" BY <1>3, <1>4 DEF ImportStage
<1>6. calls' = [calls EXCEPT ![c] = next] BY <1>1, <1>4 DEF ServiceInv, CallsOK
<1>7. IsFiniteSet(st.audits) BY StoreAssumption
<1>8. /\ aggregates' \in [AggregateKeys -> Nat]
      /\ \A e \in Afterwards :
           /\ HowMany(st.audits, e) \in Nat
           /\ aggregates'[Undecided(e)] = aggregates[Undecided(e)] + HowMany(st.audits, e)
  BY <1>2, <1>7, RowsCount DEF CountsInv
<1>9. brought'.counts = [e \in Afterwards |-> brought.counts[e] + HowMany(st.audits, e)]
  BY <1>1 DEF Brought
<1>10. brought'.counts \in [Afterwards -> Nat] BY <1>8, <1>9 DEF CountsInv
<1>11. \A e \in Afterwards : \E n \in Nat :
         /\ aggregates'[Undecided(e)] = aggregates[Undecided(e)] + n
         /\ brought'.counts[e] = brought.counts[e] + n
  BY <1>8, <1>9
<1>12. "Imported" \in Afterwards BY DEF Afterwards
<1> QED BY <1>2, <1>5, <1>6, <1>8, <1>10, <1>11, <1>12, ChangeCounts

LEMMA AuditBudgetCounts ==
  ASSUME ServiceInv, CountsInv, NEW c \in Callers, AuditBudget(c)
  PROVE  CountsInv'
<1> DEFINE m == BudgetMeta(calls[c].actor)
           a == [id |-> minted + 1, scope |-> calls[c].scope, event |-> "PolicyChanged",
                 items |-> {}, meta |-> m]
<1>1. /\ c \in Owing(calls, "PolicyChanged") /\ calls' = [calls EXCEPT ![c] = Idle]
      /\ aggregates' = Counted(aggregates, {a}) /\ UNCHANGED <<changes, lost, brought>>
  BY RecordIs DEF AuditBudget, Returned, histories, Unaudited, Owing
<1>2. Budgeting(calls[c]) BY <1>1, StageIs DEF Owing
<1>3. m \in AuditMetas /\ ~m.decided
  BY <1>2, ServiceAssumption DEF BudgetMeta, Meta, AuditColumns, Budgeting
<1>4. KeyOf(a) = Undecided("PolicyChanged")
  <2>1. BucketOf[m] = "undecided" BY <1>3, ServiceAssumption
  <2> QED BY <2>1 DEF KeyOf, Undecided
<1> HIDE DEF a, m
<1>5. "PolicyChanged" \in Afterwards BY DEF Afterwards
<1> QED BY <1>1, <1>4, <1>5, RowOfChangeCounts

LEMMA AuditImportCounts ==
  ASSUME ServiceInv, CountsInv, NEW c \in Callers, AuditImport(c)
  PROVE  CountsInv'
<1>1. /\ c \in Owing(calls, "Imported") /\ calls' = [calls EXCEPT ![c] = Idle]
      /\ UNCHANGED <<changes, lost, brought>>
  BY DEF AuditImport, Returned, histories, Unaudited, Owing
<1>2. ImportStage(calls[c]) /\ calls[c].server \in Processes /\ running[calls[c].server].up
  BY <1>1, StageIs DEF Owing
<1>3. calls[c].actor \in KeyIds \cup {"cli"}
  <2>1. CASE calls[c].actor = "cli" BY <2>1
  <2>2. CASE calls[c].actor # "cli"
    <3>1. PICK k \in running[calls[c].server].keys : k.id = calls[c].actor
      BY <1>2, <2>2 DEF ImportStage, KeyOrCommand
    <3>2. Genuine(running[calls[c].server].keys)
      BY <1>2 DEF ServiceInv, ProcessesOK, ProcessOK, Down
    <3> QED BY <3>1, <3>2 DEF Genuine, KeyIds
  <2> QED BY <2>1, <2>2
<1>4. PICK a : /\ aggregates' = Counted(aggregates, {a}) /\ a.event = "Imported"
               /\ a.meta = Meta(calls[c].actor, FALSE, "none")
  BY ImportRecordIs
<1>5. a.meta \in AuditMetas /\ ~a.meta.decided
  BY <1>3, <1>4, ServiceAssumption DEF Meta, AuditColumns
<1>6. KeyOf(a) = Undecided("Imported")
  <2>1. BucketOf[a.meta] = "undecided" BY <1>5, ServiceAssumption
  <2> QED BY <2>1, <1>4 DEF KeyOf, Undecided
<1>7. "Imported" \in Afterwards BY DEF Afterwards
<1> QED BY <1>1, <1>4, <1>6, <1>7, RowOfChangeCounts

LEMMA ExportKeepsCounts ==
  ASSUME ServiceInv, CountsInv, NEW c \in Callers, Export(c) \/ AuditExport(c)
  PROVE  CountsInv'
<1>1. CASE Export(c)
  <2>1. /\ calls[c].at = "export" /\ UNCHANGED <<changes, lost, brought, aggregates>>
        /\ calls' = [calls EXCEPT ![c].at = "exported", ![c].scopes = Selected(calls[c])]
    BY <1>1 DEF Export, histories, vars, tables
  <2>2. ExportStage(calls[c]) BY <2>1, StageIs
  <2>3. PICK next : next = [calls[c] EXCEPT !.at = "exported", !.scopes = Selected(calls[c])]
    OBVIOUS
  <2>4. next.at = "exported" BY <2>2, <2>3 DEF ExportStage
  <2>5. calls' = [calls EXCEPT ![c] = next] BY <2>1, <2>3
  <2>6. next.at # "record" /\ calls[c].at # "record" BY <2>1, <2>4
  <2>7. \A e : Owing(calls', e) = Owing(calls, e) BY <2>5, <2>6, WaitingStays
  <2> QED BY <2>1, <2>7, NothingCounts
<1>2. CASE AuditExport(c)
  <2> DEFINE a == [id |-> minted + 1, scope |-> AdminScope, event |-> "Exported",
                   items |-> {}, meta |-> Meta(calls[c].actor, TRUE, "none")]
  <2>1. /\ calls[c].at = "exported" /\ UNCHANGED <<changes, lost, brought>>
        /\ calls' = [calls EXCEPT ![c].at = "answer"]
        /\ aggregates' = Counted(aggregates, {a})
    BY <1>2, RecordIs DEF AuditExport, histories
  <2>2. ExportStage(calls[c]) BY <2>1, StageIs
  <2>3. PICK next : next = [calls[c] EXCEPT !.at = "answer"] OBVIOUS
  <2>4. next.at = "answer" BY <2>2, <2>3 DEF ExportStage
  <2>5. calls' = [calls EXCEPT ![c] = next] BY <2>1, <2>3
  <2>6. \A e \in Afterwards : KeyOf(a) # Undecided(e) BY DEF KeyOf, Undecided, Afterwards
  <2> HIDE DEF a
  <2>7. next.at # "record" /\ calls[c].at # "record" BY <2>1, <2>4
  <2>8. \A e : Owing(calls', e) = Owing(calls, e) BY <2>5, <2>7, WaitingStays
  <2> QED BY <2>1, <2>6, <2>8, OtherRowsDoNotCount
<1> QED BY <1>1, <1>2

LEMMA CutCounts ==
  ASSUME ServiceInv, CountsInv, NEW c \in Callers, Cut(c)
  PROVE  CountsInv'
<1>1. /\ calls' = [calls EXCEPT ![c] = Idle] /\ UNCHANGED <<aggregates, changes, brought>>
      /\ lost' = [e \in Afterwards |-> lost[e] + Cardinality({c} \cap Owing(calls, e))]
  BY DEF Cut, Returned, Unaudited, Owing, vars, tables
<1>2. \A d \in Callers : calls'[d] = IF d \in {c} THEN Idle ELSE calls[d]
  BY <1>1 DEF ServiceInv, CallsOK
<1>3. {c} \in SUBSET Callers OBVIOUS
<1> QED BY <1>1, <1>2, <1>3, GivenUpCounts

(* A crash gives up every call of its process at once. *)
LEMMA CrashCounts ==
  ASSUME ServiceInv, CountsInv, NEW p \in Processes, Crash(p)
  PROVE  CountsInv'
<1> DEFINE gone == {c \in Callers : calls[c] # Idle /\ calls[c].server = p}
<1>1. /\ calls' = [c \in Callers |-> IF c \in gone THEN Idle ELSE calls[c]]
      /\ UNCHANGED <<aggregates, changes, brought>>
      /\ lost' = [e \in Afterwards |-> lost[e] + Cardinality(gone \cap Owing(calls, e))]
  BY DEF Crash, Unaudited, Owing, vars, tables
<1>2. gone \in SUBSET Callers OBVIOUS
<1> HIDE DEF gone
<1>3. \A d \in Callers : calls'[d] = IF d \in gone THEN Idle ELSE calls[d] BY <1>1
<1> QED BY <1>1, <1>2, <1>3, GivenUpCounts

LEMMA InitCountsInv ==
  ASSUME ServiceInit PROVE CountsInv
<1>1. /\ aggregates = [k \in AggregateKeys |-> Cardinality({a \in Logged : KeyOf(a) = k})]
      /\ changes = [e \in Afterwards |-> 0] /\ lost = [e \in Afterwards |-> 0]
      /\ brought.counts = [e \in Afterwards |-> 0]
      /\ calls = [c \in Callers |-> Idle]
  BY DEF ServiceInit
<1>2. aggregates \in [AggregateKeys -> Nat]
  <2> DEFINE N(k) == Cardinality({a \in Logged : KeyOf(a) = k})
  <2>1. \A k : N(k) \in Nat BY RowsAreANumber, ServiceAssumption
  <2>2. aggregates = [k \in AggregateKeys |-> N(k)] BY <1>1
  <2> HIDE DEF N
  <2> QED BY <2>1, <2>2
<1>3. ASSUME NEW e \in Afterwards
      PROVE  changes[e] + brought.counts[e] + HowMany(Logged, e) =
               aggregates[Undecided(e)] + lost[e] + Cardinality(Owing(calls, e))
  <2>1. Owing(calls, e) = {} BY <1>1 DEF Owing, Idle
  <2>2. Cardinality(Owing(calls, e)) = 0 BY <2>1, FS_EmptySet
  <2>3. aggregates[Undecided(e)] = HowMany(Logged, e)
    BY <1>1, UndecidedIsABucket DEF HowMany
  <2>4. HowMany(Logged, e) \in Nat BY RowsAreANumber, ServiceAssumption DEF HowMany
  <2> QED BY <1>1, <2>2, <2>3, <2>4
<1>4. /\ changes \in [Afterwards -> Nat] /\ lost \in [Afterwards -> Nat]
      /\ brought.counts \in [Afterwards -> Nat]
  BY <1>1
<1> QED BY <1>2, <1>3, <1>4 DEF CountsInv

LEMMA ServiceNextKeepsCounts ==
  ASSUME ServiceInv, CountsInv, [ServiceNext]_serviceVars
  PROVE  CountsInv'
<1>1. CASE UNCHANGED <<calls, aggregates, changes, lost, brought>>
  <2>1. \A e : Owing(calls', e) = Owing(calls, e) BY <1>1 DEF Owing
  <2> QED BY <1>1, <2>1, NothingCounts
<1>2. ASSUME NEW p \in Processes, Start(p) \/ KeysAdd(p) PROVE CountsInv'
  BY <1>1, <1>2 DEF Start, KeysAdd, histories, vars, tables
<1>3. CASE UNCHANGED serviceVars \/ Edit
  BY <1>1, <1>3 DEF serviceVars, Edit, histories, vars, tables
<1>4. CASE \E p \in Processes : Crash(p) BY <1>4, CrashCounts
<1>5. ASSUME NEW c \in Callers, Call(c) PROVE CountsInv'
  <2>1. CASE \/ BeginRemember(c) \/ BeginRead(c) \/ BeginSetting(c)
             \/ BeginBudget(c) \/ BeginPurge(c) \/ BeginImport(c) \/ BeginExport(c)
    BY <2>1, NewCallKeepsCounts, ServiceAssumption
  <2>2. CASE Remember(c) BY <2>2, RememberKeepsCounts
  <2>3. CASE Read(c) \/ Install(c) \/ RefuseImport(c) \/ AnswerExport(c)
    <3>1. /\ UNCHANGED <<aggregates, changes, lost, brought>>
          /\ calls' = [calls EXCEPT ![c] = Idle] /\ calls[c].at # "record"
      BY <2>3 DEF Read, Install, RefuseImport, AnswerExport, Returned, histories, vars, tables
    <3>2. \A e : Owing(calls', e) = Owing(calls, e) BY <3>1, ReturnWaitsNoMore
    <3> QED BY <3>1, <3>2, NothingCounts
  <2>4. CASE AuditSetting(c) BY <2>4, SettingKeepsCounts
  <2>5. CASE ChangeCeiling(c) BY <2>5, ChangeCeilingCounts
  <2>6. CASE AuditBudget(c) BY <2>6, AuditBudgetCounts
  <2>7. CASE ReadNamespaces(c)
    <3>1. PICK n : calls' = [calls EXCEPT ![c] =
           [kind |-> "purge", at |-> "purge", server |-> calls[c].server, actor |-> @.actor,
            scope |-> <<@.subject, n>>, cascade |-> CascadeFor(calls[c].server),
            superseded |-> Installing(calls[c].server) # {}]]
      BY <2>7 DEF ReadNamespaces
    <3>2. PICK next : next =
           [kind |-> "purge", at |-> "purge", server |-> calls[c].server,
            actor |-> calls[c].actor, scope |-> <<calls[c].subject, n>>,
            cascade |-> CascadeFor(calls[c].server),
            superseded |-> Installing(calls[c].server) # {}]
      OBVIOUS
    <3>3. /\ calls' = [calls EXCEPT ![c] = next] /\ next.at # "record"
          /\ calls[c].at # "record" /\ UNCHANGED <<aggregates, changes, lost, brought>>
      BY <2>7, <3>1, <3>2 DEF ReadNamespaces, histories, vars, tables
    <3>4. \A e : Owing(calls', e) = Owing(calls, e) BY <3>3, WaitingStays
    <3> QED BY <3>3, <3>4, NothingCounts
  <2>8. CASE Purge(c) BY <2>8, PurgeKeepsCounts
  <2>9. CASE Cut(c) BY <2>9, CutCounts
  <2>10. CASE BringIn(c) BY <2>10, BringInCounts
  <2>11. CASE AuditImport(c) BY <2>11, AuditImportCounts
  <2>12. CASE Export(c) \/ AuditExport(c) BY <2>12, ExportKeepsCounts
  <2> QED BY <1>5, <2>1, <2>2, <2>3, <2>4, <2>5, <2>6, <2>7, <2>8, <2>9, <2>10, <2>11, <2>12
      DEF Call
<1> QED BY <1>2, <1>3, <1>4, <1>5 DEF ServiceNext

(* No change of a ceiling and no import goes uncounted, but for the calls  *)
(* that are still to write its row or were given up before they could      *)
(* (budget.rs, portability.rs).                                            *)
THEOREM ChangesAreCountedAlways == ServiceSpec => []ChangesAreCounted
<1>1. ServiceInit => CountsInv BY InitCountsInv
<1>2. ServiceInv /\ CountsInv /\ [ServiceNext]_serviceVars => CountsInv'
  BY ServiceNextKeepsCounts
<1>3. CountsInv => ChangesAreCounted BY DEF CountsInv, ChangesAreCounted, Owing, Unaudited
<1> QED BY <1>1, <1>2, <1>3, ServiceInvariant, PTL DEF ServiceSpec
=============================================================================
