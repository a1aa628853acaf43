---------------------------- MODULE EngineProofs ----------------------------
(***************************************************************************)
(* Theorems about module Engine: whatever the calls, however they          *)
(* interleave and wherever they stop, a call only ever hands the backend   *)
(* transactions the backend does not refuse as malformed, and so the       *)
(* guarantees of module Store hold of the engine's tables too.             *)
(***************************************************************************)
EXTENDS Engine, StoreProofs

-----------------------------------------------------------------------------
(* The inductive invariant.                                                *)

Stages == {"idle", "neighbours", "capacity", "candidates", "target", "apply", "replay",
           "match", "work", "list", "decide", "retrieve", "record", "budget", "purge",
           "import", "export"}

(* What a call may remember.                                               *)
Grants == [id : ItemIds, prot : 0..Never]

Merges == SUBSET (ItemRow \X ItemRow)

Locals ==
  [embedded : BOOLEAN, verdict : {"Novel", "NearDuplicate", "Mergeable"}, into : SUBSET ItemIds, capacity : CapacityRow,
   seen : SUBSET ItemRow, replayed : SUBSET Outcome, txn : SUBSET WriteTransaction,
   merges : Merges, grants : SUBSET Grants,
   rows : SUBSET ItemRow, last : SUBSET WriteTransaction]

(* A transaction the backend accepts of a call in scope s, and whose row   *)
(* has an id that is known; one with an id that was handed out.            *)
SoundFor(t, s, known) ==
  /\ t \in SoundTransactions
  /\ IsValid(t)
  /\ t.scope = s
  /\ Ids(t.upsert) \subseteq known

(* Only a remember has a key, and what it writes is filed as an admission  *)
(* or a merge under that key.                                              *)
KeyOK(t, q) ==
  /\ t.key # {} => q.op = "remember" /\ t.key = q.key
  /\ q.op = "remember" /\ (t.upsert # {} \/ t.merge # {}) =>
       t.key = q.key /\ t.event \in {"Admitted", "Merged"}

Sound(t, q) == SoundFor(t, q.scope, allocated) /\ KeyOK(t, q)

(* Rows a call listed: of its scope, and with ids that were handed out.    *)
Listed(rows, s) == \A r \in rows : r.scope = s /\ r.id \in allocated

(* Which call a stage belongs to.                                          *)
OwnStage(p, op) ==
  /\ p \in {"neighbours", "candidates", "target"} => op = "remember"
  /\ p = "capacity" => op \in {"remember", "maintain"}
  /\ p = "list" => op \in {"maintain", "reembed"}
  /\ p = "decide" => op = "maintain"
  /\ p = "work" => op \in {"protect", "maintain", "reembed"}
  /\ p = "match" => op = "forget"
  /\ p = "budget" => op = "budget"
  /\ p = "purge" => op = "purge"
  /\ p \in {"import", "export"} => op \in {"import", "export"}

CallOK(p, q, m) ==
  /\ p \in Stages
  /\ m \in Locals
  /\ q \in Requests \cup {NoRequest}
  /\ p # "idle" => q \in Requests /\ OwnStage(p, q.op)
  /\ \A t \in m.txn \cup m.last : Sound(t, q)
  /\ Listed(m.seen, q.scope) /\ Listed(m.rows, q.scope)

CallsOK ==
  /\ pc \in [Callers -> Stages]
  /\ req \in [Callers -> Requests \cup {NoRequest}]
  /\ mem \in [Callers -> Locals]
  /\ \A c \in Callers : CallOK(pc[c], req[c], mem[c])

EIInv ==
  /\ IInv
  /\ now \in 0..MaxNow
  /\ Ids(items) \subseteq allocated
  /\ CallsOK

-----------------------------------------------------------------------------
(* The transactions the engine builds.                                     *)

LEMMA NeverIs == MaxNow \in Nat /\ Never = MaxNow + 2 /\ Never \in Nat
BY EngineAssumption DEF Never

LEMMA EventsAre ==
  \A e \in {"Admitted", "Rejected", "Merged", "Forgotten", "Exported", "Imported",
            "Reembedded", "PolicyChanged", "MaintenanceRun"} : e \in Events
BY DEF Events

(* Every one of them is of this shape.                                     *)
Shape(s, e, refs, E, U, M, k, b) ==
  [scope |-> s, upsert |-> U, merge |-> M, evictions |-> E, auditScope |-> s,
   event |-> e, refs |-> refs, auditMeta |-> AnyMeta, key |-> k, digest |-> b]

LEMMA ShapeIsSound ==
  ASSUME NEW known, NEW s \in Scopes, NEW e \in Events, NEW refs \in SUBSET ItemIds,
         NEW E \in SUBSET ItemIds, NEW U \in AtMostOne(ItemWrite),
         NEW M \in AtMostOne(MergeWrite), NEW k \in AtMostOne(Keys), NEW b \in Bodies,
         U = {} \/ M = {},
         \A w \in U : w.scope = s /\ Paired(w) /\ w.id \in known,
         \A m \in M : m.pending = ~m.embedded
  PROVE  SoundFor(Shape(s, e, refs, E, U, M, k, b), s, known)
<1> DEFINE t == Shape(s, e, refs, E, U, M, k, b)
<1>1. AnyMeta \in AuditMetas
  BY StoreAssumption DEF AnyMeta
<1>2. t \in WriteTransaction
  BY <1>1 DEF Shape, WriteTransaction
<1>3. t \in SoundTransactions
  BY <1>2 DEF SoundTransactions, Shape
<1>4. IsValid(t)
  BY DEF IsValid, Shape
<1>5. Ids(t.upsert) \subseteq known
  BY DEF Ids, Shape
<1> QED
  BY <1>3, <1>4, <1>5 DEF SoundFor, Shape

AnyBody == CHOOSE b \in Bodies : TRUE

LEMMA AnyBodyIs == AnyBody \in Bodies
BY EngineAssumption DEF AnyBody

LEMMA NoneIsAtMostOne ==
  ASSUME NEW S
  PROVE  {} \in AtMostOne(S) /\ \A x \in S : {x} \in AtMostOne(S)
BY DEF AtMostOne

LEMMA TxnIs ==
  ASSUME NEW s, NEW e, NEW refs
  PROVE  Txn(s, e, refs) = Shape(s, e, refs, {}, {}, {}, {}, AnyBody)
BY DEF Txn, Shape, AnyBody

(* One field at a time.                                                    *)
Evicting(t, x) == [t EXCEPT !.evictions = x]
Upserting(t, x) == [t EXCEPT !.upsert = x]
Merging(t, x) == [t EXCEPT !.merge = x]
WithKey(t, x) == [t EXCEPT !.key = x]
Digesting(t, x) == [t EXCEPT !.digest = x]

LEMMA ShapeWith ==
  ASSUME NEW s, NEW e, NEW refs, NEW E, NEW U, NEW M, NEW k, NEW b, NEW x,
         NEW t, t = Shape(s, e, refs, E, U, M, k, b)
  PROVE  /\ Evicting(t, x) = Shape(s, e, refs, x, U, M, k, b)
         /\ Upserting(t, x) = Shape(s, e, refs, E, x, M, k, b)
         /\ Merging(t, x) = Shape(s, e, refs, E, U, x, k, b)
         /\ WithKey(t, x) = Shape(s, e, refs, E, U, M, x, b)
         /\ Digesting(t, x) = Shape(s, e, refs, E, U, M, k, x)
<1>1. Evicting(t, x) = Shape(s, e, refs, x, U, M, k, b)
  BY DEF Shape, Evicting
<1>2. Upserting(t, x) = Shape(s, e, refs, E, x, M, k, b)
  BY DEF Shape, Upserting
<1>3. Merging(t, x) = Shape(s, e, refs, E, U, x, k, b)
  BY DEF Shape, Merging
<1>4. WithKey(t, x) = Shape(s, e, refs, E, U, M, x, b)
  BY DEF Shape, WithKey
<1>5. Digesting(t, x) = Shape(s, e, refs, E, U, M, k, x)
  BY DEF Shape, Digesting
<1> QED
  BY <1>1, <1>2, <1>3, <1>4, <1>5

LEMMA KeyedIs ==
  ASSUME NEW s, NEW e, NEW refs, NEW E, NEW U, NEW M, NEW r,
         NEW t, t = Shape(s, e, refs, E, U, M, {}, AnyBody)
  PROVE  Keyed(t, r) = Shape(s, e, refs, E, U, M, r.key, r.body)
<1>1. Keyed(t, r) = Digesting(WithKey(t, r.key), r.body)
  BY Zenon DEF Keyed, Digesting, WithKey
<1> QED
  BY <1>1, ShapeWith

(* A transaction that only files its audit row, or also removes items.     *)
LEMMA PlainIsSound ==
  ASSUME NEW known, NEW s \in Scopes, NEW e \in Events, NEW refs \in SUBSET ItemIds,
         NEW E \in SUBSET ItemIds
  PROVE  /\ SoundFor(Txn(s, e, refs), s, known)
         /\ SoundFor([Txn(s, e, refs) EXCEPT !.evictions = E], s, known)
         /\ \A q : /\ KeyOK(Txn(s, e, refs), q)
                  /\ KeyOK([Txn(s, e, refs) EXCEPT !.evictions = E], q)
<1>1. Txn(s, e, refs) = Shape(s, e, refs, {}, {}, {}, {}, AnyBody)
  BY TxnIs
<1>2. [Txn(s, e, refs) EXCEPT !.evictions = E] = Evicting(Txn(s, e, refs), E)
  BY DEF Evicting
<1>3. Evicting(Txn(s, e, refs), E) = Shape(s, e, refs, E, {}, {}, {}, AnyBody)
  BY <1>1, ShapeWith
<1>4. \A q : /\ KeyOK(Shape(s, e, refs, {}, {}, {}, {}, AnyBody), q)
             /\ KeyOK(Shape(s, e, refs, E, {}, {}, {}, AnyBody), q)
  BY DEF KeyOK, Shape
<1>5. /\ SoundFor(Shape(s, e, refs, {}, {}, {}, {}, AnyBody), s, known)
      /\ SoundFor(Shape(s, e, refs, E, {}, {}, {}, AnyBody), s, known)
  BY ShapeIsSound, AnyBodyIs, NoneIsAtMostOne
<1> QED
  BY <1>1, <1>2, <1>3, <1>4, <1>5

LEMMA RejectionIsSound ==
  ASSUME NEW known, NEW r \in Requests, r.op = "remember"
  PROVE  /\ SoundFor(Keyed(Txn(r.scope, "Rejected", {}), r), r.scope, known)
         /\ KeyOK(Keyed(Txn(r.scope, "Rejected", {}), r), r)
<1>1. Asked(r)
  BY EngineAssumption
<1>2. Keyed(Txn(r.scope, "Rejected", {}), r) =
        Shape(r.scope, "Rejected", {}, {}, {}, {}, r.key, r.body)
  BY TxnIs, KeyedIs
<1>3. KeyOK(Keyed(Txn(r.scope, "Rejected", {}), r), r)
  BY <1>2 DEF KeyOK, Shape
<1> QED
  BY <1>1, <1>2, <1>3, ShapeIsSound, NoneIsAtMostOne, EventsAre DEF Asked

LEMMA ReplacementIsSound ==
  ASSUME NEW known, NEW r \in ItemRow, r.id \in known, NEW e \in {"Admitted", "Reembedded"},
         NEW embedded \in BOOLEAN
  PROVE  /\ SoundFor(Replacement(r, e, embedded), r.scope, known)
         /\ \A q : q.op # "remember" => KeyOK(Replacement(r, e, embedded), q)
<1> DEFINE w == [id |-> r.id, scope |-> r.scope, body |-> r.body, tags |-> r.tags,
                 meta |-> r.meta, pending |-> ~embedded, embedded |-> embedded]
<1>1. w \in ItemWrite /\ Paired(w)
  BY DEF ItemWrite, ItemRow, Paired
<1>2. Replacement(r, e, embedded) =
        Shape(r.scope, e, {r.id}, {r.id}, {w}, {}, {}, AnyBody)
  <2>1. Replacement(r, e, embedded) =
          Upserting(Evicting(Txn(r.scope, e, {r.id}), {r.id}), {w})
    BY Zenon DEF Replacement, Upserting, Evicting
  <2> QED
    BY <2>1, TxnIs, ShapeWith
<1> HIDE DEF w
<1>3. w.scope = r.scope /\ w.id = r.id
  BY DEF w
<1>4. \A q : q.op # "remember" => KeyOK(Replacement(r, e, embedded), q)
  BY <1>2 DEF KeyOK, Shape
<1>5. SoundFor(Shape(r.scope, e, {r.id}, {r.id}, {w}, {}, {}, AnyBody), r.scope, known)
  BY <1>1, <1>3, ShapeIsSound, NoneIsAtMostOne, EventsAre, AnyBodyIs DEF ItemRow
<1> QED
  BY <1>2, <1>4, <1>5

LEMMA RetainIsSound ==
  ASSUME NEW known, NEW r \in Requests, r.op = "remember", NEW id \in ItemIds, id \in known,
         NEW embedded \in BOOLEAN, NEW prot \in 0..Never, NEW E, E \subseteq ItemRow
  PROVE  /\ SoundFor(RetainTxn(r, id, embedded, prot, E), r.scope, known)
         /\ KeyOK(RetainTxn(r, id, embedded, prot, E), r)
<1> DEFINE m == [prot |-> prot, sens |-> r.sens, expires |-> r.expires]
           w == [id |-> id, scope |-> r.scope, body |-> r.body, tags |-> {},
                 meta |-> m, pending |-> ~embedded, embedded |-> embedded]
<1>1. Asked(r)
  BY EngineAssumption
<1>2. m \in Metas
  BY <1>1, EngineAssumption DEF Asked, Meta
<1>3. w \in ItemWrite /\ Paired(w)
  BY <1>1, <1>2 DEF ItemWrite, Paired, Asked
<1>4. RetainTxn(r, id, embedded, prot, E) =
        Shape(r.scope, "Admitted", {id}, Ids(E), {w}, {}, r.key, r.body)
  <2> DEFINE t == Upserting(Evicting(Txn(r.scope, "Admitted", {id}), Ids(E)), {w})
  <2>1. RetainTxn(r, id, embedded, prot, E) = Keyed(t, r)
    BY Zenon DEF RetainTxn, Upserting, Evicting
  <2>2. t = Shape(r.scope, "Admitted", {id}, Ids(E), {w}, {}, {}, AnyBody)
    BY TxnIs, ShapeWith
  <2> QED
    BY <2>1, <2>2, KeyedIs
<1>5. Ids(E) \in SUBSET ItemIds
  BY DEF Ids, ItemRow
<1>6. w.scope = r.scope /\ w.id = id
  OBVIOUS
<1> HIDE DEF w
<1>7. KeyOK(RetainTxn(r, id, embedded, prot, E), r)
  BY <1>4 DEF KeyOK, Shape
<1> QED
  BY <1>1, <1>3, <1>4, <1>5, <1>6, <1>7, ShapeIsSound, NoneIsAtMostOne, EventsAre DEF Asked

LEMMA AdmissionMergeIsSound ==
  ASSUME NEW known, NEW r \in Requests, r.op = "remember", NEW id \in ItemIds, NEW embedded \in BOOLEAN
  PROVE  /\ SoundFor(AdmissionMergeTxn(r, id, embedded), r.scope, known)
         /\ KeyOK(AdmissionMergeTxn(r, id, embedded), r)
<1> DEFINE m == [target |-> id, body |-> r.body, tags |-> {}, pending |-> ~embedded,
                 embedded |-> embedded]
<1>1. Asked(r)
  BY EngineAssumption
<1>2. m \in MergeWrite /\ m.pending = ~m.embedded
  BY <1>1 DEF MergeWrite, Asked
<1>3. AdmissionMergeTxn(r, id, embedded) =
        Shape(r.scope, "Merged", {}, {}, {}, {m}, r.key, r.body)
  <2> DEFINE t == Merging(Txn(r.scope, "Merged", {}), {m})
  <2>1. AdmissionMergeTxn(r, id, embedded) = Keyed(t, r)
    BY Zenon DEF AdmissionMergeTxn, Merging
  <2>2. t = Shape(r.scope, "Merged", {}, {}, {}, {m}, {}, AnyBody)
    BY TxnIs, ShapeWith
  <2> QED
    BY <2>1, <2>2, KeyedIs
<1> HIDE DEF m
<1>4. KeyOK(AdmissionMergeTxn(r, id, embedded), r)
  BY <1>3 DEF KeyOK, Shape
<1> QED
  BY <1>1, <1>2, <1>3, <1>4, ShapeIsSound, NoneIsAtMostOne, EventsAre DEF Asked

LEMMA FoldIsSound ==
  ASSUME NEW known, NEW s \in Scopes, NEW target \in ItemRow, NEW absorbed \in ItemRow,
         NEW e \in BOOLEAN,
         NEW t, t = [Txn(s, "Merged", {absorbed.id, target.id}) EXCEPT
                       !.evictions = {absorbed.id},
                       !.merge = {[target |-> target.id, body |-> Folded(target, absorbed),
                                   tags |-> absorbed.tags, pending |-> ~e, embedded |-> e]}]
  PROVE  /\ SoundFor(t, s, known)
         /\ \A q : q.op # "remember" => KeyOK(t, q)
<1> DEFINE m == [target |-> target.id, body |-> Folded(target, absorbed),
                 tags |-> absorbed.tags, pending |-> ~e, embedded |-> e]
           refs == {absorbed.id, target.id}
           u == Shape(s, "Merged", refs, {absorbed.id}, {}, {m}, {}, AnyBody)
<1>1. Folded(target, absorbed) \in Bodies
  BY EngineAssumption DEF Folded, ItemRow
<1>2. m \in MergeWrite /\ m.pending = ~m.embedded
  BY <1>1 DEF MergeWrite, ItemRow
<1>3. refs \in SUBSET ItemIds /\ {absorbed.id} \in SUBSET ItemIds
  BY DEF ItemRow
<1>4. t = Merging(Evicting(Txn(s, "Merged", refs), {absorbed.id}), {m})
  BY Zenon DEF Merging, Evicting
<1> HIDE DEF m, refs
<1>5. t = u
  BY <1>4, TxnIs, ShapeWith
<1>6. SoundFor(u, s, known)
  BY <1>2, <1>3, ShapeIsSound, NoneIsAtMostOne, EventsAre, AnyBodyIs
<1>7. \A q : q.op # "remember" => KeyOK(u, q)
  BY DEF KeyOK, Shape
<1> QED
  BY <1>5, <1>6, <1>7

-----------------------------------------------------------------------------
(* Moves of a call.                                                        *)

LEMMA SoundGrows ==
  ASSUME allocated \subseteq allocated'
  PROVE  /\ \A t, q : Sound(t, q) => Sound(t, q)'
         /\ \A rows, s : Listed(rows, s) => Listed(rows, s)'
BY DEF Sound, SoundFor, KeyOK, Listed

LEMMA OthersStay ==
  ASSUME NEW p, NEW q, NEW m, CallOK(p, q, m), allocated \subseteq allocated'
  PROVE  CallOK(p, q, m)'
<1>1. \A t \in m.txn \cup m.last : Sound(t, q)'
  BY SoundGrows DEF CallOK
<1>2. Listed(m.seen, q.scope)' /\ Listed(m.rows, q.scope)'
  BY SoundGrows DEF CallOK
<1> QED
  BY <1>1, <1>2 DEF CallOK

Moves(c, p, q, m) ==
  /\ pc' = [pc EXCEPT ![c] = p]
  /\ req' = [req EXCEPT ![c] = q]
  /\ mem' = [mem EXCEPT ![c] = m]

LEMMA MoveKeeps ==
  ASSUME EIInv, NEW c \in Callers, NEW p, NEW q, NEW m, Moves(c, p, q, m),
         IInv', now' \in 0..MaxNow, Ids(items') \subseteq allocated',
         allocated \subseteq allocated', CallOK(p, q, m)'
  PROVE  EIInv'
<1>1. p \in Stages /\ q \in Requests \cup {NoRequest} /\ m \in Locals
  BY DEF CallOK
<1>2. /\ pc' \in [Callers -> Stages]
      /\ req' \in [Callers -> Requests \cup {NoRequest}]
      /\ mem' \in [Callers -> Locals]
  BY <1>1 DEF EIInv, CallsOK, Moves
<1>3. ASSUME NEW d \in Callers
      PROVE  CallOK(pc[d], req[d], mem[d])'
  <2>1. CASE d = c
    <3>1. pc'[d] = p /\ req'[d] = q /\ mem'[d] = m
      BY <2>1 DEF EIInv, CallsOK, Moves
    <3> QED
      BY <3>1 DEF CallOK, Sound, SoundFor, KeyOK, Listed
  <2>2. CASE d # c
    <3>1. pc'[d] = pc[d] /\ req'[d] = req[d] /\ mem'[d] = mem[d]
      BY <2>2 DEF EIInv, CallsOK, Moves
    <3> DEFINE P == pc[d]
               Q == req[d]
               M == mem[d]
    <3>2. PICK pd, qd, md : pd = P /\ qd = Q /\ md = M
      OBVIOUS
    <3>3. CallOK(pd, qd, md)
      BY <3>2 DEF EIInv, CallsOK
    <3>4. CallOK(pd, qd, md)'
      BY <3>3, OthersStay
    <3> QED
      BY <3>1, <3>2, <3>4 DEF CallOK, Sound, SoundFor, KeyOK, Listed
  <2> QED
    BY <2>1, <2>2
<1> QED
  BY <1>2, <1>3 DEF EIInv, CallsOK

(* A step that only reads the tables.                                      *)
LEMMA ReadingKeeps ==
  ASSUME EIInv, Reading, NEW c \in Callers, NEW p, NEW q, NEW m, Moves(c, p, q, m),
         CallOK(p, q, m)
  PROVE  EIInv'
<1>1. UNCHANGED vars /\ now' = now /\ allocated' = allocated /\ items' = items
  BY DEF Reading, vars, tables
<1>2. IInv'
  BY <1>1, StutterKeeps DEF EIInv
<1>3. CallOK(p, q, m)'
  BY <1>1, OthersStay
<1> QED
  BY <1>1, <1>2, <1>3, MoveKeeps DEF EIInv

LEMMA BlankIs == CallOK("idle", NoRequest, Blank)
<1>1. NoCapacity \in CapacityRow
  BY StoreAssumption DEF NoCapacity, CapacityRow
<1>2. Blank \in Locals
  BY <1>1 DEF Blank, Locals, Merges
<1> QED
  BY <1>2 DEF CallOK, Blank, Listed, Stages

LEMMA ReturnMoves ==
  ASSUME NEW c, Return(c)
  PROVE  Moves(c, "idle", NoRequest, Blank)
BY DEF Return, Goto, Keep, Moves

LEMMA ReturnKeeps ==
  ASSUME EIInv, NEW c \in Callers, Return(c),
         IInv', now' \in 0..MaxNow, Ids(items') \subseteq allocated',
         allocated \subseteq allocated'
  PROVE  EIInv'
<1>1. CallOK("idle", NoRequest, Blank)'
  BY BlankIs, OthersStay
<1> QED
  BY <1>1, ReturnMoves, MoveKeeps

(* What is known of a call under way.                                      *)
LEMMA Calling ==
  ASSUME EIInv, NEW c \in Callers, ~At(c, "idle")
  PROVE  /\ CallOK(pc[c], req[c], mem[c])
         /\ req[c] \in Requests /\ Asked(req[c]) /\ req[c].scope \in Scopes
         /\ OwnStage(pc[c], req[c].op)
         /\ mem[c] \in Locals
<1>1. CallOK(pc[c], req[c], mem[c])
  BY DEF EIInv, CallsOK
<1>2. req[c] \in Requests /\ OwnStage(pc[c], req[c].op) /\ mem[c] \in Locals
  BY <1>1 DEF CallOK, At
<1> QED
  BY <1>1, <1>2, EngineAssumption DEF Asked

(* A step that goes on with the same call.                                 *)
LEMMA GoesOn ==
  ASSUME EIInv, NEW c \in Callers, NEW p, NEW m, Goto(c, p), Keep(c, m), UNCHANGED req
  PROVE  Moves(c, p, req[c], m)
BY DEF EIInv, CallsOK, Goto, Keep, Moves

LEMMA StaysPut ==
  ASSUME EIInv, NEW c \in Callers, NEW m, UNCHANGED pc, Keep(c, m), UNCHANGED req
  PROVE  Moves(c, pc[c], req[c], m)
BY DEF EIInv, CallsOK, Keep, Moves

-----------------------------------------------------------------------------
(* One operation of a call.                                                *)

(* The parts of a call's memory the invariant speaks of are as they were.  *)
Alike(m, n) ==
  /\ n \in Locals
  /\ n.txn = m.txn /\ n.last = m.last /\ n.seen = m.seen /\ n.rows = m.rows

LEMMA AlikeIsOK ==
  ASSUME NEW p, NEW q, NEW m, CallOK(p, q, m), q \in Requests,
         NEW p2 \in Stages, OwnStage(p2, q.op), NEW n, Alike(m, n)
  PROVE  CallOK(p2, q, n)
BY DEF CallOK, Alike

LEMMA NeighboursKeep ==
  ASSUME EIInv, NEW c \in Callers, ReadNeighbours(c)
  PROVE  EIInv'
<1> DEFINE q == req[c]
<1>1. At(c, "neighbours") /\ Goto(c, "capacity") /\ UNCHANGED req /\ Reading
  BY DEF ReadNeighbours
<1>2. /\ CallOK(pc[c], q, mem[c]) /\ q \in Requests /\ q.op = "remember"
      /\ mem[c] \in Locals
  BY <1>1, Calling DEF At, OwnStage
<1> PICK a : a = mem[c]
  OBVIOUS
<1>3. PICK n : Keep(c, n) /\ Alike(a, n)
  <2>1. PICK e \in Embeds :
          \/ Keep(c, [[a EXCEPT !.embedded = e] EXCEPT !.verdict = "NearDuplicate"])
          \/ Keep(c, [a EXCEPT !.embedded = e])
          \/ \E r \in items : Keep(c, [[a EXCEPT !.embedded = e] EXCEPT
                                        !.verdict = "Mergeable", !.into = {r.id}])
    BY Zenon DEF ReadNeighbours, InScope
  <2>2. e \in BOOLEAN
    BY EngineAssumption
  <2> PICK b : b = [a EXCEPT !.embedded = e]
    OBVIOUS
  <2>3. Alike(a, b)
    BY <1>2, <2>2 DEF Alike, Locals
  <2>4. Alike(a, [b EXCEPT !.verdict = "NearDuplicate"])
    BY <2>3 DEF Alike, Locals
  <2>5. ASSUME NEW r \in items
        PROVE  Alike(a, [b EXCEPT !.verdict = "Mergeable", !.into = {r.id}])
    <3>1. {r.id} \in SUBSET ItemIds
      BY DEF EIInv, IInv, TypeOK, ItemRow
    <3> QED
      BY <2>3, <3>1 DEF Alike, Locals
  <2> QED
    BY <2>1, <2>3, <2>4, <2>5
<1>4. CallOK("capacity", q, n)
  BY <1>2, <1>3, AlikeIsOK DEF OwnStage, Stages
<1> QED
  BY <1>1, <1>3, <1>4, GoesOn, ReadingKeeps

LEMMA CapacityKeeps ==
  ASSUME EIInv, NEW c \in Callers, ReadCapacity(c)
  PROVE  EIInv'
<1> DEFINE q == req[c]
           n == [mem[c] EXCEPT !.capacity = capacity[req[c].scope]]
           p == IF q.op = "maintain" THEN "decide" ELSE "candidates"
<1>1. At(c, "capacity") /\ Goto(c, p) /\ Keep(c, n) /\ UNCHANGED req /\ Reading
  BY DEF ReadCapacity
<1>2. /\ CallOK(pc[c], q, mem[c]) /\ q \in Requests /\ q.op \in {"remember", "maintain"}
      /\ mem[c] \in Locals /\ q.scope \in Scopes
  BY <1>1, Calling DEF At, OwnStage
<1>3. capacity[req[c].scope] \in CapacityRow
  BY <1>2 DEF EIInv, IInv, TypeOK
<1>4. Alike(mem[c], n)
  BY <1>2, <1>3 DEF Alike, Locals
<1> HIDE DEF n
<1>5. CallOK(p, q, n)
  BY <1>2, <1>4, AlikeIsOK DEF OwnStage, Stages
<1> QED
  BY <1>1, <1>5, GoesOn, ReadingKeeps

(* A call whose memory changes so that what it promised is still sound.    *)
LEMMA StaysOK ==
  ASSUME NEW p, NEW q, NEW m, CallOK(p, q, m), q \in Requests,
         NEW p2 \in Stages, OwnStage(p2, q.op), NEW n \in Locals,
         \A t \in n.txn \cup n.last : Sound(t, q),
         n.seen \subseteq m.seen, n.rows \subseteq m.rows
  PROVE  CallOK(p2, q, n)
BY DEF CallOK, Listed

LEMMA SoundIsTyped ==
  ASSUME NEW t, NEW s, NEW known, SoundFor(t, s, known)
  PROVE  t \in WriteTransaction
BY DEF SoundFor, SoundTransactions

(* A call that has a transaction to apply.                                 *)
LEMMA ReadyIsOK ==
  ASSUME NEW p, NEW q, NEW m, CallOK(p, q, m), q \in Requests,
         NEW p2 \in Stages, OwnStage(p2, q.op), NEW t, Sound(t, q),
         NEW n, n = [m EXCEPT !.txn = {t}]
  PROVE  CallOK(p2, q, n)
<1>1. m \in Locals
  BY DEF CallOK
<1>2. t \in WriteTransaction
  BY SoundIsTyped DEF Sound
<1>3. /\ n \in Locals /\ n.txn = {t} /\ n.last = m.last /\ n.seen = m.seen
      /\ n.rows = m.rows
  BY <1>1, <1>2 DEF Locals
<1>4. \A x \in n.txn \cup n.last : Sound(x, q)
  BY <1>3 DEF CallOK
<1> QED
  BY <1>3, <1>4, StaysOK

LEMMA AdmitKeeps ==
  ASSUME EIInv, NEW c \in Callers, Admit(c)
  PROVE  EIInv'
<1> PICK r, m : r = req[c] /\ m = mem[c]
  OBVIOUS
<1> DEFINE rejected == Keyed(Txn(r.scope, "Rejected", {}), r)
           Takes(t) == Keep(c, [m EXCEPT !.txn = {t}])
<1>1. At(c, "candidates") /\ UNCHANGED <<req, vars, now, begun, history>>
  BY DEF Admit
<1>2. CallOK(pc[c], r, m) /\ r \in Requests /\ r.op = "remember" /\ m \in Locals
  BY <1>1, Calling DEF At, OwnStage
<1>3. Sound(rejected, r)
  BY <1>2, RejectionIsSound DEF Sound
<1> HIDE DEF rejected
<1>4. ASSUME UNCHANGED allocated, NEW t, Sound(t, r), Takes(t),
             NEW p \in {"apply", "target"}, Goto(c, p)
      PROVE  EIInv'
  <2> PICK n : n = [m EXCEPT !.txn = {t}]
    OBVIOUS
  <2>1. CallOK(p, r, n)
    BY <1>2, <1>4, ReadyIsOK DEF Stages, OwnStage
  <2>2. Moves(c, p, r, n)
    BY <1>1, <1>4, GoesOn
  <2> QED
    BY <1>1, <1>4, <2>1, <2>2, ReadingKeeps DEF Reading
<1>5. CASE m.verdict = "NearDuplicate"
  <2>1. Takes(rejected) /\ Goto(c, "apply") /\ UNCHANGED allocated
    BY <1>5 DEF Admit, rejected
  <2> QED
    BY <1>3, <1>4, <2>1
<1>6. CASE m.verdict = "Mergeable"
  <2>1. PICK id \in m.into : Takes(AdmissionMergeTxn(r, id, m.embedded))
    BY <1>6 DEF Admit
  <2>2. Goto(c, "target") /\ UNCHANGED allocated
    BY <1>6 DEF Admit
  <2>3. id \in ItemIds /\ m.embedded \in BOOLEAN
    BY <1>2 DEF Locals
  <2>4. Sound(AdmissionMergeTxn(r, id, m.embedded), r)
    BY <1>2, <2>3, AdmissionMergeIsSound DEF Sound
  <2> QED
    BY <1>4, <2>1, <2>2, <2>4
<1>7. CASE m.verdict = "Novel"
  <2> DEFINE cands == Candidates(r.scope, m.capacity)
  <2>1. /\ Goto(c, "apply")
        /\ \E E \in Evictions(m.capacity, cands, 1, BodySize[r.body]),
               prot \in {0} \cup {now + 1 : x \in r.fragile} :
             \/ Takes(rejected) /\ UNCHANGED allocated
             \/ \E id \in FreshIds :
                  /\ Takes(RetainTxn(r, id, m.embedded, prot, E))
                  /\ allocated' = allocated \cup {id}
    BY <1>7 DEF Admit, rejected
  <2>2. CASE Takes(rejected) /\ UNCHANGED allocated
    BY <1>3, <1>4, <2>1, <2>2
  <2>3. ASSUME NEW E \in Evictions(m.capacity, cands, 1, BodySize[r.body]),
               NEW prot \in {0} \cup {now + 1 : x \in r.fragile}, NEW id \in FreshIds,
               Takes(RetainTxn(r, id, m.embedded, prot, E)),
               allocated' = allocated \cup {id}
        PROVE  EIInv'
    <3> PICK t : t = RetainTxn(r, id, m.embedded, prot, E)
      OBVIOUS
    <3> PICK n : n = [m EXCEPT !.txn = {t}]
      OBVIOUS
    <3>1. E \subseteq ItemRow
      BY DEF Evictions, Candidates, InScope, EIInv, IInv, TypeOK
    <3>2. prot \in 0..Never
      BY NeverIs DEF EIInv
    <3>3. id \in ItemIds /\ id \in allocated' /\ m.embedded \in BOOLEAN
      BY <1>2, <2>3 DEF FreshIds, Locals
    <3>4. SoundFor(t, r.scope, allocated') /\ KeyOK(t, r)
      BY <1>2, <3>1, <3>2, <3>3, RetainIsSound
    <3>5. CallOK(pc[c], r, m)
      BY <1>2
    <3>6. n \in Locals /\ n.txn = {t} /\ n.last = m.last /\ n.seen = m.seen /\ n.rows = m.rows
      BY <1>2, <3>4, SoundIsTyped DEF Locals
    <3>7. allocated \subseteq allocated'
      BY <2>3
    <3>8. \A x \in n.txn \cup n.last : Sound(x, r)'
      BY <3>4, <3>5, <3>6, <3>7 DEF CallOK, Sound, SoundFor, KeyOK
    <3>9. Listed(n.seen, r.scope)' /\ Listed(n.rows, r.scope)'
      BY <3>5, <3>6, <3>7 DEF CallOK, Listed
    <3>10. CallOK("apply", r, n)'
      BY <1>2, <3>6, <3>8, <3>9 DEF CallOK, Stages, OwnStage
    <3>11. Moves(c, "apply", r, n)
      BY <1>1, <2>1, <2>3, GoesOn
    <3>12. IInv' /\ now' \in 0..MaxNow /\ Ids(items') \subseteq allocated'
      BY <1>1, <3>7, StutterKeeps DEF EIInv, vars, tables
    <3> QED
      BY <3>7, <3>10, <3>11, <3>12, MoveKeeps
  <2> QED
    BY <2>1, <2>2, <2>3, ZenonT(40)
<1> QED
  BY <1>2, <1>5, <1>6, <1>7 DEF Locals

LEMMA TargetKeeps ==
  ASSUME EIInv, NEW c \in Callers, CheckTarget(c)
  PROVE  EIInv'
<1> PICK r, m : r = req[c] /\ m = mem[c]
  OBVIOUS
<1> DEFINE t == Txn(r.scope, "Rejected", {})
<1>1. At(c, "target") /\ Goto(c, "apply") /\ UNCHANGED req /\ Reading
  BY DEF CheckTarget
<1>2. /\ CallOK(pc[c], r, m) /\ r \in Requests /\ r.op = "remember" /\ m \in Locals
      /\ r.scope \in Scopes
  BY <1>1, Calling DEF At, OwnStage
<1>3. Keep(c, m) \/ Keep(c, [m EXCEPT !.txn = {t}])
  BY DEF CheckTarget, EIInv, CallsOK, Keep
<1>4. Sound(t, r)
  BY <1>2, PlainIsSound, EventsAre DEF Sound
<1> HIDE DEF t
<1>5. PICK n : Keep(c, n) /\ (n = m \/ n = [m EXCEPT !.txn = {t}])
  BY <1>3
<1>6. CallOK("apply", r, m)
  BY <1>2 DEF CallOK, Stages, OwnStage
<1>7. CallOK("apply", r, n)
  BY <1>2, <1>4, <1>5, <1>6, ReadyIsOK DEF Stages, OwnStage
<1> QED
  BY <1>1, <1>5, <1>7, GoesOn, ReadingKeeps

(* The rows a transaction leaves have ids that were there, or its own.     *)
LEMMA ApplyIds ==
  ASSUME NEW t, NEW id, Apply(t, id)
  PROVE  Ids(items') \subseteq Ids(items) \cup Ids(t.upsert)
<1>1. CASE ~Commits(t)
  BY <1>1 DEF Apply, tables
<1>2. CASE Commits(t)
  <2>1. items' = ((Kept(t) \ Targets(t)) \cup Inserted(t)) \cup Merged(t)
    BY <1>2 DEF Apply, ApplyCommit
  <2>2. \A r \in Kept(t) : r.id \in Ids(items)
    BY DEF Kept, Ids
  <2>3. \A r \in Inserted(t) : r.id \in Ids(t.upsert)
    BY DEF Inserted, Ids
  <2>4. ASSUME NEW r \in Merged(t) PROVE r.id \in Ids(items)
    <3>1. PICK q \in Targets(t), m \in t.merge : r = MergedRow(q, m)
      BY DEF Merged
    <3>2. q \in items
      BY DEF Targets, Kept, InScope
    <3>3. r.id = q.id
      BY <3>1 DEF MergedRow
    <3> QED
      BY <3>2, <3>3 DEF Ids
  <2> QED
    BY <2>1, <2>2, <2>3, <2>4 DEF Ids
<1> QED
  BY <1>1, <1>2

LEMMA TransactionKeeps ==
  ASSUME EIInv, NEW c \in Callers, DoTransaction(c)
  PROVE  EIInv'
<1> PICK r, m : r = req[c] /\ m = mem[c]
  OBVIOUS
<1>1. PICK t \in m.txn :
        /\ At(c, "apply") /\ Mint /\ Apply(t, minted + 1)
        /\ UNCHANGED <<now, begun, allocated>>
        /\ \/ AfterCommit(c)
           \/ /\ \E p \in Prior(t) : Keep(c, [m EXCEPT !.replayed = {p.outcome}])
              /\ Goto(c, "replay") /\ UNCHANGED req
           \/ Return(c)
  BY DEF DoTransaction
<1>2. CallOK(pc[c], r, m) /\ r \in Requests /\ m \in Locals
  BY <1>1, Calling DEF At
<1>3. Sound(t, r)
  BY <1>2 DEF CallOK
<1>4. IInv'
  BY <1>1, <1>3, ApplyKeeps DEF EIInv, Sound, SoundFor
<1>5. Ids(items') \subseteq allocated'
  BY <1>1, <1>3, ApplyIds DEF EIInv, Sound, SoundFor
<1>6. now' \in 0..MaxNow /\ allocated \subseteq allocated'
  BY <1>1 DEF EIInv
<1>7. CASE Return(c)
  BY <1>4, <1>5, <1>6, <1>7, ReturnKeeps
<1>8. ASSUME NEW n, NEW p \in {"work", "replay"}, Goto(c, p), Keep(c, n), UNCHANGED req,
             OwnStage(p, r.op), n \in Locals, n.txn \subseteq m.txn, n.last = m.last, n.seen = m.seen,
             n.rows = m.rows
      PROVE  EIInv'
  <2>1. CallOK(p, r, n)
    BY <1>2, <1>8 DEF CallOK, Listed, Stages
  <2>2. CallOK(p, r, n)'
    BY <1>6, <2>1, OthersStay
  <2>3. Moves(c, p, r, n)
    BY <1>8, GoesOn
  <2> QED
    BY <1>4, <1>5, <1>6, <2>2, <2>3, MoveKeeps
<1>9. CASE AfterCommit(c) /\ ~Return(c)
  <2> PICK n : n = [m EXCEPT !.txn = {}]
    OBVIOUS
  <2>1. /\ Goto(c, "work") /\ Keep(c, n) /\ UNCHANGED req
        /\ r.op \in {"protect", "maintain", "reembed"}
    BY <1>9 DEF AfterCommit
  <2>2. /\ n \in Locals /\ n.txn = {} /\ n.last = m.last /\ n.seen = m.seen
        /\ n.rows = m.rows
    BY <1>2 DEF Locals
  <2> QED
    BY <1>8, <2>1, <2>2 DEF OwnStage
<1>10. ASSUME NEW x \in Prior(t), Keep(c, [m EXCEPT !.replayed = {x.outcome}]),
              Goto(c, "replay"), UNCHANGED req
       PROVE  EIInv'
  <2> PICK n : n = [m EXCEPT !.replayed = {x.outcome}]
    OBVIOUS
  <2>1. x.outcome \in Outcome
    BY DEF Prior, EIInv, IInv, TypeOK, IdempotencyRow
  <2>2. /\ n \in Locals /\ n.txn = m.txn /\ n.last = m.last /\ n.seen = m.seen
        /\ n.rows = m.rows
    BY <1>2, <2>1 DEF Locals
  <2> QED
    BY <1>8, <1>10, <2>2 DEF OwnStage
<1> QED
  BY <1>1, <1>7, <1>9, <1>10

LEMMA ReplayKeeps ==
  ASSUME EIInv, NEW c \in Callers, ReplayOutcome(c)
  PROVE  EIInv'
<1>1. Return(c) /\ UNCHANGED <<vars, now, allocated>>
  BY DEF ReplayOutcome
<1> QED
  BY <1>1, ReturnKeeps, StutterKeeps DEF EIInv, vars, tables

(* A call that reads, and then returns.                                    *)
LEMMA ReadingReturnKeeps ==
  ASSUME EIInv, NEW c \in Callers, Return(c), Reading
  PROVE  EIInv'
BY ReadingKeeps, ReturnMoves, BlankIs

(* A call that reads, and then has a transaction to apply.                 *)
LEMMA ReadyKeeps ==
  ASSUME EIInv, NEW c \in Callers, ~At(c, "idle"), Reading, NEW m, NEW n, NEW t,
         CallOK(pc[c], req[c], m), Sound(t, req[c]), n = [m EXCEPT !.txn = {t}],
         Keep(c, n), Goto(c, "apply"), UNCHANGED req
  PROVE  EIInv'
<1>1. req[c] \in Requests
  BY Calling
<1>2. CallOK("apply", req[c], n)
  BY <1>1, ReadyIsOK DEF Stages, OwnStage
<1> QED
  BY <1>2, GoesOn, ReadingKeeps

LEMMA RowsOfScope ==
  ASSUME EIInv, NEW s, NEW r \in InScope(items, s)
  PROVE  r \in ItemRow /\ r.scope = s /\ r.id \in ItemIds /\ r.id \in allocated
BY DEF EIInv, IInv, TypeOK, InScope, Ids, ItemRow

LEMMA MatchKeeps ==
  ASSUME EIInv, NEW c \in Callers, Match(c)
  PROVE  EIInv'
<1> PICK s, m : s = req[c].scope /\ m = mem[c]
  OBVIOUS
<1> PICK matched : matched = Ids({r \in InScope(items, s) : r.id \in req[c].ids})
  OBVIOUS
<1> PICK t : t = [Txn(s, "Forgotten", matched) EXCEPT !.evictions = matched]
  OBVIOUS
<1>1. /\ At(c, "match") /\ Goto(c, "apply") /\ UNCHANGED req /\ Reading
      /\ Keep(c, [m EXCEPT !.txn = {t}])
  BY DEF Match
<1>2. CallOK(pc[c], req[c], m) /\ s \in Scopes /\ ~At(c, "idle")
  BY <1>1, Calling DEF At
<1>3. matched \in SUBSET ItemIds
  BY RowsOfScope DEF Ids
<1>4. Sound(t, req[c])
  BY <1>2, <1>3, PlainIsSound, EventsAre DEF Sound
<1> QED
  BY <1>1, <1>2, <1>4, ReadyKeeps

LEMMA GrantKeeps ==
  ASSUME EIInv, NEW c \in Callers, Grant(c)
  PROVE  EIInv'
<1> PICK s, m : s = req[c].scope /\ m = mem[c]
  OBVIOUS
<1>1. At(c, "work") /\ Reading
  BY DEF Grant
<1>2. /\ CallOK(pc[c], req[c], m) /\ m \in Locals 
      /\ ~At(c, "idle") /\ req[c] \in Requests
      /\ req[c].op # "remember"
  BY <1>1, Calling DEF At, OwnStage
<1>3. CASE Return(c)
  BY <1>1, <1>3, ReadingReturnKeeps
<1>4. CASE ~Return(c)
  <2>1. PICK g \in m.grants, r \in InScope(items, s), e \in Embeds :
          /\ Keep(c, [m EXCEPT !.grants = @ \ {g},
                       !.txn = {Replacement([r EXCEPT !.meta.prot = g.prot], "Admitted", e)}])
          /\ Goto(c, "apply") /\ UNCHANGED req
    BY <1>4 DEF Grant
  <2> PICK q, n : q = [r EXCEPT !.meta.prot = g.prot] /\ n = [m EXCEPT !.grants = @ \ {g}]
    OBVIOUS
  <2> PICK t : t = Replacement(q, "Admitted", e)
    OBVIOUS
  <2>2. Keep(c, [n EXCEPT !.txn = {t}])
    BY <2>1, Zenon
  <2>3. r \in ItemRow /\ r.scope = s /\ r.id \in allocated
    BY RowsOfScope
  <2>4. g.prot \in 0..Never
    BY <1>2 DEF Locals, Grants
  <2>5. q \in ItemRow /\ q.scope = s /\ q.id \in allocated
    BY <2>3, <2>4, EngineAssumption DEF ItemRow, Meta
  <2>6. e \in BOOLEAN
    BY EngineAssumption
  <2>7. Sound(t, req[c])
    BY <1>2, <2>5, <2>6, ReplacementIsSound DEF Sound
  <2>8. Alike(m, n)
    BY <1>2 DEF Alike, Locals
  <2>9. CallOK(pc[c], req[c], n)
    BY <1>2, <2>8 DEF CallOK, Alike
  <2> QED
    BY <1>1, <1>2, <2>1, <2>2, <2>7, <2>9, ReadyKeeps
<1> QED
  BY <1>3, <1>4

LEMMA ListKeeps ==
  ASSUME EIInv, NEW c \in Callers, List(c)
  PROVE  EIInv'
<1> PICK q, m, all : q = req[c] /\ m = mem[c] /\ all = InScope(items, q.scope)
  OBVIOUS
<1>1. At(c, "list") /\ Reading
  BY DEF List
<1>2. /\ CallOK(pc[c], q, m) /\ m \in Locals /\ q \in Requests
      /\ q.op \in {"maintain", "reembed"}
  BY <1>1, Calling DEF At, OwnStage
<1>3. all \in SUBSET ItemRow /\ Listed(all, q.scope)
  BY RowsOfScope DEF Listed
<1>4. CASE Return(c)
  BY <1>1, <1>4, ReadingReturnKeeps
<1>5. CASE ~Return(c) /\ q.op = "maintain"
  <2> PICK n : n = [m EXCEPT !.seen = all]
    OBVIOUS
  <2>1. Keep(c, n) /\ Goto(c, "capacity") /\ UNCHANGED req
    BY <1>5 DEF List
  <2>2. n \in Locals /\ n.txn = m.txn /\ n.last = m.last /\ n.seen = all /\ n.rows = m.rows
    BY <1>2, <1>3 DEF Locals
  <2>3. CallOK("capacity", q, n)
    BY <1>2, <1>3, <1>5, <2>2 DEF CallOK, Stages, OwnStage
  <2> QED
    BY <1>1, <2>1, <2>3, GoesOn, ReadingKeeps
<1>6. CASE ~Return(c) /\ q.op # "maintain"
  <2> PICK some : some = {r \in all : q.pendingOnly => r.pending}
    OBVIOUS
  <2> PICK n : n = [m EXCEPT !.rows = some]
    OBVIOUS
  <2>1. Keep(c, n) /\ Goto(c, "work") /\ UNCHANGED req
    BY <1>6 DEF List
  <2>2. some \in SUBSET ItemRow /\ Listed(some, q.scope)
    BY <1>3 DEF Listed
  <2>3. n \in Locals /\ n.txn = m.txn /\ n.last = m.last /\ n.seen = m.seen /\ n.rows = some
    BY <1>2, <2>2 DEF Locals
  <2>4. CallOK("work", q, n)
    BY <1>2, <2>2, <2>3 DEF CallOK, Stages, OwnStage
  <2> QED
    BY <1>1, <2>1, <2>4, GoesOn, ReadingKeeps
<1> QED
  BY <1>2, <1>4, <1>5, <1>6

LEMMA EmbedKeeps ==
  ASSUME EIInv, NEW c \in Callers, Embed(c)
  PROVE  EIInv'
<1> PICK q, m : q = req[c] /\ m = mem[c]
  OBVIOUS
<1>1. PICK r \in m.rows, e \in Embeds :
        /\ At(c, "work") /\ Reading /\ UNCHANGED req
        /\ LET n == [m EXCEPT !.rows = @ \ {r}] IN
           \/ Keep(c, [n EXCEPT !.txn = {Replacement(r, "Reembedded", TRUE)}]) /\ Goto(c, "apply")
           \/ Keep(c, n) /\ UNCHANGED pc
  BY DEF Embed
<1>2. /\ CallOK(pc[c], q, m) /\ m \in Locals /\ q \in Requests /\ ~At(c, "idle")
      /\ q.op # "remember"
  BY <1>1, Calling DEF At, OwnStage
<1> PICK n, t : n = [m EXCEPT !.rows = @ \ {r}] /\ t = Replacement(r, "Reembedded", TRUE)
  OBVIOUS
<1>3. /\ n \in Locals /\ n.txn = m.txn /\ n.last = m.last /\ n.seen = m.seen
      /\ n.rows = m.rows \ {r}
  BY <1>2 DEF Locals
<1>4. CallOK(pc[c], q, n)
  BY <1>2, <1>3 DEF CallOK, Listed
<1>5. r \in ItemRow /\ r.scope = q.scope /\ r.id \in allocated
  BY <1>2 DEF CallOK, Listed, Locals
<1>6. Sound(t, q)
  BY <1>2, <1>5, ReplacementIsSound DEF Sound
<1>7. CASE Keep(c, [n EXCEPT !.txn = {t}]) /\ Goto(c, "apply")
  BY <1>1, <1>2, <1>4, <1>6, <1>7, ReadyKeeps
<1>8. CASE Keep(c, n) /\ UNCHANGED pc
  BY <1>1, <1>4, <1>8, StaysPut, ReadingKeeps
<1> QED
  BY <1>1, <1>7, <1>8

(* The memory that Plan leaves.                                            *)
Planned(m, merges, grants, last) ==
  [m EXCEPT !.seen = {}, !.merges = merges, !.grants = grants, !.last = last]

HasPlan(m, n, last) ==
  n \in Locals /\ n.txn = m.txn /\ n.last = last /\ n.seen = {} /\ n.rows = m.rows

LEMMA PlannedIs ==
  ASSUME NEW m \in Locals, NEW merges \in Merges,
         NEW grants \in SUBSET Grants, NEW last \in SUBSET WriteTransaction
  PROVE  HasPlan(m, Planned(m, merges, grants, last), last)
<1> DEFINE Like(k) == k \in Locals /\ k.txn = m.txn /\ k.seen = {} /\ k.rows = m.rows
<1> PICK n1 : n1 = [m EXCEPT !.seen = {}]
  OBVIOUS
<1>1. Like(n1)
  BY DEF Locals
<1> PICK n2 : n2 = [n1 EXCEPT !.merges = merges]
  OBVIOUS
<1>2. Like(n2)
  BY <1>1 DEF Locals
<1> PICK n3 : n3 = [n2 EXCEPT !.grants = grants]
  OBVIOUS
<1>3. Like(n3)
  BY <1>2 DEF Locals
<1> PICK n4 : n4 = [n3 EXCEPT !.last = last]
  OBVIOUS
<1>4. Planned(m, merges, grants, last) = n4
  BY Zenon DEF Planned
<1>5. n4 \in Locals
  BY <1>3, ZenonT(40) DEF Locals
<1>6. n4.txn = m.txn /\ n4.last = last /\ n4.seen = {} /\ n4.rows = m.rows
  BY <1>3 DEF Locals
<1> QED
  BY <1>4, <1>5, <1>6 DEF HasPlan

LEMMA PlanKeeps ==
  ASSUME EIInv, NEW c \in Callers, At(c, "decide"),
         NEW removed \in SUBSET mem[c].seen, NEW regrants \in SUBSET mem[c].seen,
         NEW released \in SUBSET mem[c].seen,
         NEW merges \in SUBSET (mem[c].seen \X mem[c].seen),
         Plan(c, removed, regrants, released, merges),
         Goto(c, "work"), UNCHANGED req, Reading
  PROVE  EIInv'
<1> PICK q, m : q = req[c] /\ m = mem[c]
  OBVIOUS
<1> DEFINE given == {[id |-> r.id, prot |-> now + 1] : r \in regrants} \cup
                    {[id |-> r.id, prot |-> 0] : r \in released}
           gone == Ids({r \in removed : r.meta.prot # Never})
           run == [Txn(q.scope, "MaintenanceRun", gone) EXCEPT !.evictions = gone]
           last == IF gone = {} /\ given = {} THEN {} ELSE {run}
<1>1. /\ CallOK(pc[c], q, m) /\ m \in Locals /\ q \in Requests /\ q.scope \in Scopes
      /\ q.op = "maintain"
  BY Calling DEF At, OwnStage
<1>2. m.seen \in SUBSET ItemRow /\ \A r \in m.seen : r.id \in ItemIds
  BY <1>1 DEF Locals, ItemRow
<1>3. gone \in SUBSET ItemIds
  BY <1>2 DEF Ids
<1>4. given \in SUBSET Grants
  BY <1>2, NeverIs DEF Grants, EIInv
<1>5. merges \in Merges
  BY <1>2 DEF Merges
<1>0. PICK n : n = Planned(m, merges, given, last)
  OBVIOUS
<1>6. Keep(c, n)
  BY <1>0, Zenon DEF Plan, Planned
<1> HIDE DEF given, gone
<1>7. Sound(run, q)
  BY <1>1, <1>3, PlainIsSound, EventsAre DEF Sound
<1> HIDE DEF run
<1>8. last \in SUBSET WriteTransaction /\ \A t \in last : Sound(t, q)
  BY <1>7, SoundIsTyped DEF Sound
<1> HIDE DEF last
<1>9. n \in Locals /\ n.txn = m.txn /\ n.last = last /\ n.seen = {} /\ n.rows = m.rows
  <2>1. HasPlan(m, n, last)
    BY <1>0, <1>1, <1>4, <1>5, <1>8, PlannedIs
  <2> QED
    BY <2>1, Zenon DEF HasPlan
<1>10. \A t \in n.txn \cup n.last : Sound(t, q)
  BY <1>1, <1>8, <1>9 DEF CallOK
<1>11. CallOK("work", q, n)
  BY <1>1, <1>9, <1>10, StaysOK DEF Stages, OwnStage
<1> QED
  BY <1>6, <1>11, GoesOn, ReadingKeeps

LEMMA DecideKeeps ==
  ASSUME EIInv, NEW c \in Callers, Decide(c)
  PROVE  EIInv'
<1> DEFINE seen == mem[c].seen
           expired == {r \in seen : MustForget(r)}
<1>1. At(c, "decide") /\ Goto(c, "work") /\ UNCHANGED req /\ Reading
  BY DEF Decide
<1>2. PICK removed \in SUBSET seen, regrants \in SUBSET seen, released \in SUBSET seen,
           M \in SUBSET (seen \X seen) : Plan(c, removed, regrants, released, M)
  <2>1. \A a, b, n : Evictions(a, b, n, 0) \subseteq SUBSET b
    BY DEF Evictions
  <2>2. \A a, b : Consolidations(a, b) \subseteq SUBSET (a \X a)
    BY DEF Consolidations
  <2> QED
    BY <2>1, <2>2 DEF Decide
<1> QED
  BY <1>1, <1>2, PlanKeeps

LEMMA FoldKeeps ==
  ASSUME EIInv, NEW c \in Callers, Fold(c)
  PROVE  EIInv'
<1> PICK q, m : q = req[c] /\ m = mem[c]
  OBVIOUS
<1>1. At(c, "work") /\ UNCHANGED req /\ Reading
  BY DEF Fold
<1>2. /\ CallOK(pc[c], q, m) /\ m \in Locals /\ q \in Requests /\ q.scope \in Scopes
      /\ ~At(c, "idle") /\ q.op # "remember"
  BY <1>1, Calling DEF At, OwnStage
<1>3. PICK p \in m.merges :
        LET n == [m EXCEPT !.merges = @ \ {p}] IN
        \/ Keep(c, n) /\ UNCHANGED pc
        \/ /\ Goto(c, "apply")
           /\ \E target \in InScope(items, q.scope), e \in Embeds :
                Keep(c, [n EXCEPT !.txn =
                   {[Txn(q.scope, "Merged", {p[1].id, target.id}) EXCEPT
                       !.evictions = {p[1].id},
                       !.merge = {[target |-> target.id, body |-> Folded(target, p[1]),
                                   tags |-> p[1].tags, pending |-> ~e,
                                   embedded |-> e]}]}])
  BY ZenonT(40) DEF Fold
<1> PICK n : n = [m EXCEPT !.merges = @ \ {p}]
  OBVIOUS
<1>4. Alike(m, n)
  BY <1>2 DEF Alike, Locals, Merges
<1>5. CallOK(pc[c], q, n)
  BY <1>2, <1>4 DEF CallOK, Alike
<1>6. CASE Keep(c, n) /\ UNCHANGED pc
  BY <1>1, <1>5, <1>6, StaysPut, ReadingKeeps
<1>7. ASSUME Goto(c, "apply"), NEW target \in InScope(items, q.scope), NEW e \in Embeds,
             NEW t, t = [Txn(q.scope, "Merged", {p[1].id, target.id}) EXCEPT
                           !.evictions = {p[1].id},
                           !.merge = {[target |-> target.id, body |-> Folded(target, p[1]),
                                       tags |-> p[1].tags, pending |-> ~e, embedded |-> e]}],
             Keep(c, [n EXCEPT !.txn = {t}])
      PROVE  EIInv'
  <2>1. p[1] \in ItemRow /\ target \in ItemRow /\ e \in BOOLEAN
    BY <1>2, RowsOfScope, EngineAssumption DEF Locals, Merges
  <2>2. Sound(t, q)
    BY <1>2, <1>7, <2>1, FoldIsSound DEF Sound
  <2> QED
    BY <1>1, <1>2, <1>5, <1>7, <2>2, ReadyKeeps
<1> QED
  BY <1>3, <1>6, <1>7, ZenonT(40)

LEMMA FinishKeeps ==
  ASSUME EIInv, NEW c \in Callers, Finish(c)
  PROVE  EIInv'
<1> PICK q, m : q = req[c] /\ m = mem[c]
  OBVIOUS
<1>1. At(c, "work") /\ Reading
  BY DEF Finish
<1>2. CallOK(pc[c], q, m) /\ m \in Locals /\ q \in Requests
  BY <1>1, Calling DEF At
<1>3. CASE Return(c)
  BY <1>1, <1>3, ReadingReturnKeeps
<1>4. CASE ~Return(c)
  <2> PICK n1 : n1 = [m EXCEPT !.txn = m.last]
    OBVIOUS
  <2> PICK n2 : n2 = [n1 EXCEPT !.last = {}]
    OBVIOUS
  <2>1. Keep(c, [m EXCEPT !.txn = m.last, !.last = {}]) /\ Goto(c, "apply") /\ UNCHANGED req
    BY <1>4 DEF Finish
  <2>2. Keep(c, n2)
    BY <2>1, Zenon
  <2>3. n1 \in Locals /\ n1.txn = m.last /\ n1.seen = m.seen /\ n1.rows = m.rows
    BY <1>2 DEF Locals
  <2>4. /\ n2 \in Locals /\ n2.txn = m.last /\ n2.seen = m.seen /\ n2.rows = m.rows
        /\ n2.last = {}
    BY <2>3 DEF Locals
  <2>5. CallOK("apply", q, n2)
    BY <1>2, <2>4 DEF CallOK, Stages, OwnStage
  <2> QED
    BY <1>1, <2>1, <2>2, <2>5, GoesOn, ReadingKeeps
<1> QED
  BY <1>3, <1>4

LEMMA RetrieveKeeps ==
  ASSUME EIInv, NEW c \in Callers, Retrieve(c)
  PROVE  EIInv'
<1> PICK q, m : q = req[c] /\ m = mem[c]
  OBVIOUS
<1>1. At(c, "retrieve") /\ Goto(c, "record") /\ UNCHANGED req /\ Reading
  BY DEF Retrieve
<1>2. CallOK(pc[c], q, m) /\ m \in Locals /\ q \in Requests
  BY <1>1, Calling DEF At
<1>3. PICK ws \in SUBSET InScope(items, q.scope) : Keep(c, [m EXCEPT !.seen = ws])
  BY DEF Retrieve
<1> PICK n : n = [m EXCEPT !.seen = ws]
  OBVIOUS
<1>4. ws \in SUBSET ItemRow /\ Listed(ws, q.scope)
  BY RowsOfScope DEF Listed
<1>5. n \in Locals /\ n.txn = m.txn /\ n.last = m.last /\ n.seen = ws /\ n.rows = m.rows
  BY <1>2, <1>4 DEF Locals
<1>6. CallOK("record", q, n)
  BY <1>2, <1>4, <1>5 DEF CallOK, Stages, OwnStage
<1> QED
  BY <1>1, <1>3, <1>6, GoesOn, ReadingKeeps

LEMMA RecordKeeps ==
  ASSUME EIInv, NEW c \in Callers, Record(c)
  PROVE  EIInv'
<1> DEFINE s == req[c].scope
           refs == Ids(mem[c].seen)
<1>1. /\ At(c, "record") /\ Mint /\ RecordRecall(s, refs, minted + 1, AnyMeta) /\ Return(c)
      /\ UNCHANGED <<now, allocated>>
  BY DEF Record
<1>2. s \in Scopes /\ mem[c] \in Locals
  BY <1>1, Calling DEF At
<1>3. refs \in SUBSET ItemIds
  BY <1>2 DEF Locals, ItemRow, Ids
<1>4. AnyMeta \in AuditMetas
  BY StoreAssumption DEF AnyMeta
<1>5. IInv'
  BY <1>1, <1>2, <1>3, <1>4, RecallKeeps DEF EIInv
<1>6. Ids(items') \subseteq Ids(items)
  <2>1. items' = {IF r.scope = s /\ r.id \in refs THEN [r EXCEPT !.access = @ + 1] ELSE r
                  : r \in items}
    BY <1>1 DEF RecordRecall
  <2>2. \A r \in items : [r EXCEPT !.access = @ + 1].id = r.id
    BY DEF EIInv, IInv, TypeOK, ItemRow
  <2> QED
    BY <2>1, <2>2, ZenonT(40) DEF Ids
<1> QED
  BY <1>1, <1>5, <1>6, ReturnKeeps DEF EIInv

LEMMA BudgetKeeps ==
  ASSUME EIInv, NEW c \in Callers, ChangeBudget(c)
  PROVE  EIInv'
<1> PICK q, m : q = req[c] /\ m = mem[c]
  OBVIOUS
<1> PICK t : t = Txn(q.scope, "PolicyChanged", {})
  OBVIOUS
<1> PICK n : n = [m EXCEPT !.txn = {t}]
  OBVIOUS
<1>1. /\ At(c, "budget") /\ SetBudget(q.scope, q.budget) /\ UNCHANGED minted
      /\ Keep(c, n) /\ Goto(c, "apply") /\ UNCHANGED req /\ UNCHANGED <<now, allocated>>
  BY DEF ChangeBudget
<1>2. /\ CallOK(pc[c], q, m) /\ q \in Requests /\ q.scope \in Scopes
      /\ q.budget \in Budgets
  BY <1>1, Calling DEF At, OwnStage, Asked
<1>3. IInv'
  BY <1>1, <1>2, SetBudgetKeeps DEF EIInv
<1>4. Sound(t, q)
  BY <1>2, PlainIsSound, EventsAre DEF Sound
<1>5. CallOK("apply", q, n)
  BY <1>2, <1>4, ReadyIsOK DEF Stages, OwnStage
<1>6. CallOK("apply", q, n)'
  BY <1>1, <1>5, OthersStay
<1>7. Ids(items') \subseteq allocated' /\ now' \in 0..MaxNow
  BY <1>1 DEF SetBudget, EIInv
<1>8. Moves(c, "apply", q, n)
  BY <1>1, GoesOn
<1> QED
  BY <1>1, <1>3, <1>6, <1>7, <1>8, MoveKeeps

LEMMA PurgeStepKeeps ==
  ASSUME EIInv, NEW c \in Callers, Purge(c)
  PROVE  EIInv'
<1> DEFINE j == SubjectOf(req[c].scope)
<1>1. PICK n \in Namespaces :
        PurgeSubject(j, req[c].cascade, <<j, n>>, minted + 1, AnyMeta)
  BY DEF Purge
<1>2. At(c, "purge") /\ Mint /\ Return(c) /\ UNCHANGED <<now, allocated>>
  BY DEF Purge
<1>3. req[c].scope \in Scopes /\ req[c].cascade \in BOOLEAN
  BY <1>2, Calling DEF At, OwnStage, Asked
<1>4. <<j, n>> \in Scopes /\ SubjectOf(<<j, n>>) = j
  BY <1>3 DEF Scopes, SubjectOf
<1>5. AnyMeta \in AuditMetas
  BY StoreAssumption DEF AnyMeta
<1>6. IInv'
  BY <1>1, <1>2, <1>3, <1>4, <1>5, PurgeKeeps DEF EIInv
<1>7. Ids(items') \subseteq Ids(items)
  BY <1>1 DEF PurgeSubject, Ids
<1> QED
  BY <1>2, <1>6, <1>7, ReturnKeeps DEF EIInv

(* Reassessing a stream keeps it one the backend can import.               *)
LEMMA ReassessedIsWrite ==
  ASSUME now \in 0..MaxNow, NEW w \in ExportItem
  PROVE  /\ Reassessed(w) \in ExportItem
         /\ Reassessed(w).id = w.id
         /\ Offered(w) => Offered(Reassessed(w))
<1> PICK p \in 0..Never : p = IF w.meta.prot = Never THEN 0
                             ELSE IF w.meta.prot > now + 1 THEN now + 1 ELSE w.meta.prot
  BY NeverIs, EngineAssumption DEF ExportItem, Meta
<1> PICK s \in 0..1 : s = IF w.body \in Detected THEN 1 ELSE w.meta.sens
  BY EngineAssumption DEF ExportItem, Meta
<1> PICK m : m = [w.meta EXCEPT !.prot = p, !.sens = s]
  OBVIOUS
<1> PICK v : v = [w EXCEPT !.meta = m]
  OBVIOUS
<1>1. w.meta \in Meta
  BY EngineAssumption DEF ExportItem
<1>2. m \in Metas
  BY <1>1, EngineAssumption DEF Meta
<1>3. /\ v \in ExportItem /\ v.id = w.id /\ v.scope = w.scope /\ v.body = w.body
      /\ v.pending = w.pending /\ v.vector = w.vector
  BY <1>2 DEF ExportItem
<1>4. Reassessed(w) = v
  BY <1>1 DEF Reassessed, ExportItem, Meta
<1>5. AsImported(w, w.vector) => AsImported(v, v.vector)
  BY <1>3 DEF AsImported
<1> QED
  BY <1>3, <1>4, <1>5 DEF Offered

LEMMA ReassessedIsSound ==
  ASSUME now \in 0..MaxNow, NEW st \in Streams,
         NEW s2, s2 = [st EXCEPT !.items = {Reassessed(w) : w \in st.items}]
  PROVE  s2 \in SoundStreams /\ Ids(s2.items) = Ids(st.items) /\ Ids(st.items) \subseteq ItemIds
<1>1. /\ st \in ImportStream
      /\ \A w \in st.items : Offered(w)
      /\ \A v, w \in st.items : v.id = w.id => v = w
      /\ \A a \in st.audits : a.id < 0
      /\ \A a, b \in st.audits : a.id = b.id => a = b
      /\ IsFiniteSet(st.audits)
  BY CallersAreSound DEF SoundStreams
<1>2. \A w \in st.items : w \in ExportItem
  BY <1>1 DEF ImportStream
<1> PICK rows : rows = {Reassessed(w) : w \in st.items}
  OBVIOUS
<1>3. /\ \A v \in rows : v \in ExportItem /\ Offered(v)
      /\ \A v, w \in rows : v.id = w.id => v = w
      /\ Ids(rows) = Ids(st.items)
  <2>1. \A w \in st.items : /\ Reassessed(w) \in ExportItem /\ Reassessed(w).id = w.id
                            /\ Offered(Reassessed(w))
    BY <1>1, <1>2, ReassessedIsWrite
  <2> QED
    BY <1>1, <2>1 DEF Ids
<1>4. s2 \in ImportStream /\ s2.items = rows /\ s2.audits = st.audits
  BY <1>1, <1>3 DEF ImportStream
<1>5. Ids(st.items) \subseteq ItemIds
  BY <1>2 DEF Ids, ExportItem
<1> QED
  BY <1>1, <1>3, <1>4, <1>5 DEF SoundStreams

LEMMA ImportIds ==
  ASSUME NEW st, Import(st)
  PROVE  Ids(items') \subseteq Ids(items) \cup Ids(st.items)
<1>1. CASE ~ImportCommits(st)
  BY <1>1 DEF Import, tables
<1>2. CASE ImportCommits(st)
  BY <1>2 DEF Import, ImportCommit, ImportedRows, NewItems, Ids
<1> QED
  BY <1>1, <1>2

LEMMA ImportStepKeeps ==
  ASSUME EIInv, NEW c \in Callers, ImportStreamOf(c)
  PROVE  EIInv'
<1> PICK q, m : q = req[c] /\ m = mem[c]
  OBVIOUS
<1>1. PICK st \in Streams :
        LET s2 == [st EXCEPT !.items = {Reassessed(w) : w \in st.items}] IN
        /\ Import(s2)
        /\ IF ImportCommits(s2)
           THEN /\ allocated' = allocated \cup Ids(st.items)
                /\ Keep(c, [m EXCEPT !.txn = {Txn(AdminScope, "Imported", Ids(st.items))}])
                /\ Goto(c, "apply") /\ UNCHANGED req
           ELSE Return(c) /\ UNCHANGED allocated
  BY DEF ImportStreamOf
<1>2. At(c, "import") /\ UNCHANGED <<minted, now>>
  BY DEF ImportStreamOf
<1>3. /\ CallOK(pc[c], q, m) /\ q \in Requests /\ q.op \in {"import", "export"}
      /\ q.scope = AdminScope /\ q.scope \in Scopes
  BY <1>2, Calling DEF At, OwnStage, Asked
<1> PICK s2 : s2 = [st EXCEPT !.items = {Reassessed(w) : w \in st.items}]
  OBVIOUS
<1>4. s2 \in SoundStreams /\ Ids(s2.items) = Ids(st.items) /\ Ids(st.items) \in SUBSET ItemIds
  BY ReassessedIsSound DEF EIInv
<1>5. IInv'
  BY <1>1, <1>2, <1>4, ImportKeeps DEF EIInv
<1>6. Ids(items') \subseteq Ids(items) \cup Ids(st.items)
  BY <1>1, <1>4, ImportIds
<1>7. CASE ImportCommits(s2)
  <2> PICK t : t = Txn(AdminScope, "Imported", Ids(st.items))
    OBVIOUS
  <2> PICK n : n = [m EXCEPT !.txn = {t}]
    OBVIOUS
  <2>1. /\ allocated' = allocated \cup Ids(st.items)
        /\ Keep(c, n) /\ Goto(c, "apply") /\ UNCHANGED req
    BY <1>1, <1>7
  <2>2. Sound(t, q)
    BY <1>3, <1>4, PlainIsSound, EventsAre DEF Sound
  <2>3. CallOK("apply", q, n)
    BY <1>3, <2>2, ReadyIsOK DEF Stages, OwnStage
  <2>4. allocated \subseteq allocated' /\ Ids(items') \subseteq allocated' /\ now' \in 0..MaxNow
    BY <1>2, <1>6, <2>1 DEF EIInv
  <2>5. CallOK("apply", q, n)'
    BY <2>3, <2>4, OthersStay
  <2>6. Moves(c, "apply", q, n)
    BY <2>1, GoesOn
  <2> QED
    BY <1>5, <2>4, <2>5, <2>6, MoveKeeps
<1>8. CASE ~ImportCommits(s2)
  <2>1. Return(c) /\ UNCHANGED allocated /\ items' = items
    BY <1>1, <1>8 DEF Import, tables
  <2> QED
    BY <1>2, <1>5, <2>1, ReturnKeeps DEF EIInv
<1> QED
  BY <1>7, <1>8

LEMMA ExportKeeps ==
  ASSUME EIInv, NEW c \in Callers, Export(c)
  PROVE  EIInv'
<1> PICK t, n : t = Txn(AdminScope, "Exported", {}) /\ n = [mem[c] EXCEPT !.txn = {t}]
  OBVIOUS
<1>1. At(c, "export") /\ Keep(c, n) /\ Goto(c, "apply") /\ UNCHANGED req /\ Reading
  BY DEF Export
<1>2. /\ CallOK(pc[c], req[c], mem[c]) /\ req[c].scope = AdminScope /\ req[c].scope \in Scopes
      /\ ~At(c, "idle")
  BY <1>1, Calling DEF At, OwnStage, Asked
<1>3. Sound(t, req[c])
  BY <1>2, PlainIsSound, EventsAre DEF Sound
<1> QED
  BY <1>1, <1>2, <1>3, ReadyKeeps

LEMMA BeginKeeps ==
  ASSUME EIInv, NEW c \in Callers, Begin(c)
  PROVE  EIInv'
<1>1. PICK r \in Requests :
        /\ req' = [req EXCEPT ![c] = r]
        /\ Goto(c, FirstStep(r.op))
        /\ \/ Keep(c, Blank)
           \/ /\ r.op = "protect"
              /\ Keep(c, [Blank EXCEPT !.grants = {[id |-> r.id, prot |-> r.prot]}])
  BY DEF Begin
<1>2. UNCHANGED <<vars, now, allocated>>
  BY DEF Begin
<1>3. Asked(r)
  BY EngineAssumption
<1>4. FirstStep(r.op) \in Stages /\ OwnStage(FirstStep(r.op), r.op)
  BY <1>3 DEF Asked, FirstStep, Stages, OwnStage
<1>5. Blank \in Locals
  BY BlankIs DEF CallOK
<1>6. ASSUME NEW n, Keep(c, n), Alike(Blank, n)
      PROVE  EIInv'
  <2>1. n.txn = {} /\ n.last = {} /\ n.seen = {} /\ n.rows = {} /\ n \in Locals
    BY <1>6 DEF Alike, Blank
  <2>2. CallOK(FirstStep(r.op), r, n)
    BY <1>4, <2>1 DEF CallOK, Listed
  <2>3. Moves(c, FirstStep(r.op), r, n)
    BY <1>1, <1>6 DEF Moves, Goto, Keep
  <2>4. allocated \subseteq allocated' /\ Ids(items') \subseteq allocated' /\ now' \in 0..MaxNow
    BY <1>2 DEF EIInv, vars, tables
  <2>5. CallOK(FirstStep(r.op), r, n)'
    BY <2>2, <2>4, OthersStay
  <2>6. IInv'
    BY <1>2, StutterKeeps DEF EIInv
  <2> QED
    BY <2>3, <2>4, <2>5, <2>6, MoveKeeps
<1>7. CASE Keep(c, Blank)
  BY <1>5, <1>6, <1>7 DEF Alike
<1>8. ASSUME r.op = "protect",
             NEW n, n = [Blank EXCEPT !.grants = {[id |-> r.id, prot |-> r.prot]}], Keep(c, n)
      PROVE  EIInv'
  <2> PICK g : g = [id |-> r.id, prot |-> r.prot]
    OBVIOUS
  <2>1. g \in Grants
    BY <1>3, <1>8 DEF Asked, Grants
  <2>2. Alike(Blank, n)
    BY <1>5, <1>8, <2>1 DEF Alike, Locals
  <2> QED
    BY <1>6, <1>8, <2>2
<1> QED
  BY <1>1, <1>7, <1>8

LEMMA DropKeeps ==
  ASSUME EIInv, NEW c \in Callers, Drop(c)
  PROVE  EIInv'
BY ReadingReturnKeeps DEF Drop

LEMMA CallsStay ==
  ASSUME EIInv, UNCHANGED calls, UNCHANGED <<vars, allocated>>, now' \in 0..MaxNow
  PROVE  EIInv'
<1>1. IInv'
  BY StutterKeeps DEF EIInv
<1>2. UNCHANGED <<pc, req, mem, allocated, items>>
  BY DEF calls, vars, tables
<1>3. CallsOK'
  BY <1>2 DEF EIInv, CallsOK, CallOK, Sound, SoundFor, Listed
<1> QED
  BY <1>1, <1>2, <1>3 DEF EIInv

-----------------------------------------------------------------------------
(* The invariant holds at the start, and every step keeps it.              *)

LEMMA EngineInitIInv == EngineInit => EIInv
<1> SUFFICES ASSUME EngineInit PROVE EIInv
  OBVIOUS
<1>1. PICK rows \in Seeds, b \in SeedBudgets :
        /\ items = rows
        /\ vectors = {[id |-> r.id, scope |-> r.scope, of |-> r.body]
                        : r \in {q \in rows : ~q.pending}}
        /\ capacity = [s \in Scopes |->
             [budget |-> b, items |-> Cardinality(Ids(InScope(rows, s))),
              bytes |-> TotalCharge(InScope(rows, s))]]
        /\ audit = {} /\ aggregates = [k \in AggregateKeys |-> 0]
        /\ idempotency = {} /\ minted = 0 /\ now = 0 /\ allocated = Ids(rows)
        /\ pc = [c \in Callers |-> "idle"] /\ req = [c \in Callers |-> NoRequest]
        /\ mem = [c \in Callers |-> Blank]
  BY DEF EngineInit
<1>2. /\ rows \in SUBSET ItemRow /\ \A q, r \in rows : q.id = r.id => q = r
      /\ b \in Budgets
  BY EngineAssumption
<1>3. \A s \in Scopes : WellKeyed(InScope(rows, s))
  BY <1>2 DEF WellKeyed, InScope, ItemRow
<1>4. capacity \in [Scopes -> CapacityRow]
  BY <1>1, <1>2, <1>3, IdsFinite, UnitsFinite DEF CapacityRow
<1>5. TypeOK
  BY <1>1, <1>2, <1>4 DEF TypeOK, VectorRow, ItemRow
<1>6. PrimaryKeys
  BY <1>1, <1>2 DEF PrimaryKeys
<1>7. VectorsFollowItems
  <2> DEFINE own(r) == [id |-> r.id, scope |-> r.scope, of |-> r.body]
  <2>1. ASSUME NEW r \in items, ~r.pending
        PROVE  FoundFor(vectors, r) = Exact(r)
    <3>1. own(r) \in vectors /\ own(r).id = r.id /\ own(r).of = r.body
      BY <1>1, <2>1
    <3>2. \A v \in vectors : v.id = r.id => v.of = r.body
      BY <1>1, <1>6, <2>1 DEF PrimaryKeys
    <3> QED
      BY <2>1, <3>1, <3>2, OneFound DEF Exact
  <2>2. ASSUME NEW r \in items, r.pending
        PROVE  FoundFor(vectors, r) = Exact(r)
    BY <1>1, <1>6, <2>2 DEF FoundFor, Exact, PrimaryKeys
  <2>3. \A v \in vectors : \E r \in items : r.id = v.id /\ r.scope = v.scope
    BY <1>1
  <2>4. \A r \in items : FoundFor(vectors, r) = Exact(r)
    BY <1>1, <2>1, <2>2
  <2> QED
    BY <2>3, <2>4 DEF VectorsFollowItems
<1>8. ItemsCounted /\ BytesCounted
  BY <1>1 DEF ItemsCounted, BytesCounted
<1>9. ReplaysAreAudited /\ AuditIdsMinted /\ AggregatesCoverAudit /\ IsFiniteSet(audit)
  <2>1. IsFiniteSet({}) /\ Cardinality({}) = 0
    BY FS_EmptySet
  <2>2. \A k : {a \in audit : KeyOf(a) = k} = {}
    BY <1>1
  <2> QED
    BY <1>1, <2>1, <2>2 DEF ReplaysAreAudited, AuditIdsMinted, AggregatesCoverAudit
<1>10. CallsOK
  BY <1>1, BlankIs DEF CallsOK, CallOK
<1>11. Ids(items) \subseteq allocated /\ now \in 0..MaxNow
  BY <1>1, NeverIs
<1> QED
  BY <1>5, <1>6, <1>7, <1>8, <1>9, <1>10, <1>11 DEF EIInv, IInv

LEMMA StepKeeps ==
  ASSUME EIInv, NEW c \in Callers, Step(c)
  PROVE  EIInv'
<1>1. ReadNeighbours(c) \/ ReadCapacity(c) \/ Admit(c) \/ CheckTarget(c) => EIInv'
  BY NeighboursKeep, CapacityKeeps, AdmitKeeps, TargetKeeps
<1>2. DoTransaction(c) \/ ReplayOutcome(c) \/ Match(c) \/ Grant(c) => EIInv'
  BY TransactionKeeps, ReplayKeeps, MatchKeeps, GrantKeeps
<1>3. List(c) \/ Decide(c) \/ Fold(c) \/ Embed(c) \/ Finish(c) => EIInv'
  BY ListKeeps, DecideKeeps, FoldKeeps, EmbedKeeps, FinishKeeps
<1>4. Retrieve(c) \/ Record(c) \/ ChangeBudget(c) \/ Purge(c) => EIInv'
  BY RetrieveKeeps, RecordKeeps, BudgetKeeps, PurgeStepKeeps
<1>5. ImportStreamOf(c) \/ Export(c) => EIInv'
  BY ImportStepKeeps, ExportKeeps
<1> QED
  BY <1>1, <1>2, <1>3, <1>4, <1>5 DEF Step

LEMMA EngineNextKeeps == EIInv /\ [EngineNext]_engineVars => EIInv'
<1> SUFFICES ASSUME EIInv, [EngineNext]_engineVars PROVE EIInv'
  OBVIOUS
<1>1. CASE Tick
  <2>1. UNCHANGED calls /\ UNCHANGED <<vars, allocated>> /\ now < MaxNow /\ now' = now + 1
    BY <1>1 DEF Tick
  <2>2. now' \in 0..MaxNow
    BY <2>1, NeverIs DEF EIInv
  <2> QED
    BY <2>1, <2>2, CallsStay
<1>2. ASSUME NEW c \in Callers, Begin(c) \/ Step(c) \/ Drop(c) PROVE EIInv'
  BY <1>2, BeginKeeps, StepKeeps, DropKeeps
<1>3. CASE UNCHANGED engineVars
  <2>1. UNCHANGED calls /\ UNCHANGED <<vars, allocated, now>>
    BY <1>3 DEF engineVars
  <2> QED
    BY <2>1, CallsStay DEF EIInv
<1> QED
  BY <1>1, <1>2, <1>3 DEF EngineNext

LEMMA EngineIInv == EngineSpec => []EIInv
BY EngineInitIInv, EngineNextKeeps, PTL DEF EngineSpec

(* Whatever its callers ask, in whatever order their steps are taken and   *)
(* wherever a call is cut off, the engine never hands the backend a        *)
(* transaction it refuses as malformed: not the one half of a merge whose  *)
(* target moved, not a row whose embedding failed, not a batch of          *)
(* maintenance listed many writes ago.                                     *)
THEOREM EngineHandsOverValidTransactions == EngineSpec => []EngineInv
<1>1. EIInv => EngineInv
  <2> SUFFICES ASSUME EIInv PROVE EngineInv
    OBVIOUS
  <2>1. TypeOK /\ now \in 0..MaxNow /\ Ids(items) \subseteq allocated
    BY DEF EIInv, IInv
  <2>2. ASSUME NEW c \in Callers
        PROVE  /\ req[c] \in Requests \cup {NoRequest}
               /\ mem[c] \in Locals
               /\ \A t \in mem[c].txn \cup mem[c].last : Sound(t, req[c])
    BY DEF EIInv, CallsOK, CallOK
  <2>3. EngineTypeOK
    BY <2>1, <2>2 DEF EngineTypeOK, Locals
  <2>4. TransactionsAreValid
    BY <2>2 DEF TransactionsAreValid, Sound, SoundFor, SoundTransactions
  <2> QED
    BY <2>3, <2>4 DEF EngineInv
<1> QED
  BY <1>1, EngineIInv, PTL

(* The guarantees of the backend hold of the engine's tables: the schema,  *)
(* vectors that embed what their items say now, counters that are the      *)
(* rows, replays that are in the audit, aggregates that cover it.          *)
THEOREM EngineKeepsTheStore ==
  EngineSpec => [](/\ SchemaHolds /\ VectorsFollowItems /\ CapacityCounted
                   /\ ReplaysAreAudited /\ AggregatesCoverAudit)
<1>1. EIInv => /\ SchemaHolds /\ VectorsFollowItems /\ CapacityCounted
               /\ ReplaysAreAudited /\ AggregatesCoverAudit
  BY DEF EIInv, IInv, SchemaHolds, CapacityCounted
<1> QED
  BY <1>1, EngineIInv, PTL

LEMMA EngineStepKeepsHistory ==
  EIInv /\ [EngineNext]_engineVars => [HistoryKept]_vars
<1> SUFFICES ASSUME EIInv, EngineNext, ~UNCHANGED vars PROVE HistoryKept
  BY DEF engineVars
<1>1. PICK c \in Callers : DoTransaction(c) \/ Record(c) \/ ChangeBudget(c) \/ Purge(c)
                             \/ ImportStreamOf(c)
  BY ZenonT(40) DEF EngineNext, Tick, Begin, Drop, Step, Reading, ReadNeighbours,
         ReadCapacity, Admit, CheckTarget, ReplayOutcome, Match, Grant, List, Decide, Fold, Embed, Finish,
         Retrieve, Export
<1>2. CASE DoTransaction(c)
  BY <1>2, ApplyKeepsHistory DEF DoTransaction, EIInv
<1>3. CASE Record(c)
  BY <1>3, RecallKeepsHistory DEF Record, EIInv
<1>4. CASE ChangeBudget(c)
  BY <1>4, SetBudgetKeepsHistory DEF ChangeBudget, EIInv
<1>5. CASE Purge(c)
  <2>1. PICK n \in Namespaces :
          PurgeSubject(SubjectOf(req[c].scope), req[c].cascade, <<SubjectOf(req[c].scope), n>>,
                       minted + 1, AnyMeta)
    BY <1>5 DEF Purge
  <2>2. req[c].scope \in Scopes
    BY <1>5, Calling DEF Purge, At
  <2> PICK s : s = <<SubjectOf(req[c].scope), n>>
    OBVIOUS
  <2>3. s \in Scopes /\ SubjectOf(s) = SubjectOf(req[c].scope)
    BY <2>2 DEF Scopes, SubjectOf
  <2> QED
    BY <2>1, <2>3, PurgeKeepsHistory DEF EIInv
<1>6. CASE ImportStreamOf(c)
  <2>1. PICK st \in Streams : Import([st EXCEPT !.items = {Reassessed(w) : w \in st.items}])
    BY <1>6 DEF ImportStreamOf
  <2> PICK s2 : s2 = [st EXCEPT !.items = {Reassessed(w) : w \in st.items}]
    OBVIOUS
  <2>2. s2 \in SoundStreams
    BY ReassessedIsSound DEF EIInv
  <2> QED
    BY <2>1, <2>2, ImportKeepsHistory DEF EIInv, SoundStreams
<1> QED
  BY <1>1, <1>2, <1>3, <1>4, <1>5, <1>6

(* What the engine filed and what it promised a retry stay until a purge   *)
(* of their subject takes them; the aggregates survive even that.          *)
THEOREM EngineHistoryStays == EngineSpec => HistoryIsPermanent
BY EngineIInv, EngineStepKeepsHistory, PTL DEF EngineSpec, HistoryIsPermanent

-----------------------------------------------------------------------------
(* Retries.  A purge takes the keys of its subject with everything else,   *)
(* and a key may then be used anew: what follows is of a tenant no subject *)
(* of which is purged.                                                     *)

NoPurges == \A r \in Requests : r.op # "purge"

RetryInv ==
  /\ \A o \in outcomes : o.item # {} =>
       /\ o.action \in {"Retain", "Merge"}
       /\ \E p \in idempotency : /\ p.scope = o.scope /\ p.key = o.key
                                /\ p.outcome.item = o.item /\ p.outcome.audit = o.audit
  /\ \A p \in idempotency : p.outcome.item # {} =>
       \A a \in audit : a.id = p.outcome.audit => a.event \in {"Admitted", "Merged"}
  /\ \A c \in Callers : pc[c] = "replay" =>
       \A out \in mem[c].replayed, k \in req[c].key :
         \E p \in idempotency : p.scope = req[c].scope /\ p.key = k /\ p.outcome = out

(* The audit row of an outcome recorded stays the only one of its id.      *)
LEMMA OutcomeRowStays ==
  ASSUME EIInv, EIInv', audit \subseteq audit', NEW p \in idempotency,
         NEW a \in audit', a.id = p.outcome.audit
  PROVE  a \in audit
<1>1. PICK b \in audit : b.id = p.outcome.audit
  BY DEF EIInv, IInv, ReplaysAreAudited
<1> QED
  BY <1>1 DEF EIInv, IInv, PrimaryKeys

Replaying(d) == pc[d] = "replay" /\ UNCHANGED <<req[d], mem[d]>>

LEMMA RetryStays ==
  ASSUME EIInv, EIInv', RetryInv, audit \subseteq audit', idempotency' = idempotency,
         \A d \in Callers : pc'[d] = "replay" => Replaying(d),
         \A o \in outcomes' \ outcomes : o.item # {} =>
           /\ o.action \in {"Retain", "Merge"}
           /\ \E p \in idempotency : /\ p.scope = o.scope /\ p.key = o.key
                                    /\ p.outcome.item = o.item /\ p.outcome.audit = o.audit
  PROVE  RetryInv'
<1>1. \A p \in idempotency' : p.outcome.item # {} =>
        \A a \in audit' : a.id = p.outcome.audit => a.event \in {"Admitted", "Merged"}
  BY OutcomeRowStays DEF RetryInv
<1>2. \A o \in outcomes' : o.item # {} =>
        /\ o.action \in {"Retain", "Merge"}
        /\ \E p \in idempotency' : /\ p.scope = o.scope /\ p.key = o.key
                                  /\ p.outcome.item = o.item /\ p.outcome.audit = o.audit
  BY DEF RetryInv
<1>3. ASSUME NEW c \in Callers, pc'[c] = "replay"
      PROVE  \A out \in mem'[c].replayed, k \in req'[c].key :
               \E p \in idempotency' : p.scope = req'[c].scope /\ p.key = k /\ p.outcome = out
  <2>1. pc[c] = "replay" /\ req'[c] = req[c] /\ mem'[c] = mem[c]
    BY <1>3 DEF Replaying
  <2> QED
    BY <2>1 DEF RetryInv
<1> QED
  BY <1>1, <1>2, <1>3 DEF RetryInv

(* Only DoTransaction leaves a call at "replay".                           *)
Others(c) ==
  \A d \in Callers \ {c} : pc'[d] = pc[d] /\ req'[d] = req[d] /\ mem'[d] = mem[d]

LEMMA OthersUntouched ==
  ASSUME EIInv, NEW c \in Callers,
         UNCHANGED pc \/ \E p : Goto(c, p),
         UNCHANGED mem \/ \E m : Keep(c, m),
         UNCHANGED req \/ \E q : req' = [req EXCEPT ![c] = q]
  PROVE  Others(c)
<1>1. \A d \in Callers \ {c} : pc'[d] = pc[d]
  BY DEF EIInv, CallsOK, Goto
<1>2. \A d \in Callers \ {c} : mem'[d] = mem[d]
  BY DEF EIInv, CallsOK, Keep
<1>3. \A d \in Callers \ {c} : req'[d] = req[d]
  BY DEF EIInv, CallsOK
<1> QED
  BY <1>1, <1>2, <1>3 DEF Others

LEMMA GoesElsewhere ==
  ASSUME EIInv, NEW c \in Callers, NEW p, Goto(c, p)
  PROVE  pc'[c] = p
BY DEF EIInv, CallsOK, Goto

LEMMA NoNewReplay ==
  ASSUME EIInv, NEW c \in Callers, Others(c), pc'[c] # "replay"
  PROVE  \A d \in Callers : pc'[d] = "replay" => Replaying(d)
BY DEF Others, Replaying

LEMMA ReturnIsElsewhere ==
  ASSUME EIInv, NEW c \in Callers, Return(c)
  PROVE  Others(c) /\ pc'[c] # "replay"
BY OthersUntouched, GoesElsewhere DEF Return

LEMMA StepsElsewhere ==
  ASSUME EIInv, NEW c \in Callers,
         Begin(c) \/ Drop(c) \/ (Step(c) /\ ~DoTransaction(c) /\ ~ReplayOutcome(c))
  PROVE  Others(c) /\ pc'[c] # "replay"
<1> DEFINE Good == Others(c) /\ pc'[c] # "replay"
<1>1. CASE Begin(c)
  <2>1. PICK r \in Requests : req' = [req EXCEPT ![c] = r] /\ Goto(c, FirstStep(r.op))
    BY <1>1 DEF Begin
  <2>2. FirstStep(r.op) # "replay"
    BY EngineAssumption DEF Asked, FirstStep
  <2>3. \E m : Keep(c, m)
    BY <1>1 DEF Begin
  <2> QED
    BY <2>1, <2>2, <2>3, OthersUntouched, GoesElsewhere
<1>2. CASE Drop(c) \/ Return(c)
  BY <1>2, ReturnIsElsewhere DEF Drop
<1>3. ASSUME NEW p, p # "replay", Goto(c, p), UNCHANGED req, UNCHANGED mem \/ \E m : Keep(c, m)
      PROVE  Good
  BY <1>3, OthersUntouched, GoesElsewhere
<1>4. CASE ReadNeighbours(c)
  BY <1>3, <1>4 DEF ReadNeighbours
<1>5. CASE ReadCapacity(c)
  BY <1>3, <1>5 DEF ReadCapacity
<1>6. CASE Admit(c)
  BY <1>3, <1>6 DEF Admit
<1>7. CASE CheckTarget(c)
  BY <1>3, <1>7 DEF CheckTarget
<1>8. CASE Match(c)
  BY <1>3, <1>8 DEF Match
<1>9. CASE Grant(c)
  BY <1>2, <1>3, <1>9 DEF Grant
<1>10. CASE List(c)
  BY <1>2, <1>3, <1>10 DEF List
<1>11. CASE Decide(c)
  BY <1>3, <1>11 DEF Decide, Plan
<1>12. ASSUME At(c, "work"), UNCHANGED <<pc, req>>, \E m : Keep(c, m)
       PROVE  Good
  BY <1>12, OthersUntouched DEF At
<1>13. CASE Fold(c)
  BY <1>3, <1>12, <1>13 DEF Fold
<1>14. CASE Embed(c)
  BY <1>3, <1>12, <1>14 DEF Embed
<1>15. CASE Finish(c)
  BY <1>2, <1>3, <1>15 DEF Finish
<1>16. CASE Retrieve(c)
  BY <1>3, <1>16 DEF Retrieve
<1>17. CASE Record(c) \/ Purge(c)
  BY <1>2, <1>17 DEF Record, Purge
<1>18. CASE ChangeBudget(c) \/ Export(c)
  BY <1>3, <1>18 DEF ChangeBudget, Export
<1>19. CASE ImportStreamOf(c)
  BY <1>2, <1>3, <1>19 DEF ImportStreamOf
<1> QED
  BY <1>1, <1>2, <1>4, <1>5, <1>6, <1>7, <1>8, <1>9, <1>10, <1>11, <1>13, <1>14, <1>15, <1>16,
     <1>17, <1>18, <1>19 DEF Step

LEMMA NothingErased ==
  ASSUME NoPurges, EIInv, NEW c \in Callers
  PROVE  ~Purge(c)
BY Calling DEF Purge, At, OwnStage, NoPurges

(* They leave the keys and the answers as they are.                        *)
LEMMA StepsKeepKeys ==
  ASSUME NoPurges, EIInv, NEW c \in Callers,
         Begin(c) \/ Drop(c) \/ (Step(c) /\ ~DoTransaction(c) /\ ~ReplayOutcome(c))
  PROVE  idempotency' = idempotency /\ outcomes' = outcomes /\ audit \subseteq audit'
<1> DEFINE Good == idempotency' = idempotency /\ outcomes' = outcomes /\ audit \subseteq audit'
<1>1. CASE Begin(c)
  BY <1>1 DEF Begin, vars, tables, history
<1>2. CASE Reading
  BY <1>2 DEF Reading, vars, tables, history
<1>3. CASE Admit(c)
  BY <1>3 DEF Admit, vars, tables, history
<1>4. CASE Record(c)
  BY <1>4 DEF Record, RecordRecall, AuditInserted, history
<1>5. CASE ChangeBudget(c)
  BY <1>5 DEF ChangeBudget, SetBudget, history
<1>6. CASE ImportStreamOf(c)
  <2>1. PICK st : Import(st)
    BY <1>6 DEF ImportStreamOf
  <2>2. idempotency' = idempotency /\ audit \subseteq audit'
    BY <2>1 DEF Import, ImportCommit, AuditInserted, tables
  <2> QED
    BY <1>6, <2>2 DEF ImportStreamOf
<1>7. CASE \/ Drop(c) \/ ReadNeighbours(c) \/ ReadCapacity(c) \/ CheckTarget(c) \/ Match(c)
           \/ Grant(c) \/ List(c) \/ Decide(c) \/ Fold(c) \/ Embed(c) \/ Finish(c)
           \/ Retrieve(c) \/ Export(c)
  BY <1>2, <1>7 DEF Drop, ReadNeighbours, ReadCapacity, CheckTarget, Match, Grant, List,
                    Decide, Fold, Embed, Finish, Retrieve, Export
<1> QED
  BY <1>1, <1>3, <1>4, <1>5, <1>6, <1>7, NothingErased DEF Step

LEMMA OtherStepsRetry ==
  ASSUME NoPurges, EIInv, EIInv', RetryInv, NEW c \in Callers,
         Begin(c) \/ Drop(c) \/ (Step(c) /\ ~DoTransaction(c) /\ ~ReplayOutcome(c))
  PROVE  RetryInv'
<1>1. idempotency' = idempotency /\ outcomes' = outcomes /\ audit \subseteq audit'
  BY StepsKeepKeys
<1>2. \A d \in Callers : pc'[d] = "replay" => Replaying(d)
  BY StepsElsewhere, NoNewReplay
<1> QED
  BY <1>1, <1>2, RetryStays

(* A retry is told the item of the row recorded for its key.               *)
LEMMA ReplayOutcomeRetries ==
  ASSUME EIInv, EIInv', RetryInv, NEW c \in Callers, ReplayOutcome(c)
  PROVE  RetryInv'
<1>0. PICK out \in mem[c].replayed : Told(c, ReplayedAction(req[c].scope, out), out)
  BY DEF ReplayOutcome
<1>1. idempotency' = idempotency /\ audit \subseteq audit' /\ Return(c) /\ pc[c] = "replay"
  BY DEF ReplayOutcome, vars, tables, At
<1>2. ASSUME NEW o \in outcomes' \ outcomes, o.item # {}
      PROVE  /\ o.action \in {"Retain", "Merge"}
             /\ \E p \in idempotency : /\ p.scope = o.scope /\ p.key = o.key
                                      /\ p.outcome.item = o.item /\ p.outcome.audit = o.audit
  <2>1. PICK k \in req[c].key :
          o = [scope |-> req[c].scope, key |-> k, body |-> req[c].body,
               action |-> ReplayedAction(req[c].scope, out), item |-> out.item,
               audit |-> out.audit]
    BY <1>0, <1>2 DEF Told
  <2>2. PICK p \in idempotency : p.scope = req[c].scope /\ p.key = k /\ p.outcome = out
    BY <1>1 DEF RetryInv
  <2>3. \A a \in audit : a.id = out.audit => a.event \in {"Admitted", "Merged"}
    BY <1>2, <2>1, <2>2 DEF RetryInv
  <2>4. ReplayedAction(req[c].scope, out) \in {"Retain", "Merge"}
    <3> DEFINE found == {a \in InScope(audit, req[c].scope) :
                           a.id = out.audit /\ out.item \subseteq a.items}
    <3>1. CASE found = {}
      BY <1>2, <2>1, <3>1 DEF ReplayedAction
    <3>2. CASE found # {}
      <4>1. (CHOOSE a \in found : TRUE) \in found
        BY <3>2
      <4>2. (CHOOSE a \in found : TRUE).event \in {"Admitted", "Merged"}
        BY <2>3, <4>1 DEF InScope
      <4> QED
        BY <3>2, <4>2 DEF ReplayedAction, ActionOf
    <3> QED
      BY <3>1, <3>2
  <2> QED
    BY <2>1, <2>2, <2>4
<1>3. \A d \in Callers : pc'[d] = "replay" => Replaying(d)
  BY <1>1, ReturnIsElsewhere, NoNewReplay
<1> QED
  BY <1>1, <1>2, <1>3, RetryStays

(* What a commit records under the key is what it tells.                   *)
Recorded(t) ==
  {[scope |-> t.scope, key |-> k, digest |-> t.digest,
    outcome |-> AppliedWrite(t, minted + 1)] : k \in t.key}

LEMMA CommitRetries ==
  ASSUME EIInv, EIInv', RetryInv, NEW c \in Callers, pc[c] = "apply",
         NEW t \in mem[c].txn, Commits(t), ApplyCommit(t, minted + 1), AfterCommit(c),
         IF req[c].op = "remember"
         THEN Told(c, ActionOf(t.event), AppliedWrite(t, minted + 1))
         ELSE UNCHANGED outcomes
  PROVE  RetryInv'
<1>0. /\ t \in SoundTransactions /\ t.scope = req[c].scope /\ KeyOK(t, req[c])
  BY Calling DEF At, CallOK, Sound, SoundFor
<1> DEFINE row == [id |-> minted + 1, scope |-> t.auditScope, event |-> t.event,
                   items |-> t.refs, meta |-> t.auditMeta]
           out == AppliedWrite(t, minted + 1)
<1>1. idempotency' = idempotency \cup Recorded(t) /\ audit' = audit \cup {row}
  BY DEF ApplyCommit, AuditInserted, Recorded
<1>2. out.item = Ids(t.upsert) \cup {m.target : m \in t.merge} /\ out.audit = minted + 1
  BY DEF AppliedWrite
<1>3. out.item # {} => t.upsert # {} \/ t.merge # {}
  BY <1>2 DEF Ids
<1> HIDE DEF out, row
<1>4. \A p \in Recorded(t) : p.outcome = out /\ p.key \in t.key /\ p.scope = t.scope
  BY DEF Recorded, out
<1>5. ASSUME NEW k \in t.key
      PROVE  \E p \in Recorded(t) : p.scope = t.scope /\ p.key = k /\ p.outcome = out
  <2>1. [scope |-> t.scope, key |-> k, digest |-> t.digest, outcome |-> out] \in Recorded(t)
    BY DEF Recorded, out
  <2> QED
    BY <2>1
<1>6. ASSUME NEW p \in idempotency', p.outcome.item # {},
             NEW a \in audit', a.id = p.outcome.audit
      PROVE  a.event \in {"Admitted", "Merged"}
  <2>1. CASE p \in idempotency
    BY <1>1, <1>6, <2>1, OutcomeRowStays DEF RetryInv
  <2>2. CASE p \in Recorded(t)
    <3>1. a.id = minted + 1 /\ req[c].op = "remember" /\ (t.upsert # {} \/ t.merge # {})
      BY <1>0, <1>2, <1>3, <1>4, <1>6, <2>2 DEF KeyOK
    <3>2. row \in audit' /\ row.id = minted + 1 /\ row.event = t.event
      BY <1>1 DEF row
    <3>3. a = row
      BY <3>1, <3>2 DEF EIInv, IInv, PrimaryKeys
    <3> QED
      BY <1>0, <3>1, <3>2, <3>3 DEF KeyOK
  <2> QED
    BY <1>1, <2>1, <2>2
<1>7. ASSUME NEW o \in outcomes', o.item # {}
      PROVE  /\ o.action \in {"Retain", "Merge"}
             /\ \E p \in idempotency' : /\ p.scope = o.scope /\ p.key = o.key
                                       /\ p.outcome.item = o.item /\ p.outcome.audit = o.audit
  <2>1. CASE o \in outcomes
    BY <1>1, <1>7, <2>1 DEF RetryInv
  <2>2. CASE o \notin outcomes
    <3>1. req[c].op = "remember"
      BY <2>2
    <3>2. PICK k \in req[c].key :
            o = [scope |-> req[c].scope, key |-> k, body |-> req[c].body,
                 action |-> ActionOf(t.event), item |-> out.item, audit |-> out.audit]
      BY <2>2, <3>1 DEF Told, out
    <3>3. t.key = req[c].key /\ t.event \in {"Admitted", "Merged"}
      BY <1>0, <1>3, <1>7, <3>1, <3>2 DEF KeyOK
    <3> QED
      BY <1>0, <1>1, <1>5, <3>2, <3>3 DEF ActionOf
  <2> QED
    BY <2>1, <2>2
<1>8. \A d \in Callers : pc'[d] = "replay" => Replaying(d)
  <2>1. Others(c) /\ pc'[c] # "replay"
    BY ReturnIsElsewhere, OthersUntouched, GoesElsewhere DEF AfterCommit
  <2> QED
    BY <2>1, NoNewReplay
<1>9. \A d \in Callers : pc'[d] = "replay" =>
        \A x \in mem'[d].replayed, k \in req'[d].key :
          \E p \in idempotency' : p.scope = req'[d].scope /\ p.key = k /\ p.outcome = x
  BY <1>1, <1>8 DEF RetryInv, Replaying
<1> QED
  BY <1>6, <1>7, <1>9 DEF RetryInv

(* A replay remembers the outcome of the row its key found.                *)
LEMMA ReplayRetries ==
  ASSUME EIInv, EIInv', RetryInv, NEW c \in Callers, pc[c] = "apply",
         NEW t \in mem[c].txn, UNCHANGED tables, UNCHANGED <<req, outcomes>>,
         NEW p \in Prior(t), Keep(c, [mem[c] EXCEPT !.replayed = {p.outcome}]),
         Goto(c, "replay")
  PROVE  RetryInv'
<1>0. t.scope = req[c].scope /\ KeyOK(t, req[c]) /\ Asked(req[c]) /\ mem[c] \in Locals
  BY Calling DEF At, CallOK, Sound, SoundFor
<1>1. p \in idempotency /\ p.scope = req[c].scope /\ p.key \in t.key
  BY <1>0 DEF Prior
<1>2. \A k \in req[c].key : k = p.key
  BY <1>0, <1>1 DEF KeyOK, Asked, AtMostOne
<1>3. mem'[c].replayed = {p.outcome}
  BY <1>0 DEF Keep, EIInv, CallsOK, Locals
<1>4. Others(c)
  BY OthersUntouched
<1>5. idempotency' = idempotency /\ audit' = audit
  BY DEF tables
<1>6. ASSUME NEW d \in Callers, pc'[d] = "replay"
      PROVE  \A x \in mem'[d].replayed, k \in req'[d].key :
               \E q \in idempotency' : q.scope = req'[d].scope /\ q.key = k /\ q.outcome = x
  <2>1. CASE d = c
    BY <1>1, <1>2, <1>3, <1>5, <2>1
  <2>2. CASE d # c
    BY <1>4, <1>5, <1>6, <2>2 DEF Others, RetryInv
  <2> QED
    BY <2>1, <2>2
<1> QED
  BY <1>5, <1>6 DEF RetryInv

LEMMA TransactionRetries ==
  ASSUME EIInv, EIInv', RetryInv, NEW c \in Callers, DoTransaction(c)
  PROVE  RetryInv'
<1>0. PICK t \in mem[c].txn :
        /\ At(c, "apply")
        /\ Apply(t, minted + 1)
        /\ \/ /\ Commits(t)
              /\ AfterCommit(c)
              /\ IF req[c].op = "remember"
                 THEN Told(c, ActionOf(t.event), AppliedWrite(t, minted + 1))
                 ELSE UNCHANGED outcomes
           \/ /\ Replays(t)
              /\ \E p \in Prior(t) : Keep(c, [mem[c] EXCEPT !.replayed = {p.outcome}])
              /\ Goto(c, "replay")
              /\ UNCHANGED <<req, history>>
           \/ /\ ~Commits(t) /\ ~Replays(t)
              /\ Return(c)
              /\ UNCHANGED history
  BY DEF DoTransaction
<1>1. CASE Commits(t)
  <2>1. ~Replays(t)
    BY <1>1 DEF Commits, Replays
  <2> QED
    BY <1>0, <1>1, <2>1, CommitRetries DEF Apply, At
<1>2. CASE ~Commits(t) /\ Replays(t)
  <2>1. UNCHANGED tables /\ UNCHANGED <<req, outcomes>> /\ Goto(c, "replay") /\ pc[c] = "apply"
    BY <1>0, <1>2 DEF Apply, At, history
  <2>2. PICK p \in Prior(t) : Keep(c, [mem[c] EXCEPT !.replayed = {p.outcome}])
    BY <1>0, <1>2
  <2> QED
    BY <2>1, <2>2, ReplayRetries
<1>3. CASE ~Commits(t) /\ ~Replays(t)
  <2>1. idempotency' = idempotency /\ outcomes' = outcomes /\ audit \subseteq audit' /\ Return(c)
    BY <1>0, <1>3 DEF Apply, tables, history
  <2>2. \A d \in Callers : pc'[d] = "replay" => Replaying(d)
    BY <2>1, ReturnIsElsewhere, NoNewReplay
  <2> QED
    BY <2>1, <2>2, RetryStays
<1> QED
  BY <1>1, <1>2, <1>3

LEMMA EngineNextRetries ==
  ASSUME NoPurges, EIInv, EIInv', RetryInv, [EngineNext]_engineVars
  PROVE  RetryInv'
<1>1. CASE Tick \/ UNCHANGED engineVars
  BY <1>1 DEF Tick, engineVars, vars, tables, calls, history, RetryInv
<1>2. CASE \E c \in Callers : Begin(c) \/ Step(c) \/ Drop(c)
  BY <1>2, OtherStepsRetry, ReplayOutcomeRetries, TransactionRetries
<1> QED
  BY <1>1, <1>2 DEF EngineNext

(* Where no subject is purged, all the answers given to one key are those  *)
(* of one write, whoever retries, however the retries interleave and       *)
(* wherever they are dropped: what Engine::remember promises of a key.     *)
THEOREM RetriesAdmitOnceAlways ==
  ASSUME NoPurges
  PROVE  EngineSpec => []RetriesAdmitOnce
<1>1. EngineInit => RetryInv
  BY DEF EngineInit, RetryInv
<1>2. EIInv /\ EIInv' /\ RetryInv /\ [EngineNext]_engineVars => RetryInv'
  BY EngineNextRetries
<1>3. EIInv /\ RetryInv => RetriesAdmitOnce
  <2> SUFFICES ASSUME EIInv, RetryInv, NEW o \in outcomes, NEW p \in outcomes,
                      o.scope = p.scope, o.key = p.key, o.item # {}, p.item # {}
               PROVE  /\ o.item = p.item /\ o.audit = p.audit
                      /\ o.action = p.action \/ {o.action, p.action} = {"Merge", "Retain"}
    BY DEF RetriesAdmitOnce
  <2>1. PICK x \in idempotency : /\ x.scope = o.scope /\ x.key = o.key
                                /\ x.outcome.item = o.item /\ x.outcome.audit = o.audit
    BY DEF RetryInv
  <2>2. PICK y \in idempotency : /\ y.scope = p.scope /\ y.key = p.key
                                /\ y.outcome.item = p.item /\ y.outcome.audit = p.audit
    BY DEF RetryInv
  <2>3. x = y
    BY <2>1, <2>2 DEF EIInv, IInv, PrimaryKeys
  <2>4. o.action \in {"Retain", "Merge"} /\ p.action \in {"Retain", "Merge"}
    BY DEF RetryInv
  <2> QED
    BY <2>1, <2>2, <2>3, <2>4
<1> QED
  BY <1>1, <1>2, <1>3, EngineIInv, PTL DEF EngineSpec

=============================================================================
