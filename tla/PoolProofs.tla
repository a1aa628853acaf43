------------------------------ MODULE PoolProofs ------------------------------
(***************************************************************************)
(* Proofs about module TenantPool, for any number of tenants, calls, open  *)
(* connections and faults: writes are serial while their callers wait, and *)
(* a key is applied once even when they are not. The second half is about  *)
(* its connections.                                                        *)
(***************************************************************************)
EXTENDS TenantPool, FiniteSetTheorems, SequenceTheorems, TLAPS

-----------------------------------------------------------------------------
(* The inductive invariant.                                                *)

PoolTypes ==
  /\ op \in [Calls -> Op]
  /\ pc = [c \in Calls |-> pc[c]] /\ result = [c \in Calls |-> result[c]]
  /\ dropped \subseteq Calls
  /\ \A c \in Calls : pc[c] = "new" => c \notin dropped /\ result[c] = "none"
  /\ owner = [t \in Tenants |-> owner[t]]
  /\ committed \in [Tenants -> SUBSET Keys]
  /\ writes \in [Tenants -> [Keys -> Nat]]

Spawned(c) == pc[c] \notin {"new", "queued", "done"}

(* The task of a write whose caller still waits has the write lock.        *)
LockIsHeld == \A c \in Calls : Spawned(c) /\ op[c].writes /\ c \notin dropped => owner[T(c)] = c

(* The closure of a write is a write's.                                    *)
ClosuresWrite == \A c \in Calls : Writing(c) => op[c].writes

(* A key that is not in the table has not been applied.                    *)
KeysAreCounted ==
  \A t \in Tenants, k \in Keys : writes[t][k] = 0 \/ (writes[t][k] = 1 /\ k \in committed[t])

DropOf(t) == \E d \in dropped : T(d) = t /\ op[d].writes

(* A key committed between a lookup and its insert is a dropped write's.   *)
SlipsNeedDrop ==
  \A c \in Calls :
    result[c] = "conflict" \/ (pc[c] \in {"begin", "commit"} /\ KeyTaken(c)) => DropOf(T(c))

PoolIInv == PoolTypes /\ LockIsHeld /\ ClosuresWrite /\ KeysAreCounted /\ SlipsNeedDrop

LEMMA WritersAreAlone ==
  ASSUME PoolTypes, LockIsHeld, ClosuresWrite, NEW c \in Calls, NEW d \in Calls, c # d,
         Writing(c), Writing(d), T(c) = T(d)
  PROVE  c \in dropped \/ d \in dropped
<1>1. Spawned(c) /\ Spawned(d)
  BY DEF Spawned, Writing
<1>2. op[c].writes /\ op[d].writes
  BY DEF ClosuresWrite
<1> QED
  BY <1>1, <1>2 DEF LockIsHeld

-----------------------------------------------------------------------------
(* What every kind of step does to it.                                     *)

LEMMA LeavingKeepsOthers ==
  ASSUME PoolTypes, NEW c \in Calls, LeavesLock(c)
  PROVE  /\ owner' = [t \in Tenants |-> owner'[t]]
         /\ \A t \in Tenants : owner[t] # c => owner'[t] = owner[t]
<1>1. T(c) \in Tenants
  BY DEF PoolTypes, T, Op
<1> QED
  BY <1>1 DEF LeavesLock, PoolTypes

(* A task that ends leaves the others their lock.                          *)
LEMMA EndedKeeps ==
  ASSUME PoolIInv, NEW c \in Calls, NEW r,
         pc' = [pc EXCEPT ![c] = "done"], result' = [result EXCEPT ![c] = r],
         LeavesLock(c), UNCHANGED <<op, dropped>>,
         committed' \in [Tenants -> SUBSET Keys], writes' \in [Tenants -> [Keys -> Nat]]
  PROVE  PoolTypes' /\ LockIsHeld' /\ ClosuresWrite'
<1> USE DEF PoolIInv
<1>1. \A d \in Calls : d = c => pc'[d] = "done"
  BY DEF PoolTypes
<1>2. \A d \in Calls : d # c => pc'[d] = pc[d] /\ result'[d] = result[d]
  BY DEF PoolTypes
<1>3. \A u \in Tenants : owner[u] # c => owner'[u] = owner[u]
  BY LeavingKeepsOthers
<1>4. PoolTypes'
  <2>1. pc' = [d \in Calls |-> pc'[d]] /\ result' = [d \in Calls |-> result'[d]]
    BY DEF PoolTypes
  <2>2. owner' = [u \in Tenants |-> owner'[u]]
    BY LeavingKeepsOthers
  <2>3. \A d \in Calls : pc'[d] = "new" => d \notin dropped /\ result'[d] = "none"
    BY <1>1, <1>2 DEF PoolTypes
  <2> QED
    BY <2>1, <2>2, <2>3 DEF PoolTypes
<1>5. LockIsHeld'
  <2> SUFFICES ASSUME NEW d \in Calls, Spawned(d)', op[d].writes, d \notin dropped
               PROVE  owner'[T(d)] = d
    BY DEF LockIsHeld, T
  <2>1. d # c /\ Spawned(d)
    BY <1>1, <1>2 DEF Spawned
  <2>2. owner[T(d)] = d /\ T(d) \in Tenants
    BY <2>1 DEF LockIsHeld, T, PoolTypes, Op
  <2> QED
    BY <2>1, <2>2, <1>3
<1>6. ClosuresWrite'
  BY <1>1, <1>2 DEF ClosuresWrite, Writing
<1> QED
  BY <1>4, <1>5, <1>6

(* A task that ends without having met a key it had not found.             *)
LEMMA EndKeeps ==
  ASSUME PoolIInv, NEW c \in Calls, NEW r, r # "conflict", Finish(c, r),
         UNCHANGED <<committed, writes>>
  PROVE  PoolIInv'
<1> USE DEF PoolIInv
<1>1. /\ pc' = [pc EXCEPT ![c] = "done"] /\ result' = [result EXCEPT ![c] = r]
      /\ LeavesLock(c) /\ UNCHANGED <<op, dropped, committed, writes>>
  BY DEF Finish, Goto
<1>2. PoolTypes' /\ LockIsHeld' /\ ClosuresWrite'
  BY <1>1, EndedKeeps DEF PoolTypes
<1>3. KeysAreCounted'
  BY <1>1 DEF KeysAreCounted
<1>4. SlipsNeedDrop'
  BY <1>1 DEF SlipsNeedDrop, KeyTaken, DropOf, T, PoolTypes
<1> QED
  BY <1>2, <1>3, <1>4

(* A task that goes on, at a place of its kind.                            *)
LEMMA StepKeeps ==
  ASSUME PoolIInv, NEW c \in Calls, NEW p, Goto(c, p), Continue,
         UNCHANGED <<committed, writes>>,
         pc[c] # "new", p # "new",
         op[c].writes /\ c \notin dropped => owner[T(c)] = c,
         p \in {"check", "begin", "commit"} => op[c].writes,
         p = "begin" => ~KeyTaken(c),
         p = "commit" => pc[c] = "begin"
  PROVE  PoolIInv'
<1> USE DEF PoolIInv
<1>1. /\ pc' = [pc EXCEPT ![c] = p]
      /\ UNCHANGED <<owner, op, dropped, result, committed, writes>>
  BY DEF Goto, Continue, lock
<1>2. pc'[c] = p /\ \A d \in Calls : d # c => pc'[d] = pc[d]
  BY <1>1 DEF PoolTypes
<1>3. PoolTypes'
  BY <1>1 DEF PoolTypes
<1>4. LockIsHeld'
  BY <1>1, <1>2 DEF LockIsHeld, Spawned, T
<1>5. ClosuresWrite'
  BY <1>1, <1>2 DEF ClosuresWrite, Writing
<1>6. KeysAreCounted'
  BY <1>1 DEF KeysAreCounted
<1>7. SlipsNeedDrop'
  BY <1>1, <1>2 DEF SlipsNeedDrop, KeyTaken, DropOf, T
<1> QED
  BY <1>3, <1>4, <1>5, <1>6, <1>7

LEMMA CallKeeps ==
  ASSUME PoolIInv, NEW c \in Calls, Call(c)
  PROVE  PoolIInv'
<1> USE DEF PoolIInv
<1>1. PICK o \in Ops :
        /\ op' = [op EXCEPT ![c] = o]
        /\ IF ~TakesLock(o) THEN Goto(c, "lookup") /\ UNCHANGED lock
           ELSE /\ Goto(c, "queued")
                /\ IF owner[o.tenant] = NoCall
                   THEN owner' = [owner EXCEPT ![o.tenant] = c] /\ UNCHANGED queue
                   ELSE queue' = [queue EXCEPT ![o.tenant] = Append(@, c)] /\ UNCHANGED owner
  BY DEF Call
<1>2. pc[c] = "new" /\ UNCHANGED <<committed, writes, dropped, result>>
  BY DEF Call, files
<1>3. o \in Op
  BY PoolAssumption
<1>4. /\ pc' = [d \in Calls |-> pc'[d]] /\ pc'[c] \in {"lookup", "queued"}
      /\ (pc'[c] = "lookup" => ~o.writes)
      /\ \A d \in Calls : d # c => pc'[d] = pc[d]
  <2>1. CASE TakesLock(o)
    <3>1. pc' = [pc EXCEPT ![c] = "queued"]
      BY <1>1, <2>1 DEF Goto
    <3> QED
      BY <3>1 DEF PoolTypes
  <2>2. CASE ~TakesLock(o)
    <3>1. pc' = [pc EXCEPT ![c] = "lookup"]
      BY <1>1, <2>2 DEF Goto
    <3> QED
      BY <3>1, <2>2 DEF PoolTypes, TakesLock
  <2> QED
    BY <2>1, <2>2
<1>5. op'[c] = o /\ \A d \in Calls : d # c => op'[d] = op[d]
  BY <1>1 DEF PoolTypes
<1>6. owner' = [t \in Tenants |-> owner'[t]]
  BY <1>1 DEF PoolTypes, lock
<1>7. c \notin dropped
  BY <1>2 DEF PoolTypes
<1>8. PoolTypes'
  <2>1. op' \in [Calls -> Op]
    BY <1>1, <1>3 DEF PoolTypes
  <2> QED
    BY <2>1, <1>2, <1>4, <1>6, <1>7 DEF PoolTypes
<1>9. LockIsHeld'
  <2> SUFFICES ASSUME NEW d \in Calls, Spawned(d)', op'[d].writes, d \notin dropped
               PROVE  owner'[op'[d].tenant] = d
    BY <1>2 DEF LockIsHeld, T
  <2>1. d # c
    BY <1>4, <1>5 DEF Spawned
  <2>2. owner[op[d].tenant] = d /\ op[d].tenant \in Tenants /\ d # NoCall
    BY <2>1, <1>4, <1>5 DEF LockIsHeld, Spawned, T, PoolTypes, Op, Calls, NoCall
  <2>3. owner'[op[d].tenant] = owner[op[d].tenant]
    BY <2>2, <1>1, <1>3 DEF PoolTypes, lock, Op
  <2> QED
    BY <2>1, <2>2, <2>3, <1>5
<1>10. ClosuresWrite'
  BY <1>4, <1>5 DEF ClosuresWrite, Writing
<1>11. KeysAreCounted'
  BY <1>2 DEF KeysAreCounted
<1>12. SlipsNeedDrop'
  <2> SUFFICES ASSUME NEW d \in Calls,
                      result'[d] = "conflict" \/ (pc'[d] \in {"begin", "commit"} /\ KeyTaken(d)')
               PROVE  DropOf(T(d))'
    BY DEF SlipsNeedDrop
  <2>1. CASE d = c
    <3>1. result[c] = "none" /\ result' = result
      BY <1>2 DEF PoolTypes
    <3> QED
      BY <2>1, <3>1, <1>4
  <2>2. CASE d # c
    <3>1. DropOf(T(d)) /\ T(d)' = T(d)
      BY <2>2, <1>2, <1>4, <1>5 DEF SlipsNeedDrop, KeyTaken, T
    <3>2. \A e \in dropped : e # c /\ e \in Calls
      BY <1>7 DEF PoolTypes
    <3> QED
      BY <3>1, <3>2, <1>2, <1>5 DEF DropOf, T
  <2> QED
    BY <2>1, <2>2
<1> QED
  BY <1>8, <1>9, <1>10, <1>11, <1>12

LEMMA DropKeeps ==
  ASSUME PoolIInv, NEW c \in Calls, DropFuture(c)
  PROVE  PoolIInv'
<1> USE DEF PoolIInv
<1>1. /\ pc[c] # "new" /\ dropped' = dropped \cup {c}
      /\ LeavesLock(c) /\ UNCHANGED <<op, result, committed, writes>>
  BY DEF DropFuture, Running, files
<1>2. /\ pc' = [d \in Calls |-> pc'[d]]
      /\ \A d \in Calls : pc'[d] = pc[d] \/ pc'[d] = "done"
  <2>1. pc' = [pc EXCEPT ![c] = "done"] \/ pc' = pc
    BY DEF DropFuture, Goto
  <2> QED
    BY <2>1 DEF PoolTypes
<1>3. \A t \in Tenants : owner[t] # c => owner'[t] = owner[t]
  BY <1>1, LeavingKeepsOthers
<1>4. PoolTypes'
  <2>1. owner' = [t \in Tenants |-> owner'[t]]
    BY <1>1, LeavingKeepsOthers
  <2>2. pc'[c] # "new"
    BY <1>1, <1>2
  <2>3. \A d \in Calls : pc'[d] = "new" => d \notin dropped' /\ result'[d] = "none"
    BY <1>1, <1>2, <2>2 DEF PoolTypes
  <2> QED
    BY <1>1, <1>2, <2>1, <2>3 DEF PoolTypes
<1>5. LockIsHeld'
  <2> SUFFICES ASSUME NEW d \in Calls, Spawned(d)', op[d].writes, d \notin dropped'
               PROVE  owner'[T(d)] = d
    BY <1>1 DEF LockIsHeld, T
  <2>1. d # c /\ d \notin dropped /\ Spawned(d)
    BY <1>1, <1>2 DEF Spawned
  <2>2. owner[T(d)] = d /\ T(d) \in Tenants
    BY <2>1 DEF LockIsHeld, T, PoolTypes, Op
  <2> QED
    BY <2>1, <2>2, <1>3
<1>6. ClosuresWrite'
  BY <1>1, <1>2 DEF ClosuresWrite, Writing
<1>7. KeysAreCounted'
  BY <1>1 DEF KeysAreCounted
<1>8. SlipsNeedDrop'
  BY <1>1, <1>2 DEF SlipsNeedDrop, KeyTaken, DropOf, T
<1> QED
  BY <1>4, <1>5, <1>6, <1>7, <1>8

(* The one step that applies a key.                                        *)
LEMMA CommitKeeps ==
  ASSUME PoolIInv, NEW c \in Calls, Commit(c)
  PROVE  PoolIInv'
<1> USE DEF PoolIInv
<1> DEFINE t == T(c)
           key == op[c].key
<1>1. pc[c] = "commit" /\ t \in Tenants /\ key \subseteq Keys /\ op[c].writes
  <2>1. pc[c] = "commit"
    BY DEF Commit
  <2>2. t \in Tenants /\ key \subseteq Keys
    BY SMTT(20) DEF T, PoolTypes, Op, AtMostOneKey
  <2>3. op[c].writes
    BY <2>1 DEF ClosuresWrite, Writing
  <2> QED
    BY <2>1, <2>2, <2>3
<1>2. CASE KeyTaken(c)
  <2>1. /\ pc' = [pc EXCEPT ![c] = "done"] /\ result' = [result EXCEPT ![c] = "conflict"]
        /\ LeavesLock(c) /\ UNCHANGED <<op, dropped, committed, writes>>
    BY <1>2 DEF Commit, Finish, Goto
  <2>2. DropOf(T(c))
    BY <1>1, <1>2 DEF SlipsNeedDrop
  <2>3. /\ PoolTypes' /\ LockIsHeld' /\ ClosuresWrite'
    <3>1. committed' \in [Tenants -> SUBSET Keys] /\ writes' \in [Tenants -> [Keys -> Nat]]
      BY <2>1 DEF PoolTypes
    <3> QED
      BY <2>1, <3>1, EndedKeeps
  <2>4. KeysAreCounted'
    BY <2>1 DEF KeysAreCounted
  <2>5. SlipsNeedDrop'
    BY <2>1, <2>2 DEF SlipsNeedDrop, KeyTaken, DropOf, T, PoolTypes
  <2> QED
    BY <2>3, <2>4, <2>5
<1>3. CASE ~KeyTaken(c)
  <2>1. /\ pc' = [pc EXCEPT ![c] = "done"] /\ result' = [result EXCEPT ![c] = "ok"]
        /\ LeavesLock(c) /\ UNCHANGED <<op, dropped>>
        /\ committed' = [committed EXCEPT ![t] = @ \cup key]
        /\ writes' = [writes EXCEPT ![t] = [k \in Keys |-> @[k] + Cardinality({k} \cap key)]]
    BY <1>3 DEF Commit, Finish, Goto
  <2>2. \A k \in Keys : Cardinality({k} \cap key) = IF k \in key THEN 1 ELSE 0
    <3> SUFFICES ASSUME NEW k \in Keys
                 PROVE  Cardinality({k} \cap key) = IF k \in key THEN 1 ELSE 0
      OBVIOUS
    <3>1. CASE k \in key
      <4>1. {k} \cap key = {k}
        BY <3>1
      <4> QED
        BY <4>1, <3>1, FS_Singleton
    <3>2. CASE k \notin key
      <4>1. {k} \cap key = {}
        BY <3>2
      <4> QED
        BY <4>1, <3>2, FS_EmptySet
    <3> QED
      BY <3>1, <3>2
  <2>3. \A k \in Keys : k \in key => k \notin committed[t]
    BY <1>3 DEF KeyTaken
  <2>4. \A k \in Keys : writes'[t][k] = writes[t][k] + (IF k \in key THEN 1 ELSE 0)
    BY <1>1, <2>1, <2>2 DEF PoolTypes
  <2>5. /\ committed' \in [Tenants -> SUBSET Keys] /\ writes' \in [Tenants -> [Keys -> Nat]]
    <3>1. [k \in Keys |-> writes[t][k] + Cardinality({k} \cap key)] \in [Keys -> Nat]
      BY <1>1, <2>2 DEF PoolTypes
    <3> QED
      BY <1>1, <2>1, <3>1 DEF PoolTypes
  <2>6. /\ PoolTypes' /\ LockIsHeld' /\ ClosuresWrite'
    BY <2>1, <2>5, EndedKeeps
  <2>7. KeysAreCounted'
    <3> SUFFICES ASSUME NEW u \in Tenants, NEW k \in Keys
                 PROVE  writes'[u][k] = 0 \/ (writes'[u][k] = 1 /\ k \in committed'[u])
      BY DEF KeysAreCounted
    <3>1. CASE u # t
      BY <3>1, <1>1, <2>1 DEF KeysAreCounted, PoolTypes
    <3>2. CASE u = t
      <4>1. committed'[t] = committed[t] \cup key
        BY <1>1, <2>1 DEF PoolTypes
      <4>2. writes[t][k] = 0 \/ (writes[t][k] = 1 /\ k \in committed[t])
        BY <1>1 DEF KeysAreCounted
      <4>3. CASE k \in key
        <5>1. writes[t][k] = 0 /\ writes'[t][k] = writes[t][k] + 1
          BY <4>2, <4>3, <2>3, <2>4
        <5> QED
          BY <5>1, <4>1, <4>3, <3>2
      <4>4. CASE k \notin key
        <5>1. writes'[t][k] = writes[t][k] + 0 /\ writes[t][k] \in Nat
          BY <4>4, <2>4, <1>1 DEF PoolTypes
        <5> QED
          BY <5>1, <4>1, <4>2, <3>2
      <4> QED
        BY <4>3, <4>4
    <3> QED
      BY <3>1, <3>2
  <2>8. SlipsNeedDrop'
    <3> SUFFICES ASSUME NEW d \in Calls,
                        result'[d] = "conflict" \/ (pc'[d] \in {"begin", "commit"} /\ KeyTaken(d)')
                 PROVE  DropOf(T(d))
      BY <2>1 DEF SlipsNeedDrop, DropOf, T
    <3>1. d # c /\ pc'[d] = pc[d] /\ result'[d] = result[d]
      BY <2>1 DEF PoolTypes
    <3>2. CASE result[d] = "conflict"
      BY <3>2 DEF SlipsNeedDrop
    <3>3. CASE result[d] # "conflict" /\ KeyTaken(d)
      BY <3>1, <3>3 DEF SlipsNeedDrop
    <3>4. CASE result[d] # "conflict" /\ ~KeyTaken(d)
      <4>1. pc[d] \in {"begin", "commit"} /\ KeyTaken(d)'
        BY <3>1, <3>4
      <4>2. T(d) = t
        BY <4>1, <3>4, <2>1, <1>1 DEF KeyTaken, T, PoolTypes, Op
      <4>3. Writing(c) /\ Writing(d)
        BY <4>1, <1>1 DEF Writing
      <4>4. c \in dropped \/ d \in dropped
        BY <4>2, <4>3, <3>1, WritersAreAlone
      <4>5. op[d].writes
        BY <4>3 DEF ClosuresWrite
      <4> QED
        BY <4>2, <4>4, <4>5, <1>1 DEF DropOf
    <3> QED
      BY <3>2, <3>3, <3>4
  <2> QED
    BY <2>6, <2>7, <2>8
<1> QED
  BY <1>2, <1>3

-----------------------------------------------------------------------------
(* Every step.                                                             *)

LEMMA WorkKeeps ==
  ASSUME PoolIInv, NEW c \in Calls, Work(c)
  PROVE  PoolIInv'
<1> USE DEF PoolIInv
<1>0. Spawned(c) => (op[c].writes /\ c \notin dropped => owner[T(c)] = c)
  BY DEF LockIsHeld
<1>1. CASE Acquire(c)
  BY <1>1, StepKeeps DEF Acquire, files
<1>2. CASE LookUp(c)
  <2>1. pc[c] = "lookup" /\ Continue /\ UNCHANGED <<committed, writes>>
    BY <1>2 DEF LookUp, files
  <2>2. Goto(c, "open") \/ Goto(c, "mutex")
    BY <1>2 DEF LookUp
  <2> QED
    BY <2>1, <2>2, <1>0, StepKeeps DEF Spawned
<1>3. CASE Open(c)
  <2>1. pc[c] = "open" /\ UNCHANGED <<committed, writes>>
    BY <1>3 DEF Open
  <2>2. Finish(c, "busy") \/ (Goto(c, "publish") /\ Continue)
    BY <1>3 DEF Open
  <2>3. CASE Finish(c, "busy")
    BY <2>1, <2>3, EndKeeps
  <2>4. CASE Goto(c, "publish") /\ Continue
    BY <2>1, <2>4, <1>0, StepKeeps DEF Spawned
  <2> QED
    BY <2>2, <2>3, <2>4
<1>4. CASE Publish(c)
  <2>1. pc[c] = "publish" /\ Goto(c, "mutex") /\ Continue /\ UNCHANGED <<committed, writes>>
    BY <1>4 DEF Publish, files
  <2> QED
    BY <2>1, <1>0, StepKeeps DEF Spawned
<1>5. CASE LockMutex(c)
  <2>1. pc[c] = "mutex" /\ UNCHANGED <<committed, writes>>
    BY <1>5 DEF LockMutex, files
  <2>2. op[c].writes \in BOOLEAN
    BY DEF PoolTypes, Op
  <2>3. CASE Finish(c, "poisoned")
    BY <2>1, <2>3, EndKeeps
  <2>4. CASE Goto(c, "heal") /\ Continue
    BY <2>1, <2>4, <1>0, StepKeeps DEF Spawned
  <2>5. CASE ~op[c].writes /\ Goto(c, "read") /\ Continue
    BY <2>1, <2>5, <1>0, StepKeeps DEF Spawned
  <2>6. CASE op[c].writes /\ op[c].key = {} /\ Goto(c, "begin") /\ Continue
    <3>1. ~KeyTaken(c)
      BY <2>6 DEF KeyTaken
    <3> QED
      BY <2>1, <2>6, <3>1, <1>0, StepKeeps DEF Spawned
  <2>7. CASE op[c].writes /\ Goto(c, "check") /\ Continue
    BY <2>1, <2>7, <1>0, StepKeeps DEF Spawned
  <2> QED
    BY <1>5, <2>2, <2>3, <2>4, <2>5, <2>6, <2>7 DEF LockMutex
<1>6. CASE Heal(c)
  <2>1. pc[c] = "heal" /\ Goto(c, "lookup") /\ Continue /\ UNCHANGED <<committed, writes>>
    BY <1>6 DEF Heal, files
  <2> QED
    BY <2>1, <1>0, StepKeeps DEF Spawned
<1>7. CASE Read(c)
  BY <1>7, EndKeeps DEF Read, files
<1>8. CASE LookUpKey(c)
  <2>1. pc[c] = "check" /\ UNCHANGED <<committed, writes>> /\ op[c].writes
    BY <1>8 DEF LookUpKey, files, ClosuresWrite, Writing
  <2>2. CASE op[c].key \subseteq committed[T(c)]
    <3>1. Finish(c, "replayed")
      BY <1>8, <2>2 DEF LookUpKey
    <3> QED
      BY <2>1, <3>1, EndKeeps
  <2>3. CASE ~(op[c].key \subseteq committed[T(c)])
    <3>1. Goto(c, "begin") /\ Continue
      BY <1>8, <2>3 DEF LookUpKey
    <3>2. op[c].key \in AtMostOneKey
      BY DEF PoolTypes, Op
    <3>3. ~KeyTaken(c)
      BY <2>3, <3>2 DEF KeyTaken, AtMostOneKey
    <3> QED
      BY <2>1, <3>1, <3>3, <1>0, StepKeeps DEF Spawned
  <2> QED
    BY <2>2, <2>3
<1>9. CASE BeginImmediate(c)
  <2>1. pc[c] = "begin" /\ UNCHANGED <<committed, writes>> /\ op[c].writes
    BY <1>9 DEF BeginImmediate, ClosuresWrite, Writing
  <2>2. Finish(c, "busy") \/ (Goto(c, "commit") /\ Continue)
    BY <1>9 DEF BeginImmediate
  <2>3. CASE Finish(c, "busy")
    BY <2>1, <2>3, EndKeeps
  <2>4. CASE Goto(c, "commit") /\ Continue
    BY <2>1, <2>4, <1>0, StepKeeps DEF Spawned
  <2> QED
    BY <2>2, <2>3, <2>4
<1>10. CASE Commit(c)
  BY <1>10, CommitKeeps
<1> QED
  BY <1>1, <1>2, <1>3, <1>4, <1>5, <1>6, <1>7, <1>8, <1>9, <1>10 DEF Work

LEMMA StandingKeeps ==
  ASSUME PoolIInv, UNCHANGED <<pc, op, dropped, result, owner, committed, writes>>
  PROVE  PoolIInv'
<1> USE DEF PoolIInv
<1>1. PoolTypes' /\ KeysAreCounted'
  BY DEF PoolTypes, KeysAreCounted
<1>2. LockIsHeld' /\ ClosuresWrite'
  BY DEF LockIsHeld, ClosuresWrite, Spawned, Writing, T
<1>3. SlipsNeedDrop'
  BY DEF SlipsNeedDrop, KeyTaken, DropOf, T
<1> QED
  BY <1>1, <1>2, <1>3

LEMMA PoolInitKeeps == PoolInit => PoolIInv
<1> SUFFICES ASSUME PoolInit PROVE PoolIInv
  OBVIOUS
<1>1. NoOp \in Op
  BY PoolAssumption DEF NoOp, Op, AtMostOneKey
<1>2. PoolTypes
  BY <1>1 DEF PoolInit, PoolTypes
<1>3. LockIsHeld /\ ClosuresWrite /\ KeysAreCounted /\ SlipsNeedDrop
  BY DEF PoolInit, LockIsHeld, ClosuresWrite, KeysAreCounted, SlipsNeedDrop, Spawned, Writing
<1> QED
  BY <1>2, <1>3 DEF PoolIInv

LEMMA PoolNextKeeps == PoolIInv /\ [PoolNext]_poolVars => PoolIInv'
<1> SUFFICES ASSUME PoolIInv, [PoolNext]_poolVars PROVE PoolIInv'
  OBVIOUS
<1>1. CASE Forget
  BY <1>1, StandingKeeps DEF Forget, files, lock
<1>2. ASSUME NEW c \in Calls, DropFuture(c) PROVE PoolIInv'
  BY <1>2, DropKeeps
<1>3. ASSUME NEW c \in Calls, Panic(c) PROVE PoolIInv'
  BY <1>3, EndKeeps DEF Panic
<1>4. ASSUME NEW c \in Calls, Call(c) PROVE PoolIInv'
  BY <1>4, CallKeeps
<1>5. ASSUME NEW c \in Calls, Work(c) PROVE PoolIInv'
  BY <1>5, WorkKeeps
<1>6. CASE UNCHANGED poolVars
  BY <1>6, StandingKeeps DEF poolVars, files, lock
<1> QED
  BY <1>1, <1>2, <1>3, <1>4, <1>5, <1>6 DEF PoolNext

-----------------------------------------------------------------------------
(* The theorems.                                                           *)

(* The lock is held from the call to the answer, a closure of a write is a *)
(* write's, and the table of keys says what has been applied.              *)
THEOREM PoolInvariant == PoolSpec => []PoolIInv
BY PoolInitKeeps, PoolNextKeeps, PTL DEF PoolSpec

(* Of the writes of a tenant whose callers still wait, one at a time is in *)
(* its closure, whatever the pool evicts, panics or reopens meanwhile.     *)
THEOREM WritesAreSerialAlways == PoolSpec => []WritesAreSerial
<1>1. PoolIInv => WritesAreSerial
  BY WritersAreAlone DEF PoolIInv, WritesAreSerial
<1> QED
  BY <1>1, PoolInvariant, PTL

(* A key is applied at most once, also when a dropped write and its retry  *)
(* are in their closures together.                                         *)
THEOREM KeysApplyOnceAlways == PoolSpec => []KeysApplyOnce
<1>1. PoolIInv => KeysApplyOnce
  BY DEF PoolIInv, KeysAreCounted, KeysApplyOnce
<1> QED
  BY <1>1, PoolInvariant, PTL

(* A caller meets a conflict only where a write of its tenant was dropped. *)
THEOREM ConflictNeedsDropAlways == PoolSpec => []ConflictNeedsDrop
<1>1. PoolIInv => ConflictNeedsDrop
  BY DEF PoolIInv, SlipsNeedDrop, ConflictNeedsDrop, DropOf
<1> QED
  BY <1>1, PoolInvariant, PTL

-----------------------------------------------------------------------------
(* The connections, and the inductive invariant about them: the pool stays *)
(* bounded, no closure meets a poisoned connection or another's open       *)
(* transaction, and a call nobody overlaps never pays for an earlier panic.*)

Entries == [tenant : Tenants, conn : Conns]

(* The cache keeps one connection of a tenant, and no more than it may.    *)
CacheIsOK(s) ==
  /\ s \in Seq(Entries) /\ Len(s) =< MaxOpen
  /\ \A i, j \in 1..Len(s) : s[i].tenant = s[j].tenant => i = j

Inside == {"read", "check", "begin", "commit"}
Holding == Inside \cup {"publish", "mutex", "heal"}

(* A task has a connection from opening or finding one to its end, and its *)
(* mutex while the closure runs.                                           *)
HandlesOK ==
  /\ handle \in [Calls -> Conns \cup {NoConn}]
  /\ poisoned \subseteq Conns /\ inside \subseteq Calls /\ healing \subseteq Calls
  /\ writer \in [Tenants -> Conns \cup {NoConn}]
  /\ alone \in [Calls -> BOOLEAN]
  /\ \A c \in Calls :
       /\ handle[c] # NoConn <=> pc[c] \in Holding
       /\ c \in inside <=> pc[c] \in Inside
       /\ c \in healing => pc[c] \notin {"new", "queued", "heal"}

(* A mutex has one holder, and one that is poisoned none.                  *)
MutexesOK ==
  /\ \A c, d \in inside : handle[c] = handle[d] => c = d
  /\ \A c \in inside : handle[c] \notin poisoned

(* Whoever refers to a connection is of the tenant whose file it is.       *)
FilesOK ==
  /\ \A e, f \in ToSet(cache) : e.conn = f.conn => e.tenant = f.tenant
  /\ \A e \in ToSet(cache), c \in Calls : handle[c] = e.conn => T(c) = e.tenant
  /\ \A c, d \in Calls : handle[c] = handle[d] /\ handle[c] # NoConn => T(c) = T(d)
  /\ \A t \in Tenants, e \in ToSet(cache) : writer[t] = e.conn => e.tenant = t
  /\ \A t \in Tenants, c \in Calls : writer[t] = handle[c] /\ handle[c] # NoConn => T(c) = t

(* A transaction is open in a connection only where a closure is about to  *)
(* commit it, or panicked.                                                 *)
WritersOK ==
  \A t \in Tenants : writer[t] # NoConn =>
    \/ writer[t] \in poisoned
    \/ \E d \in inside : pc[d] = "commit" /\ handle[d] = writer[t] /\ T(d) = t

(* A call nobody of its tenant overlaps finds what it left itself.         *)
Lone(c) == alone[c] /\ Running(c)

AloneOK ==
  \A c \in Calls :
    /\ alone[c] => result[c] \notin {"busy", "poisoned", "conflict"}
    /\ Lone(c) =>
         /\ \A d \in Calls \ {c} : T(d) = T(c) => ~Running(d)
         /\ pc[c] \in {"open", "publish"} \/ (pc[c] = "lookup" /\ c \in healing) =>
              Cached(T(c)) = {}
         /\ pc[c] \in Inside \cup {"mutex"} => \A e \in Cached(T(c)) : e.conn = handle[c]
         /\ pc[c] = "publish" \/ (pc[c] = "mutex" /\ c \in healing) => handle[c] \notin poisoned
         /\ pc[c] \in {"begin", "commit"} => ~KeyTaken(c)

ConnInv ==
  /\ CacheIsOK(cache) /\ HandlesOK /\ MutexesOK /\ FilesOK /\ WritersOK /\ AloneOK

-----------------------------------------------------------------------------
(* The cache as a set of entries.                                          *)

LEMMA EntriesOf ==
  ASSUME NEW S, NEW s \in Seq(S)
  PROVE  /\ Len(s) \in Nat /\ DOMAIN s = 1..Len(s)
         /\ ToSet(s) = {s[i] : i \in 1..Len(s)}
         /\ \A i \in 1..Len(s) : s[i] \in S
BY LenProperties, ElementOfSeq DEF ToSet

(* What is popped leaves the others in place.                              *)
LEMMA RemovedAt ==
  ASSUME NEW s, CacheIsOK(s), NEW k \in 1..Len(s)
  PROVE  /\ CacheIsOK(RemoveAt(s, k)) /\ Len(RemoveAt(s, k)) = Len(s) - 1
         /\ ToSet(RemoveAt(s, k)) = {e \in ToSet(s) : e.tenant # s[k].tenant}
<1> DEFINE a == SubSeq(s, 1, k - 1)
           b == SubSeq(s, k + 1, Len(s))
           r == a \o b
<1>1. /\ s \in Seq(Entries) /\ Len(s) =< MaxOpen /\ MaxOpen \in Nat
      /\ \A i, j \in 1..Len(s) : s[i].tenant = s[j].tenant => i = j
  BY PoolAssumption DEF CacheIsOK
<1>2. /\ Len(s) \in Nat /\ \A i \in 1..Len(s) : s[i] \in Entries
      /\ ToSet(s) = {s[i] : i \in 1..Len(s)}
  BY <1>1, EntriesOf
<1>3. /\ a \in Seq(Entries) /\ Len(a) = k - 1 /\ \A i \in 1..k - 1 : a[i] = s[i]
  <2>1. /\ a \in Seq(Entries) /\ Len(a) = IF 1 <= k - 1 THEN (k - 1) - 1 + 1 ELSE 0
        /\ \A i \in 1..(k - 1) - 1 + 1 : a[i] = s[1 + i - 1]
    <3>1. 1 \in Int /\ k - 1 \in Int /\ \A i \in 1..k - 1 : s[i] \in Entries
      BY <1>2
    <3> HIDE DEF a
    <3> QED
      BY <3>1, SubSeqProperties DEF a
  <2> HIDE DEF a
  <2> QED
    BY <2>1
<1>4. /\ b \in Seq(Entries) /\ Len(b) = Len(s) - k /\ \A i \in 1..Len(s) - k : b[i] = s[k + i]
  <2>1. /\ b \in Seq(Entries) /\ Len(b) = IF k + 1 <= Len(s) THEN Len(s) - (k + 1) + 1 ELSE 0
        /\ \A i \in 1..Len(s) - (k + 1) + 1 : b[i] = s[(k + 1) + i - 1]
    <3>1. k + 1 \in Int /\ Len(s) \in Int /\ \A i \in k + 1..Len(s) : s[i] \in Entries
      BY <1>2
    <3> HIDE DEF b
    <3> QED
      BY <3>1, SubSeqProperties DEF b
  <2> HIDE DEF b
  <2> QED
    BY <2>1, <1>2
<1> HIDE DEF a, b
<1>5. /\ r \in Seq(Entries) /\ Len(r) = Len(s) - 1
      /\ \A i \in 1..Len(s) - 1 : r[i] = IF i < k THEN s[i] ELSE s[i + 1]
  <2>1. /\ r \in Seq(Entries) /\ Len(r) = Len(a) + Len(b)
        /\ \A i \in 1..Len(a) + Len(b) : r[i] = IF i <= Len(a) THEN a[i] ELSE b[i - Len(a)]
    BY <1>3, <1>4, ConcatProperties
  <2> HIDE DEF r
  <2>2. Len(a) = k - 1 /\ Len(b) = Len(s) - k /\ Len(s) \in Nat /\ k \in 1..Len(s)
    BY <1>2, <1>3, <1>4
  <2>3. Len(a) + Len(b) = Len(s) - 1
    BY <2>2
  <2>4. ASSUME NEW i \in 1..Len(s) - 1 PROVE r[i] = IF i < k THEN s[i] ELSE s[i + 1]
    <3>1. r[i] = IF i <= Len(a) THEN a[i] ELSE b[i - Len(a)]
      BY <2>1, <2>3
    <3>2. CASE i < k
      <4>1. i <= Len(a) /\ i \in 1..k - 1
        BY <2>2, <3>2
      <4> QED
        BY <4>1, <3>1, <3>2, <1>3
    <3>3. CASE ~(i < k)
      <4>1. ~(i <= Len(a)) /\ i - Len(a) \in 1..Len(s) - k /\ k + (i - Len(a)) = i + 1
        BY <2>2, <3>3
      <4> QED
        BY <4>1, <3>1, <3>3, <1>4
    <3> QED
      BY <3>2, <3>3
  <2> QED
    BY <2>1, <2>3, <2>4
<1>6. r = RemoveAt(s, k)
  BY DEF RemoveAt, a, b
<1> HIDE DEF r
<1>7. ToSet(r) = {r[i] : i \in 1..Len(r)}
  BY <1>5, EntriesOf
<1>8. CacheIsOK(r)
  BY <1>1, <1>2, <1>5 DEF CacheIsOK
<1>9. ToSet(r) = {e \in ToSet(s) : e.tenant # s[k].tenant}
  <2>1. ASSUME NEW e \in ToSet(r) PROVE e \in ToSet(s) /\ e.tenant # s[k].tenant
    <3>1. PICK i \in 1..Len(s) - 1 : e = r[i]
      BY <1>5, <1>7, <2>1
    <3>2. PICK j \in 1..Len(s) : e = s[j] /\ j # k
      BY <3>1, <1>5, <1>2
    <3> QED
      BY <3>2, <1>1, <1>2
  <2>2. ASSUME NEW e \in ToSet(s), e.tenant # s[k].tenant PROVE e \in ToSet(r)
    <3>1. PICK j \in 1..Len(s) : e = s[j]
      BY <1>2, <2>2
    <3>2. j # k
      BY <3>1, <2>2
    <3>3. PICK i \in 1..Len(s) - 1 : r[i] = s[j]
      <4>1. CASE j < k
        <5>1. j \in 1..Len(s) - 1 /\ r[j] = s[j]
          BY <4>1, <1>5, <1>2
        <5> QED
          BY <5>1
      <4>2. CASE j > k
        <5>1. j - 1 \in 1..Len(s) - 1 /\ r[j - 1] = s[j]
          BY <4>2, <1>5, <1>2
        <5> QED
          BY <5>1
      <4> QED
        BY <4>1, <4>2, <3>2
    <3> QED
      BY <3>1, <3>3, <1>5, <1>7
  <2> QED
    BY <2>1, <2>2
<1> QED
  BY <1>5, <1>6, <1>8, <1>9

LEMMA WithoutIs ==
  ASSUME CacheIsOK(cache), NEW t \in Tenants
  PROVE  /\ CacheIsOK(Without(t))
         /\ Cached(t) # {} => Len(Without(t)) = Len(cache) - 1
         /\ Cached(t) = {} => Len(Without(t)) = Len(cache)
         /\ ToSet(Without(t)) = ToSet(cache) \ Cached(t)
<1>0. /\ DOMAIN cache = 1..Len(cache) /\ ToSet(cache) = {cache[i] : i \in 1..Len(cache)}
  BY EntriesOf DEF CacheIsOK
<1>1. CASE Cached(t) = {}
  BY <1>1 DEF Without
<1>2. CASE Cached(t) # {}
  <2>1. \E i \in DOMAIN cache : cache[i].tenant = t
    BY <1>0, <1>2 DEF Cached
  <2>2. PICK k : k = CHOOSE i \in DOMAIN cache : cache[i].tenant = t
    OBVIOUS
  <2>3. k \in 1..Len(cache) /\ cache[k].tenant = t
    BY <1>0, <2>1, <2>2
  <2>4. Without(t) = RemoveAt(cache, k)
    BY <1>2, <2>2 DEF Without
  <2>5. /\ CacheIsOK(RemoveAt(cache, k)) /\ Len(RemoveAt(cache, k)) = Len(cache) - 1
        /\ ToSet(RemoveAt(cache, k)) = {e \in ToSet(cache) : e.tenant # cache[k].tenant}
    BY <2>3, RemovedAt
  <2> QED
    BY <1>2, <2>3, <2>4, <2>5 DEF Cached
<1> QED
  BY <1>1, <1>2

(* An entry put in front of the others, those of its tenant gone.          *)
LEMMA TouchedIs ==
  ASSUME CacheIsOK(cache), NEW e \in Entries
  PROVE  /\ Touched(e) \in Seq(Entries)
         /\ Len(Touched(e)) = Len(Without(e.tenant)) + 1
         /\ \A i, j \in 1..Len(Touched(e)) : Touched(e)[i].tenant = Touched(e)[j].tenant => i = j
         /\ Touched(e)[1] = e
         /\ ToSet(Touched(e)) = {e} \cup (ToSet(cache) \ Cached(e.tenant))
<1> DEFINE w == Without(e.tenant)
           r == <<e>> \o w
<1>1. e.tenant \in Tenants
  BY DEF Entries
<1>2. CacheIsOK(w) /\ ToSet(w) = ToSet(cache) \ Cached(e.tenant)
  BY <1>1, WithoutIs
<1> HIDE DEF w
<1>3. /\ w \in Seq(Entries) /\ Len(w) \in Nat /\ ToSet(w) = {w[i] : i \in 1..Len(w)}
      /\ \A i \in 1..Len(w) : w[i] \in Entries
      /\ \A i, j \in 1..Len(w) : w[i].tenant = w[j].tenant => i = j
  BY <1>2, EntriesOf DEF CacheIsOK
<1>4. <<e>> \in Seq(Entries) /\ Len(<<e>>) = 1 /\ <<e>>[1] = e
  OBVIOUS
<1>5. /\ r \in Seq(Entries) /\ Len(r) = 1 + Len(w)
      /\ \A i \in 1..1 + Len(w) : r[i] = IF i <= 1 THEN <<e>>[i] ELSE w[i - 1]
  <2>1. /\ r \in Seq(Entries) /\ Len(r) = Len(<<e>>) + Len(w)
        /\ \A i \in 1..Len(<<e>>) + Len(w) :
             r[i] = IF i <= Len(<<e>>) THEN <<e>>[i] ELSE w[i - Len(<<e>>)]
    BY <1>3, <1>4, ConcatProperties
  <2> QED
    BY <2>1, <1>4
<1> HIDE DEF r
<1>6. r[1] = e /\ \A i \in 2..1 + Len(w) : r[i] = w[i - 1]
  <2>1. 1 \in 1..1 + Len(w) /\ r[1] = <<e>>[1]
    BY <1>3, <1>5
  <2>2. \A i \in 2..1 + Len(w) : i \in 1..1 + Len(w) /\ ~(i <= 1)
    BY <1>3
  <2> QED
    BY <1>4, <1>5, <2>1, <2>2
<1>7. \A i \in 1..Len(w) : w[i].tenant # e.tenant
  BY <1>2, <1>3 DEF Cached
<1>8. \A i, j \in 1..Len(r) : r[i].tenant = r[j].tenant => i = j
  <2> SUFFICES ASSUME NEW i \in 1..Len(r), NEW j \in 1..Len(r), r[i].tenant = r[j].tenant
               PROVE  i = j
    OBVIOUS
  <2>1. i # 1 => i - 1 \in 1..Len(w) /\ r[i] = w[i - 1]
    BY <1>3, <1>5, <1>6
  <2>2. j # 1 => j - 1 \in 1..Len(w) /\ r[j] = w[j - 1]
    BY <1>3, <1>5, <1>6
  <2>3. CASE i # 1 /\ j # 1
    <3>1. i - 1 = j - 1
      BY <2>1, <2>2, <2>3, <1>3
    <3> QED
      BY <3>1, <1>3, <1>5
  <2>4. CASE i = 1 \/ j = 1
    BY <2>1, <2>2, <2>4, <1>6, <1>7
  <2> QED
    BY <2>3, <2>4
<1>9. ToSet(r) = {e} \cup ToSet(w)
  <2>1. ToSet(r) = {r[i] : i \in 1..1 + Len(w)}
    BY <1>5, EntriesOf
  <2>2. \A i \in 1..Len(w) : i + 1 \in 2..1 + Len(w) /\ r[i + 1] = w[i]
    BY <1>3, <1>6
  <2>3. \A i \in 1..1 + Len(w) : i = 1 \/ (i \in 2..1 + Len(w) /\ i - 1 \in 1..Len(w))
    BY <1>3
  <2>4. \A x \in ToSet(r) : x \in {e} \cup ToSet(w)
    BY <2>1, <2>3, <1>3, <1>6
  <2>5. \A x \in ToSet(w) : x \in ToSet(r)
    <3> SUFFICES ASSUME NEW x \in ToSet(w) PROVE x \in ToSet(r)
      OBVIOUS
    <3>1. PICK i \in 1..Len(w) : x = w[i]
      BY <1>3
    <3>2. i + 1 \in 1..1 + Len(w) /\ r[i + 1] = x
      BY <3>1, <2>2, <1>3
    <3> QED
      BY <3>2, <2>1
  <2>6. e \in ToSet(r)
    <3>1. 1 \in 1..1 + Len(w)
      BY <1>3
    <3> QED
      BY <3>1, <2>1, <1>6
  <2> QED
    BY <2>4, <2>5, <2>6
<1>10. r = Touched(e)
  BY DEF r, w, Touched
<1> QED
  BY <1>2, <1>3, <1>5, <1>6, <1>8, <1>9, <1>10 DEF w

(* A connection found in the cache is moved to its front.                  *)
LEMMA FoundIs ==
  ASSUME CacheIsOK(cache), NEW t \in Tenants, NEW e \in Cached(t)
  PROVE  /\ e \in Entries /\ e \in ToSet(cache) /\ e.tenant = t
         /\ CacheIsOK(Touched(e)) /\ ToSet(Touched(e)) = ToSet(cache)
         /\ \A f \in Cached(t) : f = e
<1>1. e \in ToSet(cache) /\ e.tenant = t /\ cache \in Seq(Entries) /\ Len(cache) =< MaxOpen
  BY DEF Cached, CacheIsOK
<1>2. /\ Len(cache) \in Nat /\ ToSet(cache) = {cache[i] : i \in 1..Len(cache)}
      /\ \A i \in 1..Len(cache) : cache[i] \in Entries
  BY <1>1, EntriesOf
<1>3. e \in Entries
  BY <1>1, <1>2
<1>4. \A f \in Cached(t) : f = e
  <2> SUFFICES ASSUME NEW f \in Cached(t) PROVE f = e
    OBVIOUS
  <2>1. PICK i \in 1..Len(cache) : f = cache[i]
    BY <1>2 DEF Cached
  <2>2. PICK j \in 1..Len(cache) : e = cache[j]
    BY <1>1, <1>2
  <2>3. cache[i].tenant = cache[j].tenant
    BY <1>1, <2>1, <2>2 DEF Cached
  <2>4. i = j
    BY <2>3 DEF CacheIsOK
  <2> QED
    BY <2>1, <2>2, <2>4
<1>5. ToSet(Touched(e)) = ToSet(cache)
  <2>1. ToSet(Touched(e)) = {e} \cup (ToSet(cache) \ Cached(t))
    BY <1>1, <1>3, TouchedIs
  <2> QED
    BY <2>1, <1>1, <1>4
<1>6. Len(Touched(e)) = Len(cache)
  <2>1. Len(Without(t)) = Len(cache) - 1
    BY WithoutIs
  <2>2. Len(Touched(e)) = Len(Without(t)) + 1
    BY <1>1, <1>3, TouchedIs
  <2> QED
    BY <2>1, <2>2, <1>2
<1>7. CacheIsOK(Touched(e))
  BY <1>1, <1>3, <1>6, TouchedIs DEF CacheIsOK
<1> QED
  BY <1>1, <1>3, <1>4, <1>5, <1>7

(* One that is published may put the least recent out.                     *)
LEMMA PushedIs ==
  ASSUME CacheIsOK(cache), NEW e \in Entries, Cached(e.tenant) = {}
  PROVE  /\ CacheIsOK(Pushed(e))
         /\ e \in ToSet(Pushed(e)) /\ ToSet(Pushed(e)) \subseteq {e} \cup ToSet(cache)
<1> DEFINE r == Touched(e)
<1>1. /\ r \in Seq(Entries) /\ r[1] = e
      /\ \A i, j \in 1..Len(r) : r[i].tenant = r[j].tenant => i = j
      /\ ToSet(r) \subseteq {e} \cup ToSet(cache)
  BY TouchedIs
<1>2. Len(r) = Len(cache) + 1 /\ Len(cache) =< MaxOpen /\ Len(cache) \in Nat
      /\ MaxOpen \in Nat \ {0}
  <2>1. e.tenant \in Tenants /\ cache \in Seq(Entries) /\ Len(cache) =< MaxOpen
    BY DEF Entries, CacheIsOK
  <2>2. Len(r) = Len(Without(e.tenant)) + 1 /\ Len(Without(e.tenant)) = Len(cache)
    BY <2>1, TouchedIs, WithoutIs
  <2> QED
    BY <2>1, <2>2, EntriesOf, PoolAssumption
<1>3. Pushed(e) = IF Len(r) > MaxOpen THEN Front(r) ELSE r
  BY DEF Pushed
<1> HIDE DEF r
<1>4. ToSet(r) = {r[i] : i \in 1..Len(r)} /\ \A i \in 1..Len(r) : r[i] \in Entries
  BY <1>1, EntriesOf
<1>5. CASE ~(Len(r) > MaxOpen)
  <2>1. e \in ToSet(r)
    <3>1. 1 \in 1..Len(r)
      BY <1>2
    <3> QED
      BY <3>1, <1>1, <1>4
  <2> QED
    BY <2>1, <1>1, <1>2, <1>3, <1>5 DEF CacheIsOK
<1>6. CASE Len(r) > MaxOpen
  <2> DEFINE f == SubSeq(r, 1, Len(r) - 1)
  <2>1. f = Pushed(e)
    BY <1>3, <1>6 DEF Front
  <2>2. /\ f \in Seq(Entries) /\ Len(f) = IF 1 <= Len(r) - 1 THEN (Len(r) - 1) - 1 + 1 ELSE 0
        /\ \A i \in 1..(Len(r) - 1) - 1 + 1 : f[i] = r[1 + i - 1]
    <3>1. 1 \in Int /\ Len(r) - 1 \in Int /\ \A i \in 1..Len(r) - 1 : r[i] \in Entries
      BY <1>2, <1>4
    <3> HIDE DEF f
    <3> QED
      BY <3>1, SubSeqProperties DEF f
  <2> HIDE DEF f
  <2>3. Len(f) = MaxOpen /\ \A i \in 1..Len(f) : f[i] = r[i] /\ i \in 1..Len(r)
    BY <2>2, <1>2, <1>6
  <2>4. ToSet(f) = {f[i] : i \in 1..Len(f)}
    BY <2>2, EntriesOf
  <2>5. e \in ToSet(f)
    <3>1. 1 \in 1..Len(f)
      BY <2>3, <1>2
    <3> QED
      BY <3>1, <2>3, <2>4, <1>1
  <2>6. ToSet(f) \subseteq ToSet(r)
    BY <2>3, <2>4, <1>4
  <2>7. CacheIsOK(f)
    BY <2>2, <2>3, <1>1, <1>2 DEF CacheIsOK
  <2> QED
    BY <2>1, <2>5, <2>6, <2>7, <1>1
<1> QED
  BY <1>5, <1>6

-----------------------------------------------------------------------------
(* An open always finds a connection: more are never open than the cache   *)
(* keeps and the other tasks hold.                                         *)

LEMMA FreshExists ==
  ASSUME CacheIsOK(cache), HandlesOK, NEW c \in Calls, handle[c] = NoConn
  PROVE  Conns \ Live # {}
<1> SUFFICES ASSUME Conns \subseteq Live PROVE FALSE
  OBVIOUS
<1> DEFINE slots == (1..MaxOpen + MaxCalls) \ {MaxOpen + c}
           CachedAt(n, i) == i \in 1..Len(cache) /\ cache[i].conn = n
           HeldBy(n, d) == d \in Calls /\ handle[d] = n
           SlotOf(n, k) == CachedAt(n, k) \/ (k - MaxOpen \in Calls /\ HeldBy(n, k - MaxOpen))
           slot == [n \in Conns |-> CHOOSE k \in slots : SlotOf(n, k)]
<1>1. /\ MaxOpen \in Nat \ {0} /\ MaxCalls \in Nat /\ c \in 1..MaxCalls
      /\ Len(cache) \in Nat /\ Len(cache) =< MaxOpen
      /\ ToSet(cache) = {cache[i] : i \in 1..Len(cache)}
  BY PoolAssumption, EntriesOf DEF CacheIsOK, Calls
<1>2. ASSUME NEW n \in Conns PROVE \E k \in slots : SlotOf(n, k)
  <2>1. n # NoConn /\ n \in Live
    BY DEF Conns, NoConn
  <2>2. CASE \E e \in ToSet(cache) : e.conn = n
    <3>1. PICK i \in 1..Len(cache) : cache[i].conn = n
      BY <1>1, <2>2
    <3>2. i \in slots
      BY <1>1, <3>1
    <3> QED
      BY <3>1, <3>2
  <2>3. CASE \E d \in Calls : handle[d] = n
    <3>1. PICK d \in Calls : handle[d] = n
      BY <2>3
    <3>2. d # c /\ d \in 1..MaxCalls
      BY <3>1, <2>1 DEF Calls
    <3>3. MaxOpen + d \in slots /\ (MaxOpen + d) - MaxOpen = d
      BY <1>1, <3>2
    <3> QED
      BY <3>1, <3>3
  <2> QED
    BY <2>1, <2>2, <2>3 DEF Live
<1>3. \A n \in Conns : slot[n] \in slots /\ SlotOf(n, slot[n])
  BY <1>2
<1>4. slot \in [Conns -> slots]
  BY <1>3
<1>5. IsFiniteSet(slots) /\ IsFiniteSet(Conns) /\ Cardinality(slots) < Cardinality(Conns)
  <2>1. /\ IsFiniteSet(1..MaxOpen + MaxCalls)
        /\ Cardinality(1..MaxOpen + MaxCalls) = MaxOpen + MaxCalls
    <3> DEFINE n == MaxOpen + MaxCalls
    <3>1. 1 \in Int /\ n \in Int /\ n >= 1 /\ n - 1 + 1 = n
      BY <1>1
    <3> HIDE DEF n
    <3>2. IsFiniteSet(1..n) /\ Cardinality(1..n) = IF 1 > n THEN 0 ELSE n - 1 + 1
      BY <3>1, FS_Interval
    <3>3. Cardinality(1..n) = n
      BY <3>1, <3>2
    <3> QED
      BY <3>2, <3>3 DEF n
  <2>2. MaxOpen + c \in 1..MaxOpen + MaxCalls
    BY <1>1
  <2>3. IsFiniteSet(slots) /\ Cardinality(slots) = MaxOpen + MaxCalls - 1
    <3> DEFINE S == 1..MaxOpen + MaxCalls
               x == MaxOpen + c
    <3>1. x \in S /\ IsFiniteSet(S) /\ Cardinality(S) = MaxOpen + MaxCalls
      BY <2>1, <2>2
    <3>2. slots = S \ {x}
      OBVIOUS
    <3> HIDE DEF S, x, slots, slot, SlotOf
    <3>3. IsFiniteSet(S \ {x}) /\ Cardinality(S \ {x}) = Cardinality(S) - 1
      BY <3>1, FS_RemoveElement
    <3>4. Cardinality(S) - 1 = MaxOpen + MaxCalls - 1
      BY <3>1, <1>1
    <3>5. Cardinality(slots) = Cardinality(S) - 1 /\ IsFiniteSet(slots)
      BY <3>2, <3>3, Zenon
    <3> QED
      BY <3>4, <3>5, Zenon
  <2> QED
    BY <1>1, <2>1, <2>3 DEF Conns
<1> HIDE DEF slot, slots
<1>6. PICK m, n \in Conns : m # n /\ slot[m] = slot[n]
  BY <1>4, <1>5, FS_PigeonHole
<1>7. PICK k : k = slot[m] /\ SlotOf(m, k) /\ SlotOf(n, k)
  BY <1>3, <1>6
<1>8. ~(CachedAt(m, k) /\ \E d \in Calls : k - MaxOpen = d)
  BY <1>1 DEF Calls
<1>9. ~(CachedAt(n, k) /\ \E d \in Calls : k - MaxOpen = d)
  BY <1>1 DEF Calls
<1> QED
  BY <1>6, <1>7, <1>8, <1>9

-----------------------------------------------------------------------------
(* What a step leaves as it was.                                           *)

LEMMA HeldIsRunning ==
  ASSUME HandlesOK, NEW c \in Calls, handle[c] # NoConn
  PROVE  Running(c)
BY DEF HandlesOK, Running, Holding, Inside

LEMMA CachedConns ==
  ASSUME CacheIsOK(cache)
  PROVE  \A e \in ToSet(cache) : e.conn \in Conns /\ e.conn # NoConn /\ e.tenant \in Tenants
<1>1. \A e \in ToSet(cache) : e \in Entries
  BY EntriesOf DEF CacheIsOK
<1>2. NoConn \notin Conns
  BY DEF Conns, NoConn
<1> QED
  BY <1>1, <1>2 DEF Entries

(* References go away.                                                     *)
LEMMA FilesFrame ==
  ASSUME CacheIsOK(cache), HandlesOK, FilesOK,
         ToSet(cache)' \subseteq ToSet(cache), UNCHANGED op,
         \A d \in Calls : handle'[d] \in {handle[d], NoConn},
         \A t \in Tenants : writer'[t] \in {writer[t], NoConn}
  PROVE  FilesOK'
<1>1. \A e \in ToSet(cache) : e.conn # NoConn
  BY CachedConns
<1>2. \A d \in Calls : T(d)' = T(d)
  BY DEF T
<1>3. \A e, f \in ToSet(cache)' : e.conn = f.conn => e.tenant = f.tenant
  BY DEF FilesOK
<1>4. \A e \in ToSet(cache)', d \in Calls : handle'[d] = e.conn => T(d)' = e.tenant
  BY <1>1, <1>2 DEF FilesOK
<1>5. \A b, d \in Calls : handle'[b] = handle'[d] /\ handle'[b] # NoConn => T(b)' = T(d)'
  BY <1>2 DEF FilesOK
<1>6. \A t \in Tenants, e \in ToSet(cache)' : writer'[t] = e.conn => e.tenant = t
  BY <1>1 DEF FilesOK
<1>7. \A t \in Tenants, d \in Calls : writer'[t] = handle'[d] /\ handle'[d] # NoConn => T(d)' = t
  BY <1>2 DEF FilesOK
<1> QED
  BY <1>3, <1>4, <1>5, <1>6, <1>7 DEF FilesOK

(* One task moves; of the others of its tenant none is alone.              *)
LEMMA AloneFrame ==
  ASSUME PoolTypes, HandlesOK, FilesOK, AloneOK, NEW c \in Calls, Running(c),
         UNCHANGED <<op, alone>>,
         \A d \in Calls \ {c} :
           /\ pc'[d] = pc[d] /\ handle'[d] = handle[d] /\ result'[d] = result[d]
           /\ d \in healing' => d \in healing,
         \A n \in poisoned' \ poisoned : n = handle[c],
         \A u \in Tenants \ {T(c)} : Cached(u)' \subseteq Cached(u) /\ committed'[u] = committed[u],
         alone[c] => result'[c] \notin {"busy", "poisoned", "conflict"},
         Lone(c) /\ Lone(c)' =>
           /\ pc'[c] \in {"open", "publish"} \/ (pc'[c] = "lookup" /\ c \in healing') =>
                Cached(T(c))' = {}
           /\ pc'[c] \in Inside \cup {"mutex"} => \A e \in Cached(T(c))' : e.conn = handle'[c]
           /\ pc'[c] = "publish" \/ (pc'[c] = "mutex" /\ c \in healing') =>
                handle'[c] \notin poisoned'
           /\ pc'[c] \in {"begin", "commit"} => ~KeyTaken(c)'
  PROVE  AloneOK'
<1>1. \A d \in Calls : T(d)' = T(d) /\ T(d) \in Tenants
  BY DEF T, PoolTypes, Op
<1> SUFFICES ASSUME NEW d \in Calls, alone[d]
             PROVE  /\ result'[d] \notin {"busy", "poisoned", "conflict"}
                    /\ Lone(d)' =>
                      /\ \A b \in Calls \ {d} : T(b)' = T(d)' => ~Running(b)'
                      /\ pc'[d] \in {"open", "publish"} \/ (pc'[d] = "lookup" /\ d \in healing') =>
                           Cached(T(d))' = {}
                      /\ pc'[d] \in Inside \cup {"mutex"} => \A e \in Cached(T(d))' : e.conn = handle'[d]
                      /\ pc'[d] = "publish" \/ (pc'[d] = "mutex" /\ d \in healing') => handle'[d] \notin poisoned'
                      /\ pc'[d] \in {"begin", "commit"} => ~KeyTaken(d)'
  BY DEF AloneOK, Lone
<1>2. CASE d = c
  <2>1. Lone(c)
    BY <1>2 DEF Lone
  <2>2. \A b \in Calls \ {c} : T(b) = T(c) => ~Running(b)'
    BY <2>1 DEF AloneOK, Running
  <2> QED
    BY <1>1, <1>2, <2>1, <2>2
<1>3. CASE d # c
  <2>1. result'[d] \notin {"busy", "poisoned", "conflict"}
    BY <1>3 DEF AloneOK
  <2>2. ASSUME Lone(d)'
        PROVE  /\ T(d) # T(c) /\ Lone(d)
               /\ \A b \in Calls \ {d} : T(b) = T(d) => ~Running(b)'
    <3>1. Lone(d)
      BY <1>3, <2>2 DEF Lone, Running
    <3>2. \A b \in Calls \ {d} : T(b) = T(d) => ~Running(b)
      BY <3>1 DEF AloneOK
    <3>3. T(d) # T(c)
      BY <3>2, <1>3
    <3>4. \A b \in Calls \ {d} : T(b) = T(d) => ~Running(b)'
      BY <3>2, <3>3 DEF Running
    <3> QED
      BY <3>1, <3>3, <3>4
  <2>3. ASSUME Lone(d)', pc'[d] = "publish" \/ (pc'[d] = "mutex" /\ d \in healing')
        PROVE  handle'[d] \notin poisoned'
    <3>1. T(d) # T(c) /\ Lone(d)
      BY <2>2, <2>3
    <3>2. handle[d] \notin poisoned /\ handle[d] # NoConn
      BY <3>1, <2>3, <1>3 DEF AloneOK, HandlesOK, Holding
    <3>3. handle[d] # handle[c]
      BY <3>1, <3>2 DEF FilesOK
    <3> QED
      BY <3>2, <3>3, <1>3
  <2>4. ASSUME Lone(d)'
        PROVE  /\ Cached(T(d))' \subseteq Cached(T(d)) /\ committed'[T(d)] = committed[T(d)]
               /\ Lone(d) /\ pc'[d] = pc[d] /\ handle'[d] = handle[d]
               /\ d \in healing' => d \in healing
    BY <2>2, <2>4, <1>1, <1>3
  <2>5. ASSUME Lone(d)',
               pc'[d] \in {"open", "publish"} \/ (pc'[d] = "lookup" /\ d \in healing')
        PROVE  Cached(T(d))' = {}
    BY <2>4, <2>5 DEF AloneOK
  <2>6. ASSUME Lone(d)', pc'[d] \in Inside \cup {"mutex"}
        PROVE  \A e \in Cached(T(d))' : e.conn = handle'[d]
    BY <2>4, <2>6 DEF AloneOK
  <2>7. ASSUME Lone(d)', pc'[d] \in {"begin", "commit"}
        PROVE  ~KeyTaken(d)'
    <3>1. ~KeyTaken(d)
      BY <2>4, <2>7 DEF AloneOK
    <3> QED
      BY <3>1, <2>4, <2>7, <1>1 DEF KeyTaken
  <2> QED
    BY <1>1, <2>1, <2>2, <2>3, <2>5, <2>6, <2>7
<1> QED
  BY <1>2, <1>3

(* Who has begun a transaction commits it, or leaves its connection        *)
(* poisoned.                                                               *)
LEMMA WritersFrame ==
  ASSUME HandlesOK, WritersOK, NEW c \in Calls, UNCHANGED op,
         \A t \in Tenants : writer'[t] \in {writer[t], NoConn},
         \A d \in inside \ {c} : d \in inside' /\ pc'[d] = pc[d] /\ handle'[d] = handle[d],
         \A t \in Tenants : writer'[t] \in poisoned => writer'[t] = NoConn \/ writer'[t] \in poisoned',
         pc[c] = "commit" => writer'[T(c)] = NoConn \/ handle[c] \in poisoned'
  PROVE  WritersOK'
<1> SUFFICES ASSUME NEW t \in Tenants, writer'[t] # NoConn, writer'[t] \notin poisoned'
             PROVE  \E d \in inside' : pc'[d] = "commit" /\ handle'[d] = writer'[t] /\ T(d)' = t
  BY DEF WritersOK
<1>1. writer'[t] = writer[t]
  OBVIOUS
<1>2. PICK d \in inside : pc[d] = "commit" /\ handle[d] = writer[t] /\ T(d) = t
  BY <1>1 DEF WritersOK
<1>3. d # c
  BY <1>1, <1>2
<1> QED
  BY <1>1, <1>2, <1>3 DEF T

-----------------------------------------------------------------------------
(* Steps that end a task, or move it within one connection.                *)

LEMMA EndsOK ==
  ASSUME PoolTypes, ConnInv, NEW c \in Calls, Running(c), NEW r, Finish(c, r),
         UNCHANGED cache,
         poisoned \subseteq poisoned', poisoned' \subseteq Conns,
         \A n \in poisoned' \ poisoned : n = handle[c] /\ c \in inside,
         writer' \in [Tenants -> Conns \cup {NoConn}],
         \A t \in Tenants : writer'[t] \in {writer[t], NoConn},
         pc[c] = "commit" => writer'[T(c)] = NoConn \/ handle[c] \in poisoned',
         \A t \in Tenants \ {T(c)} : committed'[t] = committed[t],
         r \in {"busy", "poisoned", "conflict"} => ~alone[c]
  PROVE  ConnInv'
<1> USE DEF ConnInv
<1>1. /\ pc' = [pc EXCEPT ![c] = "done"] /\ result' = [result EXCEPT ![c] = r]
      /\ handle' = [handle EXCEPT ![c] = NoConn] /\ inside' = inside \ {c}
      /\ UNCHANGED <<op, dropped, healing, alone>>
  BY DEF Finish, Goto
<1>2. /\ pc'[c] = "done" /\ result'[c] = r /\ handle'[c] = NoConn
      /\ \A d \in Calls : d # c => pc'[d] = pc[d] /\ result'[d] = result[d] /\ handle'[d] = handle[d]
  BY <1>1 DEF PoolTypes, HandlesOK
<1>3. CacheIsOK(cache)'
  BY DEF CacheIsOK, Entries, Conns
<1>4. HandlesOK'
  <2>1. /\ handle' \in [Calls -> Conns \cup {NoConn}]
        /\ poisoned' \subseteq Conns /\ inside' \subseteq Calls /\ healing' \subseteq Calls
        /\ writer' \in [Tenants -> Conns \cup {NoConn}] /\ alone' \in [Calls -> BOOLEAN]
    BY <1>1 DEF HandlesOK
  <2>2. ASSUME NEW d \in Calls
        PROVE  /\ handle'[d] # NoConn <=> pc'[d] \in Holding
               /\ d \in inside' <=> pc'[d] \in Inside
               /\ d \in healing' => pc'[d] \notin {"new", "queued", "heal"}
    BY <1>1, <1>2 DEF HandlesOK, Holding, Inside
  <2> QED
    BY <2>1, <2>2 DEF HandlesOK
<1>5. MutexesOK'
  BY <1>1, <1>2 DEF MutexesOK, HandlesOK
<1>6. FilesOK'
  BY <1>1, <1>2, FilesFrame
<1>7. WritersOK'
  <2>1. \A d \in inside \ {c} : d \in inside' /\ pc'[d] = pc[d] /\ handle'[d] = handle[d]
    BY <1>1, <1>2 DEF HandlesOK
  <2>2. UNCHANGED op
    BY <1>1
  <2> QED
    BY <2>1, <2>2, WritersFrame
<1>8. AloneOK'
  <2>1. \A d \in Calls \ {c} :
           /\ pc'[d] = pc[d] /\ handle'[d] = handle[d] /\ result'[d] = result[d]
           /\ d \in healing' => d \in healing
    BY <1>1, <1>2
  <2>2. \A u \in Tenants \ {T(c)} : Cached(u)' \subseteq Cached(u) /\ committed'[u] = committed[u]
    BY DEF Cached
  <2>3. ~Lone(c)'
    BY <1>2 DEF Lone, Running
  <2>4. UNCHANGED <<op, alone>> /\ \A n \in poisoned' \ poisoned : n = handle[c]
    BY <1>1
  <2>5. alone[c] => result'[c] \notin {"busy", "poisoned", "conflict"}
    BY <1>2
  <2> QED
    BY <2>1, <2>2, <2>3, <2>4, <2>5, AloneFrame
<1> QED
  BY <1>3, <1>4, <1>5, <1>6, <1>7, <1>8

LEMMA MovesOK ==
  ASSUME PoolTypes, ConnInv, NEW c \in Calls, Running(c), NEW p, Goto(c, p), Continue,
         UNCHANGED <<pool, handle, healing, committed>>,
         writer' = writer \/
           (p = "commit" /\ writer' = [writer EXCEPT ![T(c)] = handle[c]] /\ handle[c] # NoConn),
         pc[c] # "commit", p \notin {"new", "queued", "publish", "open"},
         p \in Holding <=> pc[c] \in Holding,
         inside' = IF p \in Inside THEN inside \cup {c} ELSE inside,
         pc[c] \in Inside => p \in Inside,
         p = "heal" => c \notin healing,
         p \in Inside => handle[c] \notin poisoned /\ \A d \in inside : handle[d] = handle[c] => d = c,
         p = "mutex" => pc[c] = "mutex",
         p = "lookup" => c \notin healing,
         Lone(c) /\ p \in Inside => \A e \in Cached(T(c)) : e.conn = handle[c],
         Lone(c) /\ p \in {"begin", "commit"} => ~KeyTaken(c)
  PROVE  ConnInv'
<1> USE DEF ConnInv
<1>1. /\ pc' = [pc EXCEPT ![c] = p]
      /\ UNCHANGED <<op, dropped, alone, result, cache, poisoned>>
  BY DEF Goto, Continue, pool
<1>2. /\ pc'[c] = p /\ \A d \in Calls : d # c => pc'[d] = pc[d]
      /\ \A d \in Calls : T(d)' = T(d) /\ T(d) \in Tenants
  BY <1>1 DEF PoolTypes, T, Op
<1>3. CacheIsOK(cache)'
  BY <1>1 DEF CacheIsOK, Entries, Conns
<1>4. writer' \in [Tenants -> Conns \cup {NoConn}]
  BY <1>2 DEF HandlesOK
<1>5. HandlesOK'
  <2>1. /\ handle' \in [Calls -> Conns \cup {NoConn}]
        /\ poisoned' \subseteq Conns /\ inside' \subseteq Calls /\ healing' \subseteq Calls
        /\ alone' \in [Calls -> BOOLEAN]
    BY <1>1 DEF HandlesOK
  <2>2. ASSUME NEW d \in Calls
        PROVE  /\ handle'[d] # NoConn <=> pc'[d] \in Holding
               /\ d \in inside' <=> pc'[d] \in Inside
               /\ d \in healing' => pc'[d] \notin {"new", "queued", "heal"}
    BY <1>1, <1>2 DEF HandlesOK
  <2> QED
    BY <1>4, <2>1, <2>2 DEF HandlesOK
<1>6. MutexesOK'
  <2>1. \A d \in inside' : handle[d] \notin poisoned
    BY DEF MutexesOK
  <2>2. \A b, d \in inside' : handle[b] = handle[d] => b = d
    BY DEF MutexesOK
  <2> QED
    BY <1>1, <2>1, <2>2 DEF MutexesOK
<1>7. AloneOK'
  <2>1. \A d \in Calls \ {c} :
           /\ pc'[d] = pc[d] /\ handle'[d] = handle[d] /\ result'[d] = result[d]
           /\ d \in healing' => d \in healing
    BY <1>1, <1>2
  <2>2. \A u \in Tenants : Cached(u)' = Cached(u)
    BY <1>1 DEF Cached
  <2>3. KeyTaken(c)' = KeyTaken(c)
    BY <1>1 DEF KeyTaken, T
  <2>4. alone[c] => result'[c] \notin {"busy", "poisoned", "conflict"}
    BY <1>1 DEF AloneOK
  <2>5. ASSUME Lone(c)
        PROVE  /\ pc'[c] \in Inside \cup {"mutex"} => \A e \in Cached(T(c)) : e.conn = handle[c]
               /\ pc'[c] = "mutex" /\ c \in healing => handle[c] \notin poisoned
               /\ pc'[c] \in {"begin", "commit"} => ~KeyTaken(c)
    <3>1. pc'[c] = "mutex" => \A e \in Cached(T(c)) : e.conn = handle[c]
      BY <1>2, <2>5 DEF AloneOK
    <3>2. pc'[c] = "mutex" /\ c \in healing => handle[c] \notin poisoned
      BY <1>2, <2>5 DEF AloneOK
    <3> QED
      BY <1>2, <2>5, <3>1, <3>2
  <2>6. pc'[c] \notin {"open", "publish"} /\ ~(pc'[c] = "lookup" /\ c \in healing')
    BY <1>2
  <2>7. UNCHANGED <<op, alone, poisoned, committed, handle, healing>>
    BY <1>1
  <2>8. T(c) \in Tenants
    BY <1>2
  <2>9. Lone(c) /\ Lone(c)' =>
          /\ pc'[c] \in {"open", "publish"} \/ (pc'[c] = "lookup" /\ c \in healing') =>
               Cached(T(c))' = {}
          /\ pc'[c] \in Inside \cup {"mutex"} => \A e \in Cached(T(c))' : e.conn = handle'[c]
          /\ pc'[c] = "publish" \/ (pc'[c] = "mutex" /\ c \in healing') =>
               handle'[c] \notin poisoned'
          /\ pc'[c] \in {"begin", "commit"} => ~KeyTaken(c)'
    <3>1. Cached(T(c))' = Cached(T(c))
      BY <1>1 DEF Cached, T
    <3> QED
      BY <2>3, <2>5, <2>6, <2>7, <3>1
  <2>10. /\ \A n \in poisoned' \ poisoned : n = handle[c]
         /\ \A u \in Tenants \ {T(c)} :
              Cached(u)' \subseteq Cached(u) /\ committed'[u] = committed[u]
    BY <2>2, <2>7
  <2> QED
    BY <2>1, <2>4, <2>7, <2>9, <2>10, AloneFrame
<1>8. CASE writer' = writer
  <2>1. FilesOK'
    BY <1>1, <1>8, FilesFrame
  <2>2. WritersOK'
    <3>1. \A d \in inside \ {c} : d \in inside' /\ pc'[d] = pc[d] /\ handle'[d] = handle[d]
      BY <1>2 DEF HandlesOK
    <3> QED
      BY <1>1, <1>8, <3>1, WritersFrame
  <2> QED
    BY <2>1, <2>2, <1>3, <1>5, <1>6, <1>7
<1>9. CASE /\ p = "commit" /\ writer' = [writer EXCEPT ![T(c)] = handle[c]]
           /\ handle[c] # NoConn
  <2>1. \A t \in Tenants : writer'[t] = IF t = T(c) THEN handle[c] ELSE writer[t]
    BY <1>9 DEF HandlesOK
  <2>2. FilesOK'
    <3>1. /\ \A t \in Tenants, e \in ToSet(cache) : writer'[t] = e.conn => e.tenant = t
          /\ \A t \in Tenants, d \in Calls : writer'[t] = handle[d] /\ handle[d] # NoConn => T(d) = t
      BY <1>9, <2>1 DEF FilesOK
    <3> QED
      BY <1>1, <1>2, <3>1 DEF FilesOK
  <2>3. WritersOK'
    <3> SUFFICES ASSUME NEW t \in Tenants, writer'[t] # NoConn, writer'[t] \notin poisoned
                 PROVE  \E d \in inside' : pc'[d] = "commit" /\ handle[d] = writer'[t] /\ T(d) = t
      BY <1>1, <1>2 DEF WritersOK, HandlesOK
    <3>1. CASE t = T(c)
      BY <1>2, <1>9, <2>1, <3>1 DEF Inside
    <3>2. CASE t # T(c)
      <4>1. writer'[t] = writer[t]
        BY <2>1, <3>2
      <4>2. PICK d \in inside : pc[d] = "commit" /\ handle[d] = writer[t] /\ T(d) = t
        BY <4>1 DEF WritersOK
      <4> QED
        BY <4>1, <4>2, <1>2 DEF HandlesOK
    <3> QED
      BY <3>1, <3>2
  <2> QED
    BY <2>2, <2>3, <1>3, <1>5, <1>6, <1>7
<1> QED
  BY <1>8, <1>9

-----------------------------------------------------------------------------
(* Steps that take a connection or give one up.                            *)

LEMMA FetchOK ==
  ASSUME PoolTypes, ConnInv, NEW c \in Calls, Running(c), NEW p, Goto(c, p), Continue,
         UNCHANGED <<committed, inside>>,
         pc[c] \notin Inside, p \notin Inside \cup {"new", "queued"},
         CacheIsOK(cache)', FilesOK',
         NEW h \in Conns \cup {NoConn}, handle' = [handle EXCEPT ![c] = h],
         h # NoConn <=> p \in Holding,
         healing \subseteq healing', healing' \subseteq healing \cup {c},
         p = "heal" => c \notin healing',
         poisoned' \subseteq poisoned,
         \A t \in Tenants : writer'[t] \in poisoned => writer'[t] = NoConn \/ writer'[t] \in poisoned',
         writer' \in [Tenants -> Conns \cup {NoConn}],
         \A t \in Tenants : writer'[t] \in {writer[t], NoConn},
         \A u \in Tenants \ {T(c)} : Cached(u)' \subseteq Cached(u),
         Lone(c) =>
           /\ p \in {"open", "publish"} \/ (p = "lookup" /\ c \in healing') => Cached(T(c))' = {}
           /\ p = "mutex" => \A e \in Cached(T(c))' : e.conn = h
           /\ p = "publish" \/ (p = "mutex" /\ c \in healing') => h \notin poisoned'
  PROVE  ConnInv'
<1> USE DEF ConnInv
<1>1. /\ pc' = [pc EXCEPT ![c] = p]
      /\ UNCHANGED <<op, dropped, alone, result>>
  BY DEF Goto, Continue
<1>2. /\ pc'[c] = p /\ handle'[c] = h
      /\ \A d \in Calls : d # c => pc'[d] = pc[d] /\ handle'[d] = handle[d]
  BY <1>1 DEF PoolTypes, HandlesOK
<1>3. c \notin inside
  BY DEF HandlesOK
<1>4. HandlesOK'
  <2>1. /\ handle' \in [Calls -> Conns \cup {NoConn}]
        /\ poisoned' \subseteq Conns /\ inside' \subseteq Calls /\ healing' \subseteq Calls
        /\ writer' \in [Tenants -> Conns \cup {NoConn}] /\ alone' \in [Calls -> BOOLEAN]
    BY <1>1 DEF HandlesOK
  <2>2. pc[c] \notin {"new", "done"}
    BY DEF Running
  <2>3. ASSUME NEW d \in Calls
        PROVE  /\ handle'[d] # NoConn <=> pc'[d] \in Holding
               /\ d \in inside' <=> pc'[d] \in Inside
               /\ d \in healing' => pc'[d] \notin {"new", "queued", "heal"}
    <3>1. CASE d = c
      BY <1>2, <1>3, <3>1
    <3>2. CASE d # c
      BY <1>2, <3>2 DEF HandlesOK
    <3> QED
      BY <3>1, <3>2
  <2> QED
    BY <2>1, <2>3 DEF HandlesOK
<1>5. MutexesOK'
  BY <1>2, <1>3 DEF MutexesOK, HandlesOK
<1>6. WritersOK'
  <2>1. \A d \in inside \ {c} : d \in inside' /\ pc'[d] = pc[d] /\ handle'[d] = handle[d]
    BY <1>2 DEF HandlesOK
  <2>2. pc[c] # "commit" /\ UNCHANGED op
    BY <1>1 DEF Inside
  <2> QED
    BY <2>1, <2>2, WritersFrame
<1>7. AloneOK'
  <2>1. \A d \in Calls \ {c} :
           /\ pc'[d] = pc[d] /\ handle'[d] = handle[d] /\ result'[d] = result[d]
           /\ d \in healing' => d \in healing
    BY <1>1, <1>2
  <2>2. alone[c] => result'[c] \notin {"busy", "poisoned", "conflict"}
    BY <1>1 DEF AloneOK
  <2>3. Lone(c) /\ Lone(c)' =>
          /\ pc'[c] \in {"open", "publish"} \/ (pc'[c] = "lookup" /\ c \in healing') =>
               Cached(T(c))' = {}
          /\ pc'[c] \in Inside \cup {"mutex"} => \A e \in Cached(T(c))' : e.conn = handle'[c]
          /\ pc'[c] = "publish" \/ (pc'[c] = "mutex" /\ c \in healing') =>
               handle'[c] \notin poisoned'
          /\ pc'[c] \in {"begin", "commit"} => ~KeyTaken(c)'
    <3>1. T(c)' = T(c)
      BY <1>1 DEF T
    <3> QED
      BY <1>2, <3>1 DEF Inside
  <2>4. /\ \A n \in poisoned' \ poisoned : n = handle[c]
        /\ \A u \in Tenants \ {T(c)} : Cached(u)' \subseteq Cached(u) /\ committed'[u] = committed[u]
        /\ UNCHANGED <<op, alone>>
    BY <1>1
  <2> QED
    BY <2>1, <2>2, <2>3, <2>4, AloneFrame
<1> QED
  BY <1>4, <1>5, <1>6, <1>7

(* The references to a connection stay with its tenant when one is handed  *)
(* from the cache to a task or from a task to the cache.                   *)
LEMMA FilesMove ==
  ASSUME PoolTypes, CacheIsOK(cache), HandlesOK, FilesOK, NEW c \in Calls,
         UNCHANGED <<op, writer>>,
         \A e \in ToSet(cache)' :
           e \in ToSet(cache) \/ (handle[c] # NoConn /\ e.conn = handle[c] /\ e.tenant = T(c)),
         NEW h, handle' = [handle EXCEPT ![c] = h],
         h = NoConn \/ h = handle[c] \/ \E e \in Cached(T(c)) : h = e.conn
  PROVE  FilesOK'
<1>1. \A e \in ToSet(cache) : e.conn # NoConn
  BY CachedConns
<1>2. \A d \in Calls : T(d)' = T(d) /\ handle'[d] = IF d = c THEN h ELSE handle[d]
  BY DEF T, HandlesOK
<1>3. \A e \in ToSet(cache)' :
        /\ \A f \in ToSet(cache) : e.conn = f.conn => e.tenant = f.tenant
        /\ \A d \in Calls : handle[d] = e.conn => T(d) = e.tenant
        /\ \A t \in Tenants : writer[t] = e.conn => e.tenant = t
        /\ e.conn # NoConn
  BY <1>1 DEF FilesOK
<1>4. \A d \in Calls : handle'[d] # NoConn =>
        /\ \A f \in ToSet(cache) : f.conn = handle'[d] => f.tenant = T(d)
        /\ \A b \in Calls : handle[b] = handle'[d] => T(b) = T(d)
        /\ \A t \in Tenants : writer[t] = handle'[d] => T(d) = t
  <2> SUFFICES ASSUME NEW d \in Calls, handle'[d] # NoConn
               PROVE  /\ \A f \in ToSet(cache) : f.conn = handle'[d] => f.tenant = T(d)
                      /\ \A b \in Calls : handle[b] = handle'[d] => T(b) = T(d)
                      /\ \A t \in Tenants : writer[t] = handle'[d] => T(d) = t
    OBVIOUS
  <2>1. CASE handle'[d] = handle[d]
    BY <2>1 DEF FilesOK
  <2>2. CASE d = c /\ \E e \in Cached(T(c)) : h = e.conn
    <3>1. PICK e \in Cached(T(c)) : h = e.conn
      BY <2>2
    <3>2. e \in ToSet(cache) /\ e.tenant = T(c) /\ handle'[d] = e.conn
      BY <1>2, <2>2, <3>1 DEF Cached
    <3> QED
      BY <2>2, <3>2 DEF FilesOK
  <2> QED
    BY <1>2, <2>1, <2>2
<1>5. \A e, f \in ToSet(cache)' : e.conn = f.conn => e.tenant = f.tenant
  BY <1>3
<1>6. \A e \in ToSet(cache)', d \in Calls : handle'[d] = e.conn => T(d)' = e.tenant
  BY <1>2, <1>3, <1>4
<1>7. \A b, d \in Calls : handle'[b] = handle'[d] /\ handle'[b] # NoConn => T(b)' = T(d)'
  BY <1>2, <1>4
<1>8. \A t \in Tenants, e \in ToSet(cache)' : writer'[t] = e.conn => e.tenant = t
  BY <1>3
<1>9. \A t \in Tenants, d \in Calls : writer'[t] = handle'[d] /\ handle'[d] # NoConn => T(d)' = t
  BY <1>2, <1>4
<1> QED
  BY <1>5, <1>6, <1>7, <1>8, <1>9 DEF FilesOK

LEMMA CacheBecomes ==
  ASSUME NEW s, CacheIsOK(s), cache' = s
  PROVE  CacheIsOK(cache)'
BY DEF CacheIsOK, Entries, Conns

(* Nothing moves, but a waiting call may leave and an entry may go.        *)
LEMMA LeavesOK ==
  ASSUME PoolTypes, ConnInv, CacheIsOK(cache)', ToSet(cache)' \subseteq ToSet(cache),
         UNCHANGED <<poisoned, files, task, op, result, alone>>,
         \A d \in Calls : pc'[d] = pc[d] \/ (pc[d] = "queued" /\ pc'[d] = "done")
  PROVE  ConnInv'
<1> USE DEF ConnInv, files, task
<1>1. HandlesOK'
  <2>1. \A d \in Calls :
          /\ handle'[d] # NoConn <=> pc'[d] \in Holding
          /\ d \in inside' <=> pc'[d] \in Inside
          /\ d \in healing' => pc'[d] \notin {"new", "queued", "heal"}
    BY DEF HandlesOK, Holding, Inside
  <2> QED
    BY <2>1 DEF HandlesOK, Conns
<1>2. MutexesOK'
  BY DEF MutexesOK
<1>3. FilesOK'
  BY FilesFrame
<1>4. WritersOK'
  <2>1. \A d \in inside : pc'[d] = pc[d]
    BY DEF HandlesOK, Inside
  <2> QED
    BY <2>1 DEF WritersOK, T
<1>5. AloneOK'
  <2>1. \A d \in Calls : T(d)' = T(d) /\ Cached(T(d))' \subseteq Cached(T(d))
    BY DEF T, Cached
  <2>2. \A d \in Calls : Running(d)' => Running(d) /\ pc'[d] = pc[d]
    BY DEF Running
  <2>3. \A d \in Calls : Lone(d)' => Lone(d) /\ pc'[d] = pc[d]
    BY <2>2 DEF Lone
  <2>4. \A d \in Calls : KeyTaken(d)' = KeyTaken(d)
    BY DEF KeyTaken, T
  <2> SUFFICES ASSUME NEW d \in Calls
               PROVE  /\ alone[d] => result[d] \notin {"busy", "poisoned", "conflict"}
                      /\ Lone(d)' =>
                        /\ \A b \in Calls \ {d} : T(b)' = T(d)' => ~Running(b)'
                        /\ pc'[d] \in {"open", "publish"} \/ (pc'[d] = "lookup" /\ d \in healing') =>
                             Cached(T(d))' = {}
                        /\ pc'[d] \in Inside \cup {"mutex"} => \A e \in Cached(T(d))' : e.conn = handle'[d]
                        /\ pc'[d] = "publish" \/ (pc'[d] = "mutex" /\ d \in healing') =>
                             handle'[d] \notin poisoned'
                        /\ pc'[d] \in {"begin", "commit"} => ~KeyTaken(d)'
    BY DEF AloneOK
  <2>5. alone[d] => result[d] \notin {"busy", "poisoned", "conflict"}
    BY DEF AloneOK
  <2>6. ASSUME Lone(d)'
        PROVE  /\ \A b \in Calls \ {d} : T(b)' = T(d)' => ~Running(b)'
               /\ pc'[d] \in {"open", "publish"} \/ (pc'[d] = "lookup" /\ d \in healing') =>
                    Cached(T(d))' = {}
               /\ pc'[d] \in Inside \cup {"mutex"} => \A e \in Cached(T(d))' : e.conn = handle'[d]
               /\ pc'[d] = "publish" \/ (pc'[d] = "mutex" /\ d \in healing') =>
                    handle'[d] \notin poisoned'
               /\ pc'[d] \in {"begin", "commit"} => ~KeyTaken(d)'
    <3>1. Lone(d) /\ pc'[d] = pc[d]
      BY <2>3, <2>6
    <3>2. \A b \in Calls \ {d} : T(b)' = T(d)' => ~Running(b)'
      BY <3>1, <2>1, <2>2 DEF AloneOK
    <3> QED
      BY <3>1, <3>2, <2>1, <2>4 DEF AloneOK
  <2> QED
    BY <2>5, <2>6
<1> QED
  BY <1>1, <1>2, <1>3, <1>4, <1>5

-----------------------------------------------------------------------------
(* Every step.                                                             *)

LEMMA CallMoves ==
  ASSUME PoolTypes, ConnInv, NEW c \in Calls, Call(c)
  PROVE  ConnInv'
<1> USE DEF ConnInv
<1>1. PICK o \in Ops :
        LET others == {d \in Calls \ {c} : Running(d) /\ T(d) = o.tenant} IN
        /\ op' = [op EXCEPT ![c] = o]
        /\ alone' = [d \in Calls |-> IF d = c THEN others = {}
                                     ELSE alone[d] /\ d \notin others]
        /\ Goto(c, "lookup") \/ Goto(c, "queued")
  BY DEF Call
<1> DEFINE others == {d \in Calls \ {c} : Running(d) /\ T(d) = o.tenant}
<1>2. /\ pc[c] = "new" /\ UNCHANGED <<cache, poisoned, writer, committed, handle, inside, healing, result>>
      /\ o \in Op
  BY PoolAssumption DEF Call, pool, files, task
<1>3. /\ pc'[c] \in {"lookup", "queued"} /\ \A d \in Calls : d # c => pc'[d] = pc[d]
      /\ T(c)' = o.tenant /\ \A d \in Calls : d # c => T(d)' = T(d) /\ op'[d] = op[d]
  <2>1. pc' = [pc EXCEPT ![c] = "lookup"] \/ pc' = [pc EXCEPT ![c] = "queued"]
    BY <1>1 DEF Goto
  <2>2. op' = [op EXCEPT ![c] = o]
    BY <1>1
  <2> QED
    BY <2>1, <2>2 DEF PoolTypes, T
<1>4. /\ handle[c] = NoConn /\ c \notin inside /\ c \notin healing
  BY <1>2 DEF HandlesOK, Holding, Inside
<1>5. /\ alone'[c] = (others = {}) /\ alone' \in [Calls -> BOOLEAN]
      /\ \A d \in Calls : d # c => alone'[d] = (alone[d] /\ d \notin others)
  <2>1. alone' = [d \in Calls |-> IF d = c THEN others = {} ELSE alone[d] /\ d \notin others]
    BY <1>1
  <2>2. \A d \in Calls : (IF d = c THEN others = {} ELSE alone[d] /\ d \notin others) \in BOOLEAN
    BY DEF HandlesOK
  <2> HIDE DEF others
  <2> QED
    BY <2>1, <2>2
<1>6. CacheIsOK(cache)'
  BY <1>2, CacheBecomes
<1>7. HandlesOK'
  <2>1. \A d \in Calls :
          /\ handle'[d] # NoConn <=> pc'[d] \in Holding
          /\ d \in inside' <=> pc'[d] \in Inside
          /\ d \in healing' => pc'[d] \notin {"new", "queued", "heal"}
    BY <1>2, <1>3, <1>4 DEF HandlesOK, Holding, Inside
  <2> QED
    BY <1>2, <1>5, <2>1 DEF HandlesOK, Conns
<1>8. MutexesOK'
  BY <1>2 DEF MutexesOK
<1>9. FilesOK'
  <2>1. \A e \in ToSet(cache) : e.conn # NoConn
    BY CachedConns
  <2> QED
    BY <1>2, <1>3, <1>4, <2>1 DEF FilesOK
<1>10. WritersOK'
  <2>1. \A d \in inside : d \in Calls /\ d # c
    BY <1>4 DEF HandlesOK
  <2> QED
    BY <1>2, <1>3, <2>1 DEF WritersOK
<1>11. AloneOK'
  <2> SUFFICES ASSUME NEW d \in Calls, alone'[d]
               PROVE  /\ result'[d] \notin {"busy", "poisoned", "conflict"}
                      /\ Lone(d)' =>
                        /\ \A b \in Calls \ {d} : T(b)' = T(d)' => ~Running(b)'
                        /\ pc'[d] \in {"open", "publish"} \/ (pc'[d] = "lookup" /\ d \in healing') =>
                             Cached(T(d))' = {}
                        /\ pc'[d] \in Inside \cup {"mutex"} => \A e \in Cached(T(d))' : e.conn = handle'[d]
                        /\ pc'[d] = "publish" \/ (pc'[d] = "mutex" /\ d \in healing') =>
                             handle'[d] \notin poisoned'
                        /\ pc'[d] \in {"begin", "commit"} => ~KeyTaken(d)'
    BY DEF AloneOK, Lone
  <2>1. CASE d = c
    <3>1. result'[c] = "none"
      BY <1>2 DEF PoolTypes
    <3>2. \A b \in Calls \ {c} : T(b)' = T(c)' => ~Running(b)'
      <4>1. others = {}
        BY <1>5, <2>1
      <4> QED
        BY <1>3, <4>1 DEF Running
    <3> QED
      BY <2>1, <3>1, <3>2, <1>2, <1>3, <1>4 DEF Inside
  <2>2. CASE d # c
    <3>1. alone[d] /\ d \notin others /\ result'[d] \notin {"busy", "poisoned", "conflict"}
      BY <1>2, <1>5, <2>2 DEF AloneOK
    <3>2. ASSUME Lone(d)'
          PROVE  /\ \A b \in Calls \ {d} : T(b)' = T(d)' => ~Running(b)'
                 /\ Lone(d) /\ pc'[d] = pc[d] /\ T(d)' = T(d) /\ op'[d] = op[d]
      <4>1. Lone(d) /\ Running(d) /\ pc'[d] = pc[d] /\ T(d)' = T(d) /\ op'[d] = op[d]
        BY <1>3, <2>2, <3>1, <3>2 DEF Lone, Running
      <4>2. T(d) # T(c)'
        BY <4>1, <3>1, <2>2, <1>3
      <4>3. \A b \in Calls \ {d, c} : T(b)' = T(d)' => ~Running(b)'
        BY <4>1, <1>3 DEF AloneOK, Running
      <4> QED
        BY <4>1, <4>2, <4>3
    <3>3. ASSUME Lone(d)'
          PROVE  Cached(T(d))' = Cached(T(d)) /\ KeyTaken(d)' = KeyTaken(d)
      BY <1>2, <3>2, <3>3 DEF Cached, KeyTaken
    <3> QED
      BY <3>1, <3>2, <3>3, <1>2 DEF AloneOK
  <2> QED
    BY <2>1, <2>2
<1> QED
  BY <1>6, <1>7, <1>8, <1>9, <1>10, <1>11

(* Whoever waits for the transaction of a connection of its tenant is not  *)
(* alone, or is in a closure on that connection.                           *)
LEMMA LoneFindsNoWriter ==
  ASSUME PoolTypes, ConnInv, NEW c \in Calls, Lone(c), WriteLocked(T(c)),
         pc[c] \in {"open", "begin"}
  PROVE  FALSE
<1> USE DEF ConnInv
<1> DEFINE n == writer[T(c)]
<1>1. n \in Live /\ n # NoConn /\ T(c) \in Tenants
  BY DEF WriteLocked, PoolTypes, T, Op
<1>2. ASSUME NEW e \in ToSet(cache), e.conn = n
      PROVE  pc[c] \in Inside /\ handle[c] = n
  <2>1. e \in Cached(T(c))
    BY <1>1, <1>2 DEF FilesOK, Cached
  <2> QED
    BY <1>2, <2>1 DEF AloneOK, Inside
<1>3. ASSUME NEW d \in Calls, handle[d] = n
      PROVE  pc[c] \in Inside /\ handle[c] = n
  <2>1. Running(d) /\ T(d) = T(c)
    BY <1>1, <1>3, HeldIsRunning DEF FilesOK
  <2>2. d = c
    BY <2>1 DEF AloneOK
  <2> QED
    BY <1>1, <1>3, <2>2 DEF HandlesOK, Holding, Inside
<1>4. pc[c] \in Inside /\ handle[c] = n
  BY <1>1, <1>2, <1>3 DEF Live
<1>5. c \in inside /\ n \notin poisoned
  BY <1>4 DEF HandlesOK, MutexesOK
<1>6. PICK d \in inside : pc[d] = "commit" /\ handle[d] = n
  BY <1>1, <1>5 DEF WritersOK
<1>7. d = c
  BY <1>4, <1>5, <1>6 DEF MutexesOK
<1> QED
  BY <1>6, <1>7

LEMMA LookUpMoves ==
  ASSUME PoolTypes, ConnInv, NEW c \in Calls, LookUp(c)
  PROVE  ConnInv'
<1> USE DEF ConnInv
<1>1. /\ pc[c] = "lookup" /\ Running(c) /\ Continue /\ T(c) \in Tenants
      /\ UNCHANGED <<poisoned, writer, committed, inside, healing, op>>
  BY DEF LookUp, files, Running, Continue, PoolTypes, T, Op
<1>2. handle[c] = NoConn /\ handle \in [Calls -> Conns \cup {NoConn}] /\ NoConn \notin Conns
  BY <1>1 DEF HandlesOK, Holding, Inside, Conns, NoConn
<1>3. \A u \in Tenants : writer[u] \in Conns \cup {NoConn}
  BY DEF HandlesOK
<1>4. /\ writer' \in [Tenants -> Conns \cup {NoConn}] /\ poisoned' \subseteq poisoned
      /\ \A u \in Tenants : writer'[u] \in {writer[u], NoConn}
      /\ \A u \in Tenants : writer'[u] \in poisoned => writer'[u] \in poisoned'
  BY <1>1 DEF HandlesOK
<1>5. CASE Cached(T(c)) = {}
  <2>1. Goto(c, "open") /\ cache' = cache /\ handle' = handle
    BY <1>5 DEF LookUp
  <2>2. handle' = [handle EXCEPT ![c] = NoConn] /\ NoConn \in Conns \cup {NoConn}
    BY <1>2, <2>1
  <2>3. CacheIsOK(cache)'
    BY <2>1, CacheBecomes
  <2>4. FilesOK'
    BY <1>1, <2>1, FilesFrame
  <2>5. /\ \A u \in Tenants \ {T(c)} : Cached(u)' \subseteq Cached(u)
        /\ Cached(T(c))' = {}
    BY <1>1, <1>5, <2>1 DEF Cached, T
  <2>6. "open" \notin Holding /\ "open" \notin Inside \cup {"new", "queued"}
    BY DEF Holding, Inside
  <2>7. /\ pc[c] \notin Inside /\ healing \subseteq healing' /\ healing' \subseteq healing \cup {c}
        /\ UNCHANGED <<committed, inside>> /\ "open" # "heal"
        /\ ~(NoConn # NoConn) /\ "open" # "mutex"
        /\ ~("open" = "publish" \/ ("open" = "mutex" /\ c \in healing'))
    BY <1>1 DEF Inside
  <2> QED
    BY <1>1, <1>4, <2>1, <2>2, <2>3, <2>4, <2>5, <2>6, <2>7, FetchOK
<1>6. CASE Cached(T(c)) # {}
  <2>1. PICK e \in Cached(T(c)) :
          cache' = Touched(e) /\ handle' = [handle EXCEPT ![c] = e.conn] /\ Goto(c, "mutex")
    BY <1>6 DEF LookUp
  <2>2. /\ e \in Entries /\ e \in ToSet(cache) /\ CacheIsOK(Touched(e))
        /\ ToSet(Touched(e)) = ToSet(cache) /\ \A f \in Cached(T(c)) : f = e
    BY <1>1, FoundIs
  <2>3. CacheIsOK(cache)' /\ ToSet(cache)' = ToSet(cache)
    BY <2>1, <2>2, CacheBecomes
  <2>4. e.conn \in Conns \cup {NoConn} /\ e.conn # NoConn
    BY <1>2, <2>2 DEF Entries
  <2>5. FilesOK'
    <3>1. \A f \in ToSet(cache)' : f \in ToSet(cache)
      BY <2>3
    <3> QED
      BY <1>1, <2>1, <3>1, FilesMove
  <2>6. /\ \A u \in Tenants \ {T(c)} : Cached(u)' \subseteq Cached(u)
        /\ \A f \in Cached(T(c))' : f.conn = e.conn
    <3>1. \A u \in Tenants : Cached(u)' = Cached(u)
      BY <2>3 DEF Cached
    <3>2. Cached(T(c))' = Cached(T(c))
      BY <1>1, <2>3 DEF Cached, T
    <3> QED
      BY <3>1, <3>2, <2>2
  <2>7. ~(Lone(c) /\ c \in healing)
    BY <1>1, <1>6 DEF AloneOK
  <2>8. "mutex" \in Holding /\ "mutex" \notin Inside \cup {"new", "queued"}
    BY DEF Holding, Inside
  <2> QED
    BY <1>1, <1>4, <2>1, <2>3, <2>4, <2>5, <2>6, <2>7, <2>8, FetchOK DEF Inside
<1> QED
  BY <1>5, <1>6

LEMMA OpenMoves ==
  ASSUME PoolTypes, ConnInv, NEW c \in Calls, Open(c)
  PROVE  ConnInv'
<1> USE DEF ConnInv
<1>1. /\ pc[c] = "open" /\ Running(c) /\ cache' = cache /\ committed' = committed
      /\ handle[c] = NoConn /\ NoConn \notin Conns /\ c \notin inside
  BY DEF Open, Running, HandlesOK, Holding, Inside, Conns, NoConn
<1>2. CASE WriteLocked(T(c))
  <2>1. Finish(c, "busy") /\ UNCHANGED <<poisoned, writer>>
    BY <1>2 DEF Open
  <2>2. ~alone[c]
    BY <1>1, <1>2, LoneFindsNoWriter DEF Lone
  <2> QED
    BY <1>1, <2>1, <2>2, EndsOK DEF HandlesOK
<1>3. CASE ~WriteLocked(T(c))
  <2> DEFINE n == CHOOSE m \in Conns \ Live : TRUE
  <2>1. /\ handle' = [handle EXCEPT ![c] = n]
        /\ poisoned' = poisoned \ {n}
        /\ writer' = [t \in Tenants |-> IF writer[t] = n THEN NoConn ELSE writer[t]]
        /\ Goto(c, "publish") /\ UNCHANGED <<inside, healing>> /\ Continue
    BY <1>3 DEF Open
  <2>2. n \in Conns /\ n \notin Live /\ n # NoConn
    BY <1>1, FreshExists
  <2> HIDE DEF n
  <2>3. /\ \A e \in ToSet(cache) : e.conn # n
        /\ \A d \in Calls : handle[d] # n
        /\ \A d \in Calls : handle'[d] = IF d = c THEN n ELSE handle[d]
        /\ \A t \in Tenants : writer'[t] # n /\ writer'[t] \in {writer[t], NoConn}
        /\ \A d \in Calls : T(d)' = T(d)
        /\ op' = op
    BY <2>1, <2>2 DEF Live, HandlesOK, Continue, T
  <2>4. FilesOK'
    <3>1. \A e \in ToSet(cache) : e.conn # NoConn
      BY CachedConns
    <3>2. \A e, f \in ToSet(cache) : e.conn = f.conn => e.tenant = f.tenant
      BY DEF FilesOK
    <3>3. \A e \in ToSet(cache), d \in Calls : handle'[d] = e.conn => T(d)' = e.tenant
      BY <2>3 DEF FilesOK
    <3>4. \A b, d \in Calls : handle'[b] = handle'[d] /\ handle'[b] # NoConn => T(b)' = T(d)'
      BY <2>3 DEF FilesOK
    <3>5. \A t \in Tenants, e \in ToSet(cache) : writer'[t] = e.conn => e.tenant = t
      BY <2>3, <3>1 DEF FilesOK
    <3>6. \A t \in Tenants, d \in Calls : writer'[t] = handle'[d] /\ handle'[d] # NoConn => T(d)' = t
      BY <2>3 DEF FilesOK
    <3> QED
      BY <1>1, <3>2, <3>3, <3>4, <3>5, <3>6 DEF FilesOK
  <2>5. CacheIsOK(cache)'
    BY <1>1, CacheBecomes
  <2>6. /\ writer' \in [Tenants -> Conns \cup {NoConn}] /\ poisoned' \subseteq poisoned
        /\ \A t \in Tenants : writer'[t] \in poisoned => writer'[t] \in poisoned'
        /\ n \notin poisoned'
    BY <2>1, <2>3 DEF HandlesOK
  <2>7. /\ \A u \in Tenants \ {T(c)} : Cached(u)' \subseteq Cached(u)
        /\ Lone(c) => Cached(T(c))' = {}
    BY <1>1, <2>3 DEF Cached, AloneOK
  <2>8. "publish" \in Holding /\ "publish" \notin Inside \cup {"new", "queued"}
    BY DEF Holding, Inside
  <2>9. /\ pc[c] \notin Inside /\ healing \subseteq healing' /\ healing' \subseteq healing \cup {c}
        /\ UNCHANGED <<committed, inside>>
        /\ \A t \in Tenants : writer'[t] \in {writer[t], NoConn}
    BY <1>1, <2>1, <2>3 DEF Inside
  <2> QED
    BY <1>1, <2>1, <2>2, <2>4, <2>5, <2>6, <2>7, <2>8, <2>9, FetchOK
<1> QED
  BY <1>2, <1>3

LEMMA PublishMoves ==
  ASSUME PoolTypes, ConnInv, NEW c \in Calls, Publish(c)
  PROVE  ConnInv'
<1> USE DEF ConnInv
<1>1. /\ pc[c] = "publish" /\ Running(c) /\ Goto(c, "mutex") /\ Continue /\ T(c) \in Tenants
      /\ UNCHANGED <<poisoned, writer, committed, inside, healing, op>>
  BY DEF Publish, files, Running, Continue, PoolTypes, T, Op
<1>2. /\ handle[c] # NoConn /\ handle[c] \in Conns /\ handle \in [Calls -> Conns \cup {NoConn}]
      /\ NoConn \notin Conns
  BY <1>1 DEF HandlesOK, Holding, Inside, Conns, NoConn
<1>3. /\ writer' \in [Tenants -> Conns \cup {NoConn}] /\ poisoned' \subseteq poisoned
      /\ \A u \in Tenants : writer'[u] \in {writer[u], NoConn}
      /\ \A u \in Tenants : writer'[u] \in poisoned => writer'[u] \in poisoned'
  BY <1>1 DEF HandlesOK
<1>4. "mutex" \in Holding /\ "mutex" \notin Inside \cup {"new", "queued"}
  BY DEF Holding, Inside
<1>5. CASE Cached(T(c)) = {}
  <2> DEFINE e == Entry(T(c), handle[c])
  <2>1. cache' = Pushed(e) /\ handle' = handle
    BY <1>5 DEF Publish
  <2>2. e \in Entries /\ e.tenant = T(c) /\ e.conn = handle[c]
    BY <1>1, <1>2 DEF Entry, Entries
  <2> HIDE DEF e
  <2>3. CacheIsOK(Pushed(e)) /\ ToSet(Pushed(e)) \subseteq {e} \cup ToSet(cache)
    BY <1>5, <2>2, PushedIs
  <2>4. CacheIsOK(cache)' /\ ToSet(cache)' \subseteq {e} \cup ToSet(cache)
    BY <2>1, <2>3, CacheBecomes
  <2>5. handle' = [handle EXCEPT ![c] = handle[c]]
    BY <1>2, <2>1
  <2>6. FilesOK'
    <3>1. \A f \in ToSet(cache)' :
            f \in ToSet(cache) \/ (handle[c] # NoConn /\ f.conn = handle[c] /\ f.tenant = T(c))
      BY <1>2, <2>2, <2>4
    <3> QED
      BY <1>1, <2>5, <3>1, FilesMove
  <2>7. /\ \A u \in Tenants \ {T(c)} : Cached(u)' \subseteq Cached(u)
        /\ \A f \in Cached(T(c))' : f.conn = handle[c]
    <3>1. T(c)' = T(c)
      BY <1>1 DEF T
    <3> QED
      BY <1>5, <2>2, <2>4, <3>1 DEF Cached
  <2>8. Lone(c) => handle[c] \notin poisoned'
    BY <1>1 DEF AloneOK
  <2> QED
    BY <1>1, <1>2, <1>3, <1>4, <2>4, <2>5, <2>6, <2>7, <2>8, FetchOK DEF Inside
<1>6. CASE Cached(T(c)) # {}
  <2>1. PICK e \in Cached(T(c)) :
          cache' = Touched(e) /\ handle' = [handle EXCEPT ![c] = e.conn]
    BY <1>6 DEF Publish
  <2>2. /\ e \in Entries /\ e \in ToSet(cache) /\ CacheIsOK(Touched(e))
        /\ ToSet(Touched(e)) = ToSet(cache)
    BY <1>1, FoundIs
  <2>3. CacheIsOK(cache)' /\ ToSet(cache)' = ToSet(cache)
    BY <2>1, <2>2, CacheBecomes
  <2>4. e.conn \in Conns \cup {NoConn} /\ e.conn # NoConn
    BY <1>2, <2>2 DEF Entries
  <2>5. FilesOK'
    <3>1. \A f \in ToSet(cache)' : f \in ToSet(cache)
      BY <2>3
    <3> QED
      BY <1>1, <2>1, <3>1, FilesMove
  <2>6. \A u \in Tenants \ {T(c)} : Cached(u)' \subseteq Cached(u)
    BY <2>3 DEF Cached
  <2>7. ~Lone(c)
    BY <1>1, <1>6 DEF AloneOK
  <2> QED
    BY <1>1, <1>3, <1>4, <2>1, <2>3, <2>4, <2>5, <2>6, <2>7, FetchOK DEF Inside
<1> QED
  BY <1>5, <1>6

LEMMA HealMoves ==
  ASSUME PoolTypes, ConnInv, NEW c \in Calls, Heal(c)
  PROVE  ConnInv'
<1> USE DEF ConnInv
<1>1. /\ pc[c] = "heal" /\ Running(c) /\ Goto(c, "lookup") /\ Continue /\ T(c) \in Tenants
      /\ cache' = Without(T(c)) /\ handle' = [handle EXCEPT ![c] = NoConn]
      /\ healing' = healing \cup {c}
      /\ UNCHANGED <<poisoned, writer, committed, inside, op>>
  BY DEF Heal, DropsHandle, files, Running, Continue, PoolTypes, T, Op
<1>2. /\ CacheIsOK(Without(T(c))) /\ ToSet(Without(T(c))) = ToSet(cache) \ Cached(T(c))
  BY <1>1, WithoutIs
<1>3. CacheIsOK(cache)' /\ ToSet(cache)' = ToSet(cache) \ Cached(T(c))
  BY <1>1, <1>2, CacheBecomes
<1>4. FilesOK'
  BY <1>1, <1>3, FilesMove
<1>5. /\ \A u \in Tenants \ {T(c)} : Cached(u)' \subseteq Cached(u)
      /\ Cached(T(c))' = {}
  BY <1>1, <1>3 DEF Cached, T
<1>6. /\ writer' \in [Tenants -> Conns \cup {NoConn}] /\ poisoned' \subseteq poisoned
      /\ \A u \in Tenants : writer'[u] \in {writer[u], NoConn}
      /\ \A u \in Tenants : writer'[u] \in poisoned => writer'[u] \in poisoned'
  BY <1>1 DEF HandlesOK
<1>7. "lookup" \notin Holding /\ "lookup" \notin Inside \cup {"new", "queued"}
  BY DEF Holding, Inside
<1>8. /\ pc[c] \notin Inside /\ healing \subseteq healing' /\ healing' \subseteq healing \cup {c}
      /\ UNCHANGED <<committed, inside>> /\ "lookup" # "heal" /\ NoConn \in Conns \cup {NoConn}
      /\ ~(NoConn # NoConn) /\ "lookup" # "mutex"
      /\ ~("lookup" = "publish" \/ ("lookup" = "mutex" /\ c \in healing'))
  BY <1>1 DEF Inside
<1> QED
  BY <1>1, <1>3, <1>4, <1>5, <1>6, <1>7, <1>8, FetchOK

(* An end that changes neither the pool nor, but for a commit, the files.  *)
LEMMA EndsPlainly ==
  ASSUME PoolTypes, ConnInv, NEW c \in Calls, Running(c), pc[c] # "commit", NEW r, Finish(c, r),
         UNCHANGED <<cache, poisoned, writer, committed>>,
         r \in {"busy", "poisoned", "conflict"} => ~alone[c]
  PROVE  ConnInv'
<1>1. writer' \in [Tenants -> Conns \cup {NoConn}] /\ poisoned' \subseteq Conns
  BY DEF ConnInv, HandlesOK
<1> QED
  BY <1>1, EndsOK

LEMMA MutexMoves ==
  ASSUME PoolTypes, ConnInv, NEW c \in Calls, LockMutex(c)
  PROVE  ConnInv'
<1> USE DEF ConnInv
<1>1. /\ pc[c] = "mutex" /\ Running(c) /\ UNCHANGED <<pool, files>>
      /\ \A d \in inside : handle[d] # handle[c]
  BY DEF LockMutex, Running
<1>2. "mutex" \in Holding /\ "mutex" \notin Inside /\ "heal" \in Holding /\ "heal" \notin Inside
  BY DEF Holding, Inside
<1>3. UNCHANGED <<cache, poisoned, writer, committed>>
  BY <1>1 DEF pool, files
<1>4. CASE ~FoundPoisoned(c)
  <2>1. PICK p \in {"read", "begin", "check"} :
          /\ Goto(c, p) /\ Continue
          /\ inside' = inside \cup {c} /\ UNCHANGED <<handle, healing>>
          /\ p = "begin" => op[c].key = {}
    BY <1>4 DEF LockMutex
  <2>2. /\ p \in Inside /\ p \in Holding
        /\ p \notin {"new", "queued", "publish", "open", "heal", "mutex", "lookup", "commit"}
    BY DEF Holding, Inside
  <2>3. handle[c] \notin poisoned
    BY <1>4 DEF FoundPoisoned
  <2>4. Lone(c) => \A e \in Cached(T(c)) : e.conn = handle[c]
    BY <1>1 DEF AloneOK
  <2>5. p \in {"begin", "commit"} => ~KeyTaken(c)
    BY <2>1, <2>2 DEF KeyTaken
  <2>6. UNCHANGED <<pool, handle, healing, committed>> /\ writer' = writer
    BY <1>1, <1>3, <2>1
  <2> QED
    BY <1>1, <1>2, <2>1, <2>2, <2>3, <2>4, <2>5, <2>6, MovesOK
<1>5. CASE FoundPoisoned(c) /\ c \in healing
  <2>1. Finish(c, "poisoned")
    BY <1>5 DEF LockMutex
  <2>2. ~alone[c]
    BY <1>1, <1>5 DEF AloneOK, Lone, FoundPoisoned
  <2> QED
    BY <1>1, <1>3, <2>1, <2>2, EndsPlainly
<1>6. CASE FoundPoisoned(c) /\ c \notin healing
  <2>1. Goto(c, "heal") /\ UNCHANGED <<handle, inside, healing>> /\ Continue
    BY <1>6 DEF LockMutex, task
  <2>2. "heal" \notin {"new", "queued", "publish", "open", "mutex", "lookup", "commit", "begin"}
    OBVIOUS
  <2>3. UNCHANGED <<pool, handle, healing, committed>> /\ writer' = writer
    BY <1>1, <1>3, <2>1
  <2> QED
    BY <1>1, <1>2, <1>6, <2>1, <2>2, <2>3, MovesOK
<1> QED
  BY <1>4, <1>5, <1>6

LEMMA LookUpKeyMoves ==
  ASSUME PoolTypes, ConnInv, NEW c \in Calls, LookUpKey(c)
  PROVE  ConnInv'
<1> USE DEF ConnInv
<1>1. /\ pc[c] = "check" /\ Running(c) /\ UNCHANGED <<pool, files>>
      /\ UNCHANGED <<cache, poisoned, writer, committed>>
  BY DEF LookUpKey, Running, pool, files
<1>2. CASE op[c].key \subseteq committed[T(c)]
  <2>1. Finish(c, "replayed")
    BY <1>2 DEF LookUpKey
  <2> QED
    BY <1>1, <2>1, EndsPlainly
<1>3. CASE ~(op[c].key \subseteq committed[T(c)])
  <2>1. Goto(c, "begin") /\ UNCHANGED <<handle, inside, healing>> /\ Continue
    BY <1>3 DEF LookUpKey, task
  <2>2. ~KeyTaken(c)
    <3>1. op[c].key \in AtMostOneKey
      BY DEF PoolTypes, Op
    <3> QED
      BY <1>3, <3>1 DEF KeyTaken, AtMostOneKey
  <2>3. /\ "check" \in Inside /\ "check" \in Holding /\ "begin" \in Inside /\ "begin" \in Holding
        /\ "begin" \notin {"new", "queued", "publish", "open", "heal", "mutex", "lookup", "commit"}
    BY DEF Holding, Inside
  <2>4. /\ c \in inside /\ handle[c] \notin poisoned
        /\ \A d \in inside : handle[d] = handle[c] => d = c
        /\ inside' = inside \cup {c}
    BY <1>1, <2>1, <2>3 DEF HandlesOK, MutexesOK
  <2>5. Lone(c) => \A e \in Cached(T(c)) : e.conn = handle[c]
    BY <1>1, <2>3 DEF AloneOK
  <2>6. UNCHANGED <<pool, handle, healing, committed>> /\ writer' = writer
    BY <1>1, <2>1
  <2> QED
    BY <1>1, <2>1, <2>2, <2>3, <2>4, <2>5, <2>6, MovesOK
<1> QED
  BY <1>2, <1>3

LEMMA BeginMoves ==
  ASSUME PoolTypes, ConnInv, NEW c \in Calls, BeginImmediate(c)
  PROVE  ConnInv'
<1> USE DEF ConnInv
<1>1. /\ pc[c] = "begin" /\ Running(c) /\ UNCHANGED pool
      /\ UNCHANGED <<cache, poisoned, committed>>
  BY DEF BeginImmediate, Running, pool
<1>2. CASE WriteLocked(T(c))
  <2>1. Finish(c, "busy") /\ UNCHANGED writer
    BY <1>2 DEF BeginImmediate
  <2>2. ~alone[c]
    BY <1>1, <1>2, LoneFindsNoWriter DEF Lone
  <2> QED
    BY <1>1, <2>1, <2>2, EndsPlainly
<1>3. CASE ~WriteLocked(T(c))
  <2>1. /\ Goto(c, "commit") /\ UNCHANGED <<handle, inside, healing>> /\ Continue
        /\ writer' = [writer EXCEPT ![T(c)] = handle[c]]
    BY <1>3 DEF BeginImmediate, task
  <2>2. /\ "begin" \in Inside /\ "begin" \in Holding /\ "commit" \in Inside /\ "commit" \in Holding
        /\ "commit" \notin {"new", "queued", "publish", "open", "heal", "mutex", "lookup"}
    BY DEF Holding, Inside
  <2>3. /\ c \in inside /\ handle[c] \notin poisoned /\ handle[c] # NoConn
        /\ \A d \in inside : handle[d] = handle[c] => d = c
        /\ inside' = inside \cup {c}
    BY <1>1, <2>1, <2>2 DEF HandlesOK, MutexesOK
  <2>4. Lone(c) => ~KeyTaken(c) /\ \A e \in Cached(T(c)) : e.conn = handle[c]
    BY <1>1, <2>2 DEF AloneOK
  <2>5. UNCHANGED <<pool, handle, healing, committed>>
    BY <1>1, <2>1
  <2> QED
    BY <1>1, <2>1, <2>2, <2>3, <2>4, <2>5, MovesOK
<1> QED
  BY <1>2, <1>3

LEMMA CommitMoves ==
  ASSUME PoolTypes, ConnInv, NEW c \in Calls, Commit(c)
  PROVE  ConnInv'
<1> USE DEF ConnInv
<1>1. /\ pc[c] = "commit" /\ Running(c) /\ UNCHANGED <<cache, poisoned>> /\ T(c) \in Tenants
      /\ writer' = [writer EXCEPT ![T(c)] = NoConn]
  BY DEF Commit, Running, pool, PoolTypes, T, Op
<1>2. /\ writer' \in [Tenants -> Conns \cup {NoConn}] /\ writer'[T(c)] = NoConn
      /\ \A t \in Tenants : writer'[t] \in {writer[t], NoConn}
      /\ poisoned' \subseteq Conns
  BY <1>1 DEF HandlesOK
<1>3. CASE KeyTaken(c)
  <2>1. Finish(c, "conflict") /\ committed' = committed
    BY <1>3 DEF Commit
  <2>2. ~alone[c]
    BY <1>1, <1>3 DEF AloneOK, Lone
  <2> QED
    BY <1>1, <1>2, <2>1, <2>2, EndsOK
<1>4. CASE ~KeyTaken(c)
  <2>1. Finish(c, "ok") /\ committed' = [committed EXCEPT ![T(c)] = @ \cup op[c].key]
    BY <1>4 DEF Commit
  <2>2. \A t \in Tenants \ {T(c)} : committed'[t] = committed[t]
    BY <2>1 DEF PoolTypes
  <2> QED
    BY <1>1, <1>2, <2>1, <2>2, EndsOK
<1> QED
  BY <1>3, <1>4

(* The mutex of a closure that panics is poisoned, whatever it leaves.     *)
LEMMA PanicMoves ==
  ASSUME PoolTypes, ConnInv, NEW c \in Calls, Panic(c)
  PROVE  ConnInv'
<1> USE DEF ConnInv
<1>1. /\ c \in inside /\ pc[c] \in Inside /\ Running(c) /\ handle[c] \in Conns
      /\ UNCHANGED <<cache, committed>> /\ Finish(c, "panicked")
      /\ poisoned' = poisoned \cup {handle[c]}
  BY DEF Panic, Running, HandlesOK, Holding, Inside
<1>2. writer' = writer \/ writer' = [writer EXCEPT ![T(c)] = NoConn]
  BY DEF Panic
<1>3. /\ writer' \in [Tenants -> Conns \cup {NoConn}]
      /\ \A t \in Tenants : writer'[t] \in {writer[t], NoConn}
      /\ poisoned' \subseteq Conns /\ poisoned \subseteq poisoned' /\ handle[c] \in poisoned'
      /\ \A n \in poisoned' \ poisoned : n = handle[c] /\ c \in inside
  BY <1>1, <1>2 DEF HandlesOK
<1> QED
  BY <1>1, <1>3, EndsOK

LEMMA WorkMoves ==
  ASSUME PoolTypes, ConnInv, NEW c \in Calls, Work(c)
  PROVE  ConnInv'
<1>1. CASE Acquire(c)
  <2> USE DEF ConnInv
  <2>1. /\ pc[c] = "queued" /\ Running(c) /\ Goto(c, "lookup") /\ Continue
        /\ UNCHANGED <<pool, handle, inside, healing, committed, writer>>
    BY <1>1 DEF Acquire, Running, files, task
  <2>2. c \notin healing
    BY <2>1 DEF HandlesOK
  <2>3. /\ "queued" \notin Holding /\ "queued" \notin Inside
        /\ "lookup" \notin Holding /\ "lookup" \notin Inside
        /\ "lookup" \notin {"new", "queued", "publish", "open", "heal", "mutex", "begin", "commit"}
    BY DEF Holding, Inside
  <2>4. inside' = inside /\ writer' = writer /\ UNCHANGED <<pool, handle, healing, committed>>
    BY <2>1
  <2> QED
    BY <2>1, <2>2, <2>3, <2>4, MovesOK
<1>2. CASE Read(c)
  <2>1. /\ pc[c] = "read" /\ Running(c) /\ Finish(c, "ok")
        /\ UNCHANGED <<cache, poisoned, writer, committed>>
    BY <1>2 DEF Read, Running, pool, files
  <2> QED
    BY <2>1, EndsPlainly
<1> QED
  BY <1>1, <1>2, LookUpMoves, OpenMoves, PublishMoves, MutexMoves, HealMoves, LookUpKeyMoves,
     BeginMoves, CommitMoves DEF Work

LEMMA ConnInitHolds == PoolInit => ConnInv
<1> SUFFICES ASSUME PoolInit PROVE ConnInv
  OBVIOUS
<1>1. CacheIsOK(cache)
  <2>1. cache = <<>> /\ <<>> \in Seq(Entries) /\ Len(<<>>) = 0 /\ MaxOpen \in Nat
    BY PoolAssumption DEF PoolInit
  <2> QED
    BY <2>1 DEF CacheIsOK
<1>2. ToSet(cache) = {}
  <2>1. cache = <<>>
    BY DEF PoolInit
  <2> QED
    BY <2>1 DEF ToSet
<1>3. HandlesOK
  BY DEF PoolInit, HandlesOK, Holding, Inside
<1>4. MutexesOK /\ WritersOK
  BY DEF PoolInit, MutexesOK, WritersOK
<1>5. FilesOK
  BY <1>2, <1>3 DEF PoolInit, FilesOK, HandlesOK, Holding, Inside
<1>6. AloneOK
  BY DEF PoolInit, AloneOK, Lone
<1> QED
  BY <1>1, <1>3, <1>4, <1>5, <1>6 DEF ConnInv

LEMMA ConnNextKeeps == PoolIInv /\ ConnInv /\ [PoolNext]_poolVars => ConnInv'
<1> SUFFICES ASSUME PoolTypes, ConnInv, [PoolNext]_poolVars PROVE ConnInv'
  BY DEF PoolIInv
<1>1. CASE Forget
  <2>1. PICK t \in Tenants : cache' = Without(t)
    BY <1>1 DEF Forget
  <2>2. CacheIsOK(Without(t)) /\ ToSet(Without(t)) = ToSet(cache) \ Cached(t)
    BY WithoutIs DEF ConnInv
  <2>3. CacheIsOK(cache)' /\ ToSet(cache)' \subseteq ToSet(cache)
    BY <2>1, <2>2, CacheBecomes
  <2>4. UNCHANGED <<poisoned, files, task, op, result, alone>> /\ pc' = pc
    BY <1>1 DEF Forget
  <2> QED
    BY <2>3, <2>4, LeavesOK
<1>2. ASSUME NEW c \in Calls, DropFuture(c) PROVE ConnInv'
  <2>1. /\ UNCHANGED <<poisoned, files, task, op, result, alone>> /\ cache' = cache
        /\ pc' = pc \/ (pc[c] = "queued" /\ pc' = [pc EXCEPT ![c] = "done"])
    BY <1>2 DEF DropFuture, Goto, pool
  <2>2. \A d \in Calls : pc'[d] = pc[d] \/ (pc[d] = "queued" /\ pc'[d] = "done")
    BY <2>1 DEF PoolTypes
  <2>3. CacheIsOK(cache)' /\ ToSet(cache)' \subseteq ToSet(cache)
    BY <2>1, CacheBecomes DEF ConnInv
  <2> QED
    BY <2>1, <2>2, <2>3, LeavesOK
<1>3. CASE UNCHANGED poolVars
  <2>1. UNCHANGED <<poisoned, files, task, op, result, alone>> /\ cache' = cache /\ pc' = pc
    BY <1>3 DEF poolVars, pool
  <2>2. CacheIsOK(cache)' /\ ToSet(cache)' \subseteq ToSet(cache)
    BY <2>1, CacheBecomes DEF ConnInv
  <2> QED
    BY <2>1, <2>2, LeavesOK
<1> QED
  BY <1>1, <1>2, <1>3, PanicMoves, CallMoves, WorkMoves DEF PoolNext

-----------------------------------------------------------------------------
(* The theorems.                                                           *)

(* A connection has one holder and one tenant, a poisoned one is in no     *)
(* closure, and only a closure about to commit has its transaction open.   *)
THEOREM ConnectionInvariant == PoolSpec => [](PoolIInv /\ ConnInv)
<1>1. PoolInit => ConnInv
  BY ConnInitHolds
<1>2. PoolIInv /\ ConnInv /\ [PoolNext]_poolVars => ConnInv'
  BY ConnNextKeeps
<1> QED
  BY <1>1, <1>2, PoolInvariant, PTL DEF PoolSpec

LEMMA OneIsCached ==
  ASSUME ConnInv, NEW t \in Tenants
  PROVE  Cardinality(Cached(t)) =< 1
<1>1. CASE Cached(t) = {}
  <2>1. Cardinality({}) = 0
    BY FS_EmptySet
  <2> QED
    BY <1>1, <2>1
<1>2. CASE Cached(t) # {}
  <2>1. PICK e : e \in Cached(t)
    BY <1>2
  <2>2. Cached(t) = {e}
    BY <2>1, FoundIs DEF ConnInv
  <2>3. Cardinality({e}) = 1
    BY FS_Singleton
  <2> QED
    BY <2>2, <2>3
<1> QED
  BY <1>1, <1>2

LEMMA ConnectionsAreClean ==
  ASSUME PoolIInv, ConnInv
  PROVE  CleanConnections
<1> USE DEF ConnInv
<1> SUFFICES ASSUME NEW c \in inside, writer[T(c)] = handle[c]
             PROVE  pc[c] = "commit"
  BY DEF CleanConnections, MutexesOK
<1>1. c \in Calls /\ handle[c] # NoConn /\ handle[c] \notin poisoned /\ T(c) \in Tenants
  BY DEF PoolIInv, PoolTypes, T, Op, HandlesOK, MutexesOK, Holding
<1>2. PICK d \in inside : pc[d] = "commit" /\ handle[d] = handle[c]
  BY <1>1 DEF WritersOK
<1>3. d = c
  BY <1>2 DEF MutexesOK
<1> QED
  BY <1>2, <1>3

(* For any number of tenants, calls, connections and faults: the pool      *)
(* keeps one connection of a tenant and no more than its capacity, no      *)
(* closure runs on a connection a panic poisoned or left a transaction in, *)
(* and a call that none of its tenant overlaps is never refused for what   *)
(* an earlier panic or dropped future left behind.                         *)
THEOREM PoolStaysSound == PoolSpec => []PoolInv
<1>1. PoolIInv /\ ConnInv => PoolInv
  <2> SUFFICES ASSUME PoolIInv, ConnInv PROVE PoolInv
    OBVIOUS
  <2>1. PoolTypeOK
    <3>1. /\ \A e \in ToSet(cache) : e.tenant \in Tenants /\ e.conn \in Conns
          /\ Len(cache) =< MaxOpen
      BY CachedConns DEF ConnInv, CacheIsOK
    <3>2. /\ poisoned \subseteq Conns /\ inside \subseteq Calls
          /\ \A c \in inside : handle[c] \in Conns
          /\ \A t \in Tenants : writer[t] \in Conns \cup {NoConn} /\ committed[t] \subseteq Keys
      BY DEF ConnInv, HandlesOK, Holding, PoolIInv, PoolTypes
    <3> QED
      BY <3>1, <3>2, OneIsCached DEF PoolTypeOK
  <2>2. LoneCallsSucceed
    BY DEF ConnInv, AloneOK, LoneCallsSucceed
  <2>3. ConflictNeedsDrop
    BY DEF PoolIInv, SlipsNeedDrop, ConflictNeedsDrop, DropOf
  <2> QED
    BY <2>1, <2>2, <2>3, ConnectionsAreClean DEF PoolInv
<1> QED
  BY <1>1, ConnectionInvariant, PTL

===============================================================================
