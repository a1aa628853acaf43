----------------------------- MODULE TenantPool -----------------------------
(***************************************************************************)
(* TenantManager (memorysafe-backend-sqlite/src/tenant.rs): a pool of one  *)
(* connection per tenant, the lock that serialises a tenant's writes, and  *)
(* the recovery from a panic, under calls that run at the same time.  It   *)
(* is what lets module Store take a backend operation for one step.        *)
(*                                                                         *)
(* A call is a future and a blocking task.  The future waits for the write *)
(* lock and holds it until it is answered or dropped; the task, once       *)
(* spawned, runs to its end even when its future was dropped.              *)
(***************************************************************************)
EXTENDS Integers, Sequences, FiniteSets, SequencesExt

CONSTANTS
  Tenants, Keys,
  MaxCalls,      \* bound: calls made
  Ops,           \* what a call may ask: [tenant, writes, key]
  MaxOpen,       \* capacity of the pool
  MaxFaults      \* bound: panics, dropped futures and forgotten tenants

NoConn == 0
NoCall == 0

(* Calls are numbered in the order they are made.                          *)
Calls == 1..MaxCalls

(* Connections: no more are open than the pool keeps and calls hold.  The  *)
(* name of a closed one is used again.                                     *)
Conns == 1..(MaxOpen + MaxCalls)

AtMostOneKey == {{}} \cup {{k} : k \in Keys}

(* with_conn or with_write, and the idempotency key of a write, if any.    *)
Op == [tenant : Tenants, writes : BOOLEAN, key : AtMostOneKey]
NoOp == [tenant |-> CHOOSE t \in Tenants : TRUE, writes |-> FALSE, key |-> {}]

ASSUME PoolAssumption ==
  /\ MaxCalls \in Nat /\ Tenants # {}
  /\ Ops \subseteq Op
  /\ \A o \in Ops : o.key # {} => o.writes
  /\ MaxOpen \in Nat \ {0} /\ MaxFaults \in Nat

VARIABLES
  cache,         \* LruCache, most recent first
  poisoned,      \* connections whose mutex is poisoned
  writer,        \* connection with an open write transaction, by tenant file
  committed,     \* idempotency keys in each tenant's file
  owner,         \* the call a tenant's write lock is held by, or handed to
  queue,         \* the calls that wait for it
  pc, op,
  dropped,       \* calls whose future was dropped
  handle,        \* the Arc<Mutex<Connection>> the task has
  inside,        \* calls that hold the mutex of their handle
  healing,       \* calls that found a poisoned connection
  result,
  alone,         \* history: calls no other call of their tenant overlapped
  writes,        \* history: how often a key was applied
  faults         \* panics, dropped futures and forgotten tenants so far

files == <<writer, committed, writes>>
pool  == <<cache, poisoned>>
task  == <<handle, inside, healing>>
lock  == <<owner, queue>>
poolVars == <<pool, files, lock, pc, op, dropped, task, result, alone, faults>>

PoolInit ==
  /\ cache = <<>> /\ poisoned = {}
  /\ writer = [t \in Tenants |-> NoConn]
  /\ committed = [t \in Tenants |-> {}]
  /\ writes = [t \in Tenants |-> [k \in Keys |-> 0]]
  /\ owner = [t \in Tenants |-> NoCall]
  /\ queue = [t \in Tenants |-> <<>>]
  /\ pc = [c \in Calls |-> "new"]
  /\ op = [c \in Calls |-> NoOp]
  /\ dropped = {} /\ faults = 0
  /\ handle = [c \in Calls |-> NoConn]
  /\ inside = {} /\ healing = {}
  /\ result = [c \in Calls |-> "none"]
  /\ alone = [c \in Calls |-> FALSE]

-----------------------------------------------------------------------------
T(c) == op[c].tenant
Running(c) == pc[c] \notin {"new", "done"}
Goto(c, p) == pc' = [pc EXCEPT ![c] = p]

Entry(t, n) == [tenant |-> t, conn |-> n]
Cached(t) == {e \in ToSet(cache) : e.tenant = t}

(* A connection is closed when its last Arc goes, which rolls back what    *)
(* its transaction did and releases the file's write lock.                 *)
Live == {e.conn : e \in ToSet(cache)} \cup {handle[c] : c \in Calls}
WriteLocked(t) == writer[t] \in Live \ {NoConn}

(* LruCache::pop, get and push.                                            *)
Without(t) ==
  IF Cached(t) = {} THEN cache
  ELSE RemoveAt(cache, CHOOSE i \in DOMAIN cache : cache[i].tenant = t)

Touched(e) == <<e>> \o Without(e.tenant)

Pushed(e) == IF Len(Touched(e)) > MaxOpen THEN Front(Touched(e)) ELSE Touched(e)

(* Variant: the write lock outlives the call that held it.                 *)
KeepsLock(c) == UNCHANGED lock

(* Dropping the guard, which hands the lock to whoever has waited longest, *)
(* or the future that waits for it.                                        *)
LeavesLock(c) ==
  IF owner[T(c)] # c
  THEN queue' = [queue EXCEPT ![T(c)] = SelectSeq(@, LAMBDA d : d # c)] /\ UNCHANGED owner
  ELSE IF queue[T(c)] = <<>>
  THEN owner' = [owner EXCEPT ![T(c)] = NoCall] /\ UNCHANGED queue
  ELSE owner' = [owner EXCEPT ![T(c)] = Head(queue[T(c)])] /\ queue' = [queue EXCEPT ![T(c)] = Tail(@)]

(* The task ends: what it holds is released, and its future, if it is      *)
(* still there, is answered and releases the write lock.                   *)
Finish(c, r) ==
  /\ Goto(c, "done")
  /\ result' = [result EXCEPT ![c] = r]
  /\ LeavesLock(c)
  /\ handle' = [handle EXCEPT ![c] = NoConn]
  /\ inside' = inside \ {c}
  /\ UNCHANGED <<op, dropped, healing, alone>>

(* The task goes on.                                                       *)
Continue == UNCHANGED <<lock, op, dropped, result, alone>>

Fault == faults < MaxFaults /\ faults' = faults + 1

-----------------------------------------------------------------------------
(* Variant: with_write forwards to with_conn without taking the lock.      *)
LockNothing(o) == FALSE

TakesLock(o) == o.writes

(* with_conn, or with_write, is called.                                    *)
Call(c) ==
  /\ pc[c] = "new" /\ \A d \in 1..c-1 : pc[d] # "new"
  /\ \E o \in Ops :
       LET others == {d \in Calls \ {c} : Running(d) /\ T(d) = o.tenant} IN
       /\ op' = [op EXCEPT ![c] = o]
       /\ alone' = [d \in Calls |-> IF d = c THEN others = {}
                                    ELSE alone[d] /\ d \notin others]
       /\ IF ~TakesLock(o) THEN Goto(c, "lookup") /\ UNCHANGED lock
          ELSE /\ Goto(c, "queued")
               /\ IF owner[o.tenant] = NoCall
                  THEN owner' = [owner EXCEPT ![o.tenant] = c] /\ UNCHANGED queue
                  ELSE queue' = [queue EXCEPT ![o.tenant] = Append(@, c)] /\ UNCHANGED owner
  /\ UNCHANGED <<pool, files, task, dropped, result>>

(* lock().await returns: the tokio mutex is handed over in the order of    *)
(* arrival, whether or not the future it goes to has been polled again.    *)
Acquire(c) ==
  /\ pc[c] = "queued"
  /\ owner[T(c)] = c
  /\ Goto(c, "lookup")
  /\ UNCHANGED <<pool, files, task>>
  /\ Continue

(* The future is dropped: a task already spawned runs on without the lock. *)
DropFuture(c) ==
  /\ Running(c) /\ c \notin dropped
  /\ Fault
  /\ dropped' = dropped \cup {c}
  /\ LeavesLock(c)
  /\ IF pc[c] = "queued" THEN Goto(c, "done") ELSE UNCHANGED pc
  /\ UNCHANGED <<pool, files, task, op, result, alone>>

-----------------------------------------------------------------------------
(* Pool::handle.                                                           *)

LookUp(c) ==
  /\ pc[c] = "lookup"
  /\ IF Cached(T(c)) = {}
     THEN Goto(c, "open") /\ UNCHANGED <<cache, handle>>
     ELSE \E e \in Cached(T(c)) :
            /\ cache' = Touched(e)
            /\ handle' = [handle EXCEPT ![c] = e.conn]
            /\ Goto(c, "mutex")
  /\ UNCHANGED <<poisoned, files, inside, healing>>
  /\ Continue

(* The file is opened outside the pool's lock.  schema::initialise writes  *)
(* the version marker, so it waits for a transaction of another connection *)
(* and gives up after busy_timeout.                                        *)
Open(c) ==
  /\ pc[c] = "open"
  /\ IF WriteLocked(T(c))
     THEN Finish(c, "busy") /\ UNCHANGED <<poisoned, writer>>
     ELSE LET n == CHOOSE m \in Conns \ Live : TRUE IN
          /\ handle' = [handle EXCEPT ![c] = n]
          /\ poisoned' = poisoned \ {n}
          /\ writer' = [t \in Tenants |-> IF writer[t] = n THEN NoConn ELSE writer[t]]
          /\ Goto(c, "publish")
          /\ UNCHANGED <<inside, healing>>
          /\ Continue
  /\ UNCHANGED <<cache, committed, writes>>

(* The cache is looked at again under the lock that publishes: whoever     *)
(* lost drops its own connection and takes the winner's.                   *)
Publish(c) ==
  /\ pc[c] = "publish"
  /\ IF Cached(T(c)) = {}
     THEN cache' = Pushed(Entry(T(c), handle[c])) /\ UNCHANGED handle
     ELSE \E e \in Cached(T(c)) :
            cache' = Touched(e) /\ handle' = [handle EXCEPT ![c] = e.conn]
  /\ Goto(c, "mutex")
  /\ UNCHANGED <<poisoned, files, inside, healing>>
  /\ Continue

-----------------------------------------------------------------------------
(* The rest of with_conn.                                                  *)

(* Variant: a poisoned mutex is taken as it is.                            *)
NeverPoisoned(c) == FALSE

FoundPoisoned(c) == handle[c] \in poisoned

(* handle.lock(): a poisoned connection is given up for a fresh one, once. *)
LockMutex(c) ==
  /\ pc[c] = "mutex"
  /\ \A d \in inside : handle[d] # handle[c]
  /\ IF ~FoundPoisoned(c)
     THEN /\ inside' = inside \cup {c}
          /\ Goto(c, IF ~op[c].writes THEN "read"
                     ELSE IF op[c].key = {} THEN "begin" ELSE "check")
          /\ UNCHANGED <<handle, healing>>
          /\ Continue
     ELSE IF c \in healing THEN Finish(c, "poisoned")
     ELSE Goto(c, "heal") /\ UNCHANGED task /\ Continue
  /\ UNCHANGED <<pool, files>>

DropsHandle(c) == [handle EXCEPT ![c] = NoConn]

(* Whatever connection of the tenant is cached now is evicted, and the     *)
(* poisoned one dropped, before the tenant is opened again.                *)
Heal(c) ==
  /\ pc[c] = "heal"
  /\ cache' = Without(T(c))
  /\ handle' = DropsHandle(c)
  /\ healing' = healing \cup {c}
  /\ Goto(c, "lookup")
  /\ UNCHANGED <<poisoned, files, inside>>
  /\ Continue

(* TenantManager::forget                                                   *)
Forget ==
  /\ Fault
  /\ \E t \in Tenants : Cached(t) # {} /\ cache' = Without(t)
  /\ UNCHANGED <<poisoned, files, lock, pc, op, dropped, task, result, alone>>

-----------------------------------------------------------------------------
(* The closures: a read, or SqliteBackend::apply, which looks its key up   *)
(* before it begins the IMMEDIATE transaction that inserts it.             *)

Read(c) ==
  /\ pc[c] = "read"
  /\ Finish(c, "ok")
  /\ UNCHANGED <<pool, files>>

LookUpKey(c) ==
  /\ pc[c] = "check"
  /\ IF op[c].key \subseteq committed[T(c)]
     THEN Finish(c, "replayed")
     ELSE Goto(c, "begin") /\ UNCHANGED task /\ Continue
  /\ UNCHANGED <<pool, files>>

BeginImmediate(c) ==
  /\ pc[c] = "begin"
  /\ IF WriteLocked(T(c))
     THEN Finish(c, "busy") /\ UNCHANGED writer
     ELSE /\ writer' = [writer EXCEPT ![T(c)] = handle[c]]
          /\ Goto(c, "commit")
          /\ UNCHANGED task
          /\ Continue
  /\ UNCHANGED <<pool, committed, writes>>

(* Variant: an insert that ignores a key already there.                    *)
KeyIgnored(c) == FALSE

(* PRIMARY KEY (subject, namespace, key) of table idempotency.             *)
KeyTaken(c) == op[c].key \cap committed[T(c)] # {}

Commit(c) ==
  /\ pc[c] = "commit"
  /\ writer' = [writer EXCEPT ![T(c)] = NoConn]
  /\ IF KeyTaken(c)
     THEN Finish(c, "conflict") /\ UNCHANGED <<committed, writes>>
     ELSE /\ committed' = [committed EXCEPT ![T(c)] = @ \cup op[c].key]
          /\ writes' = [writes EXCEPT ![T(c)] =
               [k \in Keys |-> @[k] + Cardinality({k} \cap op[c].key)]]
          /\ Finish(c, "ok")
  /\ UNCHANGED pool

(* The closure panics with the mutex held; a transaction it had begun may  *)
(* have been left open in the connection.                                  *)
Panic(c) ==
  /\ c \in inside
  /\ Fault
  /\ poisoned' = poisoned \cup {handle[c]}
  /\ \/ UNCHANGED writer
     \/ pc[c] = "commit" /\ writer' = [writer EXCEPT ![T(c)] = NoConn]
  /\ Finish(c, "panicked")
  /\ UNCHANGED <<cache, committed, writes>>

-----------------------------------------------------------------------------

Work(c) ==
  \/ Acquire(c) \/ LookUp(c) \/ Open(c) \/ Publish(c) \/ LockMutex(c) \/ Heal(c)
  \/ Read(c) \/ LookUpKey(c) \/ BeginImmediate(c) \/ Commit(c)

PoolNext ==
  \/ Forget
  \/ \E c \in Calls : DropFuture(c) \/ Panic(c)
  \/ UNCHANGED faults /\ \E c \in Calls : Call(c) \/ Work(c)

PoolSpec == PoolInit /\ [][PoolNext]_poolVars

-----------------------------------------------------------------------------
(* Properties.                                                             *)

PoolTypeOK ==
  /\ \A e \in ToSet(cache) : e.tenant \in Tenants /\ e.conn \in Conns
  /\ \A t \in Tenants : Cardinality(Cached(t)) =< 1
  /\ Len(cache) =< MaxOpen
  /\ poisoned \subseteq Conns
  /\ inside \subseteq Calls /\ \A c \in inside : handle[c] \in Conns
  /\ \A t \in Tenants : writer[t] \in Conns \cup {NoConn} /\ committed[t] \subseteq Keys

Writing(c) == pc[c] \in {"check", "begin", "commit"}

(* Two writes of a tenant are in their closures together only when the     *)
(* future of one was dropped while its task ran: of the writes whose       *)
(* callers still wait there is one at a time, on however many connections. *)
WritesAreSerial ==
  \A c, d \in Calls :
    c # d /\ Writing(c) /\ Writing(d) /\ T(c) = T(d) => c \in dropped \/ d \in dropped

(* A key is applied at most once, also by retries that race a dropped      *)
(* original on a second connection and pass the lookup before it commits.  *)
KeysApplyOnce == \A t \in Tenants, k \in Keys : writes[t][k] =< 1

(* A retry passes the lookup and is then refused by the table's primary    *)
(* key, instead of being answered, only after the future of a write was    *)
(* dropped: while the lock is held from lookup to commit nobody slips past.*)
ConflictNeedsDrop ==
  \A c \in Calls : result[c] = "conflict" \/ (pc[c] = "commit" /\ KeyTaken(c)) =>
    \E d \in dropped : T(d) = T(c) /\ op[d].writes

(* No closure runs on a connection another closure panicked on, nor on one *)
(* that still has another's transaction open.                              *)
CleanConnections ==
  \A c \in inside :
    /\ handle[c] \notin poisoned
    /\ writer[T(c)] = handle[c] => pc[c] = "commit"

(* A call that no other call of its tenant overlaps neither fails on what  *)
(* an earlier panic left behind, nor waits for it.                         *)
LoneCallsSucceed ==
  \A c \in Calls : alone[c] => result[c] \notin {"busy", "poisoned", "conflict"}

(* What a panic or a dropped future leaves behind stays its own: the pool  *)
(* is bounded, its connections are clean when used, a call meets neither   *)
(* the poison nor the leftovers of another.                                *)
PoolInv == PoolTypeOK /\ CleanConnections /\ ConflictNeedsDrop /\ LoneCallsSucceed

(* Nobody waits for nobody: while calls are running, one of them can go    *)
(* on, whatever was dropped, poisoned or left open.  No step of Work can   *)
(* be repeated without end, so every call returns.                         *)
NoStandstill == (\E c \in Calls : Running(c)) => \E c \in Calls : ENABLED Work(c)

=============================================================================
