---------------------------- MODULE StoreContract ----------------------------
(***************************************************************************)
(* The tables of the SQLite backend as an implementation of the contract:  *)
(* its counters are the readings of usage, its vectors those of reach.     *)
(***************************************************************************)
EXTENDS Store

C == INSTANCE Contract WITH
       memories <- items,
       usage    <- [s \in Scopes |-> [items |-> capacity[s].items, bytes |-> capacity[s].bytes]],
       reach    <- vectors,
       budgets  <- [s \in Scopes |-> capacity[s].budget],
       log      <- audit,
       outcomes <- idempotency

(* Every operation on the tables is a step of the contract or none at all: *)
(* deltas, cascades, replacements and rolled back failures never show.     *)
HonoursTheContract == C!CSpec
==============================================================================
