---------------------------- MODULE MCTenantPool ----------------------------
(* Module TenantPool for TLC: two tenants share a pool of one connection;  *)
(* one key is written by any of three calls.                               *)
EXTENDS TenantPool

CONSTANTS t1, t2, k1

MCOps ==
  {[tenant |-> t1, writes |-> TRUE, key |-> {k1}],
   [tenant |-> t1, writes |-> FALSE, key |-> {}],
   [tenant |-> t2, writes |-> FALSE, key |-> {}]}
=============================================================================
