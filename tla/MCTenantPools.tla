---------------------------- MODULE MCTenantPools ----------------------------
(***************************************************************************)
(* An instance of TenantPools for TLC: a tenant with both databases, one   *)
(* whose connection string names the same database, and one with neither.  *)
(***************************************************************************)
EXTENDS TenantPools

CONSTANTS t1, t2, t3, d1, d2, d3

MCDbOf == [t \in Tenants |-> IF t = t1 THEN d1 ELSE IF t = t2 THEN d2 ELSE None]
MCCsOf == [t \in Tenants |-> IF t = t3 THEN None ELSE d3]
=============================================================================
