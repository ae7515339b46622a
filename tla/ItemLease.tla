----------------------------- MODULE ItemLease -----------------------------
(***************************************************************************)
(* What the partial unique index on ap_runs promises: an item is leased to *)
(* at most one job at a time.  A lease is taken only when the item is      *)
(* free, by a job that never held one before, and it is given back before  *)
(* the item is leased again.  Nothing says that it is always given back.   *)
(***************************************************************************)
EXTENDS FiniteSets

CONSTANTS Holders,   \* who may hold a lease
          Items,     \* what is leased
          None

VARIABLES holder,    \* holder[i]: who holds item i, or None
          used       \* holders that had a lease once

leaseVars == <<holder, used>>

Init ==
  /\ holder = [i \in Items |-> None]
  /\ used = {}

Acquire(h, i) ==
  /\ holder[i] = None
  /\ h \notin used
  /\ holder' = [holder EXCEPT ![i] = h]
  /\ used' = used \union {h}

Release(h, i) ==
  /\ holder[i] = h
  /\ h # None
  /\ holder' = [holder EXCEPT ![i] = None]
  /\ UNCHANGED used

Next == \E h \in Holders, i \in Items : Acquire(h, i) \/ Release(h, i)

Spec == Init /\ [][Next]_leaseVars
=============================================================================
