------------------------------ MODULE TenantPools ------------------------------
(***************************************************************************)
(* The database pools of ApTenantDbPools (src/app/ap_skills/tenant_db.py): *)
(* one pool per tenant database for the AP store (acquire), one per        *)
(* database named by a catalog connection string                           *)
(* (acquire_from_connection_string), and per tenant the pool that search,  *)
(* reports and dashboards use (acquire_for_global_search).  Calls of many  *)
(* requests interleave at every await; an asyncio lock, with a second look *)
(* at the cache behind it, keeps them from opening a pool twice.           *)
(*                                                                         *)
(* Pools are numbered in the order they are opened; 0 is the fallback pool *)
(* of the main database, opened and closed by main.py.  close() runs in    *)
(* the shutdown of the application, after its requests have ended.         *)
(***************************************************************************)
EXTENDS Integers, Sequences, FiniteSets

CONSTANTS
  Calls,      \* calls to acquire or acquire_for_global_search
  Tenants,
  Databases,
  DbOf,       \* DbOf[t]: tenant_database_name(t), or None (no ezofis_Tenant_* database)
  CsOf,       \* CsOf[t]: the database of t's catalog connection string, or None
  MaxFaults,  \* bound on failed look-ups, connections and schema steps
  None

ASSUME DatabasesAssumption ==
  /\ DbOf \in [Tenants -> Databases \union {None}]
  /\ CsOf \in [Tenants -> Databases \union {None}]
  /\ None \notin Databases \union Calls \union Tenants \union Nat
  /\ MaxFaults \in Nat

VARIABLES
  call,    \* call[c]: what it was asked, where it is, the pool it works on or returned
  lock,    \* the call that holds _lock, or None
  opened,  \* every pool create_pool returned: its database and cache
  cached,  \* cached["ap"] is _pools, cached["cs"] is _cs_pools
  search,  \* _search_pools
  ready,   \* _schema_ready, without the fallback's key
  fallbackReady,  \* the fallback's key is in _schema_ready
  schema,  \* the databases that have the AP tables (None: the main database)
  closed,  \* the pools close() closed
  left,    \* pools whose schema step failed: nothing refers to them any more
  down,    \* the application has shut down
  faults

vars == <<call, lock, opened, cached, search, ready, fallbackReady, schema, closed, left,
          down, faults>>
caches == <<cached, search>>
tables == <<ready, fallbackReady, schema>>

PoolIds == 0..Len(opened)
NoCall == [op |-> None, tenant |-> None, at |-> "new", cache |-> None, pool |-> None]

Init ==
  /\ call = [c \in Calls |-> NoCall]
  /\ lock = None
  /\ opened = <<>>
  /\ cached = [k \in {"ap", "cs"} |-> [d \in Databases |-> None]]
  /\ search = [t \in Tenants |-> None]
  /\ ready = {} /\ fallbackReady = FALSE /\ schema = {}
  /\ closed = {} /\ left = {}
  /\ down = FALSE
  /\ faults = 0

-----------------------------------------------------------------------------
(* Steps of a call *)

Fails == faults < MaxFaults /\ faults' = faults + 1
KeyFor(c, k) == IF k = "ap" THEN DbOf[call[c].tenant] ELSE CsOf[call[c].tenant]

\* Return pool p; acquire_for_global_search remembers it for its tenant.
Return(c, p, s) ==
  /\ call' = [call EXCEPT ![c] = [@ EXCEPT !.at = "answered", !.pool = p]]
  /\ search' = IF call[c].op = "search" THEN [s EXCEPT ![call[c].tenant] = p] ELSE s

Raise(c) ==
  /\ call' = [call EXCEPT ![c] = [@ EXCEPT !.at = "raised", !.pool = None]]
  /\ UNCHANGED search

Await(c, at, k) ==
  /\ call' = [call EXCEPT ![c] = [@ EXCEPT !.at = at, !.cache = k, !.pool = None]]
  /\ UNCHANGED search

\* acquire, up to its first await.
EnterAcquire(c) ==
  LET db == DbOf[call[c].tenant]
  IN  IF db = None
      THEN IF fallbackReady THEN Return(c, 0, search) ELSE Await(c, "fallback", None)
      ELSE IF cached["ap"][db] # None THEN Return(c, cached["ap"][db], search)
      ELSE Await(c, "lock", "ap")

\* A request comes in; search looks at its own cache first, then awaits the catalog.
Ask(c, t) ==
  /\ call[c].at = "new" /\ ~down
  /\ call' = [call EXCEPT ![c] = [@ EXCEPT !.op = "acquire", !.tenant = t, !.at = "asked"]]
  /\ UNCHANGED <<lock, opened, caches, tables, closed, left, down, faults>>

AskSearch(c, t) ==
  /\ call[c].at = "new" /\ ~down
  /\ call' = [call EXCEPT ![c] =
                [@ EXCEPT !.op = "search", !.tenant = t,
                          !.at = IF search[t] # None THEN "answered" ELSE "lookup",
                          !.pool = search[t]]]
  /\ UNCHANGED <<lock, opened, caches, tables, closed, left, down, faults>>

Acquire(c) ==
  /\ call[c].at = "asked"
  /\ EnterAcquire(c)
  /\ UNCHANGED <<lock, opened, cached, tables, closed, left, down, faults>>

\* The catalog answers; no connection string, or a failed look-up, leads to acquire.
LookUp(c) ==
  /\ call[c].at = "lookup"
  /\ LET db == CsOf[call[c].tenant]
     IN  \/ db # None /\ cached["cs"][db] # None
            /\ Return(c, cached["cs"][db], search) /\ UNCHANGED faults
         \/ db # None /\ cached["cs"][db] = None
            /\ Await(c, "lock", "cs") /\ UNCHANGED faults
         \/ db = None /\ EnterAcquire(c) /\ UNCHANGED faults
         \/ db # None /\ EnterAcquire(c) /\ Fails
  /\ UNCHANGED <<lock, opened, cached, tables, closed, left, down>>

\* Faulty variant (mutation test): the cache is not looked at again.
TakeLockUnchecked(c) ==
  /\ call[c].at = "lock" /\ lock = None
  /\ Await(c, "create", call[c].cache) /\ lock' = c
  /\ UNCHANGED <<opened, cached, tables, closed, left, down, faults>>

\* The lock, and the second look: another call may have cached the pool.
TakeLock(c) ==
  /\ call[c].at = "lock" /\ lock = None
  /\ LET pool == cached[call[c].cache][KeyFor(c, call[c].cache)]
     IN  \/ pool # None /\ Return(c, pool, search) /\ UNCHANGED lock
         \/ pool = None /\ Await(c, "create", call[c].cache) /\ lock' = c
  /\ UNCHANGED <<opened, cached, tables, closed, left, down, faults>>

\* Faulty variant (mutation test): a connection that fails does not release the lock.
CreatePoolKeepsLock(c) ==
  /\ call[c].at = "create"
  /\ Fails /\ Raise(c)
  /\ UNCHANGED <<lock, opened, cached, tables, closed, left, down>>

\* create_pool.  A pool of acquire gets its schema next; one for a connection
\* string is cached, and its failure makes search fall back to acquire.
CreatePool(c) ==
  /\ call[c].at = "create"
  /\ LET k == call[c].cache
         db == KeyFor(c, k)
         p == Len(opened) + 1
     IN  \/ /\ opened' = Append(opened, [db |-> db, cache |-> k])
            /\ IF k = "ap"
               THEN /\ call' = [call EXCEPT ![c] = [@ EXCEPT !.at = "schema", !.pool = p]]
                    /\ UNCHANGED <<lock, caches>>
               ELSE /\ cached' = [cached EXCEPT ![k][db] = p]
                    /\ Return(c, p, search)
                    /\ lock' = None
            /\ UNCHANGED faults
         \/ /\ Fails
            /\ IF k = "ap" THEN Raise(c) ELSE EnterAcquire(c)
            /\ lock' = None
            /\ UNCHANGED <<opened, cached>>
  /\ UNCHANGED <<tables, closed, left, down>>

\* Faulty variant (mutation test): a failed schema step is only logged.
EnsureSchemaSwallowed(c) ==
  /\ call[c].at = "schema"
  /\ LET db == DbOf[call[c].tenant]
     IN  /\ \/ schema' = schema \union {db} /\ ready' = ready \union {db} /\ UNCHANGED faults
            \/ Fails /\ UNCHANGED <<schema, ready>>
         /\ cached' = [cached EXCEPT !["ap"][db] = call[c].pool]
         /\ Return(c, call[c].pool, search)
  /\ lock' = None
  /\ UNCHANGED <<opened, fallbackReady, closed, left, down>>

\* _ensure_schema on the new pool, which is cached only after it; if it fails
\* the pool stays open and nobody refers to it.
EnsureSchema(c) ==
  /\ call[c].at = "schema"
  /\ LET db == DbOf[call[c].tenant]
     IN  \/ /\ schema' = schema \union {db} /\ ready' = ready \union {db}
            /\ cached' = [cached EXCEPT !["ap"][db] = call[c].pool]
            /\ Return(c, call[c].pool, search)
            /\ UNCHANGED <<left, faults>>
         \/ /\ Fails /\ db \notin ready
            /\ Raise(c)
            /\ left' = left \union {call[c].pool}
            /\ UNCHANGED <<cached, schema, ready>>
  /\ lock' = None
  /\ UNCHANGED <<opened, fallbackReady, closed, down>>

\* The main database gets the tables outside of the lock; the statements are
\* idempotent, so two calls at once do no harm.
EnsureFallback(c) ==
  /\ call[c].at = "fallback"
  /\ \/ /\ fallbackReady' = TRUE /\ schema' = schema \union {None}
        /\ Return(c, 0, search)
        /\ UNCHANGED faults
     \/ /\ Fails
        /\ Raise(c)
        /\ UNCHANGED <<fallbackReady, schema>>
  /\ UNCHANGED <<lock, opened, cached, ready, closed, left, down>>

CachedPools == {cached[k][d] : k \in {"ap", "cs"}, d \in Databases} \ {None}

\* close(), once no request is left.
Close ==
  /\ ~down
  /\ \A c \in Calls : call[c].at \in {"new", "answered", "raised"}
  /\ down' = TRUE
  /\ closed' = closed \union CachedPools
  /\ cached' = [k \in {"ap", "cs"} |-> [d \in Databases |-> None]]
  /\ search' = [t \in Tenants |-> None]
  /\ ready' = {} /\ fallbackReady' = FALSE
  /\ UNCHANGED <<call, lock, opened, schema, left, faults>>

Next ==
  \/ \E c \in Calls :
       \/ \E t \in Tenants : Ask(c, t) \/ AskSearch(c, t)
       \/ Acquire(c) \/ LookUp(c) \/ TakeLock(c) \/ CreatePool(c) \/ EnsureSchema(c)
       \/ EnsureFallback(c)
  \/ Close

Spec == Init /\ [][Next]_vars
-----------------------------------------------------------------------------
(* Properties *)

\* Types; the lock is held exactly by a call that opens a pool.
TypeOK ==
  /\ call \in [Calls -> [op : {"acquire", "search", None}, tenant : Tenants \union {None},
                         at : {"new", "asked", "lookup", "lock", "create", "schema", "fallback",
                               "answered", "raised"},
                         cache : {"ap", "cs", None}, pool : PoolIds \union {None}]]
  /\ \A c \in Calls : (lock = c) <=> (call[c].at \in {"create", "schema"})
  /\ lock \in Calls \union {None}
  /\ opened \in Seq([db : Databases, cache : {"ap", "cs"}])
  /\ cached \in [{"ap", "cs"} -> [Databases -> (PoolIds \ {0}) \union {None}]]
  /\ search \in [Tenants -> PoolIds \union {None}]
  /\ ready \subseteq Databases /\ ready \subseteq schema
  /\ fallbackReady \in BOOLEAN
  /\ fallbackReady => None \in schema
  /\ schema \subseteq Databases \union {None}
  /\ closed \subseteq PoolIds \ {0} /\ left \subseteq PoolIds \ {0}
  /\ down \in BOOLEAN /\ faults \in 0..MaxFaults

Working(p) == \E c \in Calls : call[c].at = "schema" /\ call[c].pool = p

\* However the calls interleave, no pool gets lost: each one opened is closed, or
\* is where close() finds it, or a call is working on it, or its schema step
\* failed; and at most one pool per database and cache is in use at a time.
OpenPoolsAreKnown ==
  /\ \A p \in PoolIds \ {0} : p \in closed \union CachedPools \union left \/ Working(p)
  /\ \A p, q \in CachedPools : opened[p] = opened[q] => p = q
  /\ left \intersect (CachedPools \union closed) = {}
  /\ Cardinality(left) <= faults

\* The pool a request gets for the AP store is of its tenant's database (the
\* main one if it has none), and that database has the AP tables, whoever
\* opened it and whatever failed before.  Search gets the database of the
\* tenant's connection string; it gets another one only after a failure.
AnswersAreRight ==
  \A c \in {d \in Calls : call[d].at = "answered"} :
    LET t == call[c].tenant
        p == call[c].pool
        ofStore == IF DbOf[t] = None THEN p = 0 /\ None \in schema
                   ELSE /\ p # 0 /\ DbOf[t] \in schema
                        /\ opened[p] = [db |-> DbOf[t], cache |-> "ap"]
        ofCatalog == p # 0 /\ CsOf[t] # None /\ opened[p] = [db |-> CsOf[t], cache |-> "cs"]
    IN  IF call[c].op = "acquire" THEN ofStore
        ELSE ofCatalog \/ (ofStore /\ (CsOf[t] = None \/ faults > 0))
=============================================================================
