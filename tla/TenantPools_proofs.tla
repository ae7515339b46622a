-------------------------- MODULE TenantPools_proofs --------------------------
(***************************************************************************)
(* Proofs about TenantPools, for any calls, tenants and databases and any  *)
(* number of faults: however the calls interleave, every pool opened is    *)
(* known to somebody, and every call gets a pool of the right database.    *)
(***************************************************************************)
EXTENDS TenantPools, FiniteSetTheorems, TLAPS

-----------------------------------------------------------------------------
(* The inductive invariant *)

Sites == {"new", "asked", "lookup", "lock", "create", "schema", "fallback", "answered", "raised"}
Records == [op : {"acquire", "search", None}, tenant : Tenants \union {None}, at : Sites,
            cache : {"ap", "cs", None}, pool : PoolIds \union {None}]
Pools == 1..Len(opened)
Entries == [db : Databases, cache : {"ap", "cs"}]

\* p is a pool of database d, for cache k.
IsPool(p, d, k) == p \in Pools /\ opened[p] = [db |-> d, cache |-> k]

OfStore(t, p) ==
  IF DbOf[t] = None THEN p = 0 /\ None \in schema
  ELSE DbOf[t] \in schema /\ IsPool(p, DbOf[t], "ap")
OfCatalog(t, p) == CsOf[t] # None /\ IsPool(p, CsOf[t], "cs")
FellBack(t) == CsOf[t] = None \/ faults > 0
OfSearch(t, p) == OfCatalog(t, p) \/ (OfStore(t, p) /\ FellBack(t))

Key(l) == IF l.cache = "ap" THEN DbOf[l.tenant] ELSE CsOf[l.tenant]

\* What a call is entitled to where it is.
CallOK(l) ==
  /\ l.at # "new" => l.op \in {"acquire", "search"} /\ l.tenant \in Tenants
  /\ l.at = "asked" => l.op = "acquire"
  /\ l.at = "lookup" => l.op = "search"
  /\ l.at \in {"lock", "create"} => /\ l.cache \in {"ap", "cs"} /\ Key(l) # None
                                    /\ l.cache = "cs" => l.op = "search"
  /\ (l.at \in {"lock", "create"} /\ l.cache = "ap" /\ l.op = "search") => FellBack(l.tenant)
  /\ l.at = "schema" => /\ l.cache = "ap" /\ DbOf[l.tenant] # None
                        /\ IsPool(l.pool, DbOf[l.tenant], "ap")
                        /\ l.op = "search" => FellBack(l.tenant)
  /\ l.at = "fallback" => DbOf[l.tenant] = None /\ (l.op = "search" => FellBack(l.tenant))
  /\ l.at = "answered" =>
       IF l.op = "acquire" THEN OfStore(l.tenant, l.pool) ELSE OfSearch(l.tenant, l.pool)

\* The caches hold pools of their keys, the lock's holder found none there.
CachesOK ==
  /\ \A d \in Databases :
       /\ cached["ap"][d] # None => IsPool(cached["ap"][d], d, "ap") /\ d \in schema
       /\ cached["cs"][d] # None => IsPool(cached["cs"][d], d, "cs")
  /\ \A t \in Tenants : search[t] # None => OfSearch(t, search[t])
  /\ \A c \in Calls : call[c].at \in {"create", "schema"} =>
       cached[call[c].cache][Key(call[c])] = None

\* Nothing runs after the shutdown.
DownOK == down => \A c \in Calls : call[c].at \in {"new", "answered", "raised"}

\* Every pool is accounted for.
KnownOK ==
  /\ \A p \in Pools : p \in closed \union CachedPools \union left \/ Working(p)
  /\ left \intersect (CachedPools \union closed) = {}
  /\ Cardinality(left) <= faults
  /\ \A c \in Calls : call[c].at = "schema" =>
       call[c].pool \notin closed \union CachedPools \union left

Inv == TypeOK /\ (\A c \in Calls : CallOK(call[c])) /\ CachesOK /\ DownOK /\ KnownOK

-----------------------------------------------------------------------------
(* What every step keeps *)

\* Pools stay, tables stay, faults are not forgotten.
Grows ==
  /\ \A p \in Pools : p \in Pools' /\ opened'[p] = opened[p]
  /\ schema \subseteq schema'
  /\ faults > 0 => faults' > 0

LEMMA GrowsKeeps ==
  ASSUME Grows
  PROVE  /\ \A p, d, k : IsPool(p, d, k) => IsPool(p, d, k)'
         /\ \A t, p : OfStore(t, p) => OfStore(t, p)'
         /\ \A t : FellBack(t) => FellBack(t)'
         /\ \A t, p : OfSearch(t, p) => OfSearch(t, p)'
         /\ \A l : CallOK(l) => CallOK(l)'
<1>1. ASSUME NEW p, NEW d, NEW k, IsPool(p, d, k) PROVE IsPool(p, d, k)'
  BY <1>1 DEF Grows, IsPool
<1>2. ASSUME NEW t, NEW p, OfStore(t, p) PROVE OfStore(t, p)'
  BY <1>1, <1>2 DEF Grows, OfStore
<1>3. ASSUME NEW t, FellBack(t) PROVE FellBack(t)'
  BY <1>3 DEF Grows, FellBack
<1>4. ASSUME NEW t, NEW p, OfSearch(t, p) PROVE OfSearch(t, p)'
  BY <1>1, <1>2, <1>3, <1>4 DEF OfSearch, OfCatalog
<1>5. ASSUME NEW l, CallOK(l) PROVE CallOK(l)'
  BY <1>1, <1>2, <1>3, <1>4, <1>5 DEF CallOK, Key
<1> QED
  BY <1>1, <1>2, <1>3, <1>4, <1>5

LEMMA LeftIsFinite ==
  ASSUME TypeOK PROVE IsFiniteSet(left) /\ Cardinality(left) \in Nat
<1>1. Len(opened) \in Nat
  BY DEF TypeOK
<1>2. IsFiniteSet(1..Len(opened))
  BY <1>1, FS_Interval
<1>3. left \subseteq 1..Len(opened)
  BY <1>1 DEF TypeOK, PoolIds
<1> QED
  BY <1>2, <1>3, FS_Subset, FS_CardinalityType

\* The next value of a call, or of an entry of the search cache, is what it is.
LEMMA NextCall ==
  ASSUME NEW q \in Calls, NEW l, call'[q] = l, CallOK(l)'
  PROVE  CallOK(call[q])'
BY DEF CallOK, Key, OfStore, OfSearch, OfCatalog, FellBack, IsPool, Pools

LEMMA NextSearch ==
  ASSUME NEW t \in Tenants, NEW p, search'[t] = p, OfSearch(t, p)'
  PROVE  OfSearch(t, search[t])'
BY DEF OfStore, OfSearch, OfCatalog, FellBack, IsPool, Pools

LEMMA NextCached ==
  ASSUME NEW d \in Databases, NEW k \in {"ap", "cs"}, NEW p, cached'[k][d] = p, IsPool(p, d, k)'
  PROVE  IsPool(cached[k][d], d, k)'
BY DEF IsPool, Pools

\* A step that moves one call and opens, caches, closes and leaves no pool.
LEMMA MoveKeeps ==
  ASSUME Inv, NEW c \in Calls, NEW l \in Records, CallOK(l)',
         call' = [call EXCEPT ![c] = l],
         UNCHANGED <<opened, cached, closed, left, down>>,
         call[c].at # "schema", l.at # "schema",
         \/ /\ lock' = lock /\ call[c].at # "create" /\ l.at # "create"
         \/ /\ lock = None /\ lock' = c /\ l.at = "create"
            /\ cached[l.cache][Key(l)] = None
         \/ /\ lock' = None /\ call[c].at = "create" /\ l.at # "create",
         down => l.at \in {"new", "answered", "raised"},
         search' \in [Tenants -> PoolIds \union {None}],
         \A t \in Tenants : search'[t] = search[t] \/ OfSearch(t, search[t])',
         faults' \in 0..MaxFaults, faults <= faults', schema \subseteq schema',
         schema' \subseteq Databases \union {None},
         ready' \subseteq schema' \intersect Databases,
         fallbackReady' \in BOOLEAN, fallbackReady' => None \in schema'
  PROVE  Inv'
<1>1. Grows
  BY DEF Grows, Pools, Inv, TypeOK
<1>2. /\ call \in [Calls -> Records] /\ call' \in [Calls -> Records]
      /\ call'[c] = l /\ \A q \in Calls \ {c} : call'[q] = call[q]
  BY DEF Inv, TypeOK, Records, Sites
<1>3. \A q \in Calls : (lock' = q) <=> (call'[q].at \in {"create", "schema"})
  <2>1. \A q \in Calls : q # None
    BY DatabasesAssumption
  <2>2. \A q \in Calls : (lock = q) <=> (call[q].at \in {"create", "schema"})
    BY DEF Inv, TypeOK
  <2> QED
    BY <1>2, <2>1, <2>2
<1>4. TypeOK'
  <2>1. call' \in [Calls -> [op : {"acquire", "search", None}, tenant : Tenants \union {None},
                             at : Sites, cache : {"ap", "cs", None},
                             pool : PoolIds' \union {None}]]
    BY <1>2 DEF Records, PoolIds
  <2>2. lock' \in Calls \union {None}
    BY DEF Inv, TypeOK
  <2> QED
    BY <1>3, <2>1, <2>2 DEF Inv, TypeOK, Sites, PoolIds
<1>5. ASSUME NEW q \in Calls PROVE CallOK(call[q])'
  <2>1. PICK k : k = call[q]
    OBVIOUS
  <2>2. CallOK(k)'
    BY <1>1, <2>1, GrowsKeeps DEF Inv
  <2> QED
    BY <1>2, <2>1, <2>2, NextCall
<1>6. CachesOK'
  <2>1. ASSUME NEW t \in Tenants, search'[t] # None PROVE OfSearch(t, search[t])'
    <3>1. PICK p : p = search'[t]
      OBVIOUS
    <3>2. CASE search'[t] = search[t]
      BY <1>1, <2>1, <3>1, <3>2, GrowsKeeps, NextSearch DEF Inv, CachesOK
    <3> QED
      BY <3>2
  <2>2. ASSUME NEW q \in Calls, call'[q].at \in {"create", "schema"}
        PROVE  cached[call'[q].cache][Key(call[q])'] = None
    BY <1>2, <2>2 DEF Inv, CachesOK, Key, TypeOK
  <2>3. ASSUME NEW d \in Databases
        PROVE  /\ cached'["ap"][d] # None => IsPool(cached["ap"][d], d, "ap")' /\ d \in schema'
               /\ cached'["cs"][d] # None => IsPool(cached["cs"][d], d, "cs")'
    <3>1. PICK p, r : p = cached["ap"][d] /\ r = cached["cs"][d]
      OBVIOUS
    <3> QED
      BY <1>1, <3>1, GrowsKeeps, NextCached DEF Inv, CachesOK
  <2> QED
    BY <2>1, <2>2, <2>3 DEF CachesOK
<1>7. DownOK'
  BY <1>2 DEF Inv, DownOK
<1>8. KnownOK'
  <2>1. CachedPools' = CachedPools /\ Pools' = Pools
    BY DEF CachedPools, Pools
  <2>2. \A p : Working(p)' <=> Working(p)
    BY <1>2 DEF Working
  <2>3. Cardinality(left)' <= faults'
    <3>1. Cardinality(left) \in Nat
      BY LeftIsFinite DEF Inv
    <3> QED
      BY <3>1 DEF Inv, KnownOK, TypeOK
  <2>4. \A q \in Calls : call'[q].at = "schema" =>
          call'[q].pool \notin closed \union CachedPools \union left
    BY <1>2 DEF Inv, KnownOK
  <2> QED
    BY <2>1, <2>2, <2>3, <2>4 DEF Inv, KnownOK
<1> QED
  BY <1>4, <1>5, <1>6, <1>7, <1>8 DEF Inv

-----------------------------------------------------------------------------
(* The ends of a step *)

\* l is the new state of call c, and the search cache is right after the step.
Moved(c, l) ==
  /\ call' = [call EXCEPT ![c] = l]
  /\ search' \in [Tenants -> PoolIds \union {None}]
  /\ \A t \in Tenants : search'[t] = search[t] \/ OfSearch(t, search[t])'

LEMMA CallTypes ==
  ASSUME Inv, NEW c \in Calls
  PROVE  /\ call[c] \in Records /\ CallOK(call[c])
         /\ search \in [Tenants -> PoolIds \union {None}]
         /\ Len(opened) \in Nat /\ 0 \in PoolIds /\ Pools = PoolIds \ {0}
         /\ down => call[c].at \in {"new", "answered", "raised"}
         /\ (lock = c) <=> (call[c].at \in {"create", "schema"})
         /\ c # None
BY DatabasesAssumption DEF Inv, TypeOK, Records, Sites, DownOK, PoolIds, Pools

LEMMA ReturnMoves ==
  ASSUME Inv, NEW c \in Calls, NEW t \in Tenants, NEW p \in PoolIds, Return(c, p, search),
         call[c].op \in {"acquire", "search"}, call[c].tenant = t,
         IF call[c].op = "acquire" THEN OfStore(t, p)' ELSE OfSearch(t, p)'
  PROVE  \E l \in Records : l.at = "answered" /\ CallOK(l)' /\ Moved(c, l)
<1>1. PICK l : l = [call[c] EXCEPT !.at = "answered", !.pool = p]
  OBVIOUS
<1>2. call[c] \in Records /\ search \in [Tenants -> PoolIds \union {None}]
  BY CallTypes
<1>3. /\ l \in Records /\ l.at = "answered" /\ l.pool = p /\ l.tenant = t
      /\ l.op = call[c].op
  BY <1>1, <1>2 DEF Records, Sites
<1>4. CallOK(l)'
  BY <1>3 DEF CallOK
<1>5. search' \in [Tenants -> PoolIds \union {None}]
  BY <1>2 DEF Return
<1>6. ASSUME NEW u \in Tenants PROVE search'[u] = search[u] \/ OfSearch(u, search[u])'
  <2>1. CASE call[c].op = "search" /\ u = t
    <3>1. search'[u] = p /\ OfSearch(u, p)'
      BY <1>2, <2>1 DEF Return
    <3> QED
      BY <3>1, NextSearch
  <2>2. CASE ~(call[c].op = "search" /\ u = t)
    BY <1>2, <2>2 DEF Return
  <2> QED
    BY <2>1, <2>2
<1>7. call' = [call EXCEPT ![c] = l]
  BY <1>1 DEF Return
<1> QED
  BY <1>3, <1>4, <1>5, <1>6, <1>7 DEF Moved

LEMMA AwaitMoves ==
  ASSUME Inv, NEW c \in Calls, NEW at \in Sites, NEW k \in {"ap", "cs", None}, Await(c, at, k)
  PROVE  \E l \in Records : /\ l.op = call[c].op /\ l.tenant = call[c].tenant
                            /\ l.at = at /\ l.cache = k /\ l.pool = None /\ Moved(c, l)
<1>1. PICK l : l = [call[c] EXCEPT !.at = at, !.cache = k, !.pool = None]
  OBVIOUS
<1>2. call[c] \in Records /\ search \in [Tenants -> PoolIds \union {None}]
  BY CallTypes
<1>3. /\ l \in Records /\ l.op = call[c].op /\ l.tenant = call[c].tenant
      /\ l.at = at /\ l.cache = k /\ l.pool = None
  BY <1>1, <1>2 DEF Records
<1> QED
  BY <1>1, <1>2, <1>3 DEF Await, Moved

LEMMA RaiseMoves ==
  ASSUME Inv, NEW c \in Calls, Raise(c),
         call[c].op \in {"acquire", "search"}, call[c].tenant \in Tenants
  PROVE  \E l \in Records : l.at = "raised" /\ CallOK(l)' /\ Moved(c, l)
<1>1. PICK l : l = [call[c] EXCEPT !.at = "raised", !.pool = None]
  OBVIOUS
<1>2. call[c] \in Records /\ search \in [Tenants -> PoolIds \union {None}]
  BY CallTypes
<1>3. l \in Records /\ l.at = "raised" /\ l.op = call[c].op /\ l.tenant = call[c].tenant
  BY <1>1, <1>2 DEF Records, Sites
<1>4. CallOK(l)'
  BY <1>3 DEF CallOK
<1> QED
  BY <1>1, <1>2, <1>3, <1>4 DEF Raise, Moved

\* acquire ends in the right pool, or waits for what will give it.
LEMMA EnterMoves ==
  ASSUME Inv, Grows, NEW c \in Calls, NEW t \in Tenants, EnterAcquire(c),
         call[c].op \in {"acquire", "search"}, call[c].tenant = t,
         call[c].op = "search" => FellBack(t)'
  PROVE  \E l \in Records : /\ l.at \in {"answered", "lock", "fallback"}
                            /\ CallOK(l)' /\ Moved(c, l)
<1>1. ASSUME NEW p \in PoolIds, Return(c, p, search), OfStore(t, p)
      PROVE  \E l \in Records : l.at = "answered" /\ CallOK(l)' /\ Moved(c, l)
  <2>1. OfStore(t, p)'
    BY <1>1, GrowsKeeps
  <2>2. call[c].op = "search" => OfSearch(t, p)'
    BY <2>1 DEF OfSearch
  <2> QED
    BY <1>1, <2>1, <2>2, ReturnMoves
<1>2. CASE DbOf[t] = None /\ fallbackReady
  BY <1>1, <1>2, CallTypes DEF EnterAcquire, OfStore, Inv, TypeOK
<1>3. CASE DbOf[t] = None /\ ~fallbackReady
  <2>1. PICK l \in Records : /\ l.op = call[c].op /\ l.tenant = t /\ l.at = "fallback"
                             /\ l.cache = None /\ Moved(c, l)
    BY <1>3, AwaitMoves DEF EnterAcquire, Sites
  <2>2. CallOK(l)'
    BY <1>3, <2>1 DEF CallOK
  <2> QED
    BY <2>1, <2>2
<1>4. CASE DbOf[t] # None /\ cached["ap"][DbOf[t]] # None
  <2>1. DbOf[t] \in Databases
    BY <1>4, DatabasesAssumption
  <2>2. cached["ap"][DbOf[t]] \in PoolIds
    BY <1>4, <2>1 DEF Inv, TypeOK
  <2>3. OfStore(t, cached["ap"][DbOf[t]])
    BY <1>4, <2>1 DEF Inv, CachesOK, OfStore
  <2> QED
    BY <1>1, <1>4, <2>2, <2>3 DEF EnterAcquire
<1>5. CASE DbOf[t] # None /\ cached["ap"][DbOf[t]] = None
  <2>1. PICK l \in Records : /\ l.op = call[c].op /\ l.tenant = t /\ l.at = "lock"
                             /\ l.cache = "ap" /\ Moved(c, l)
    BY <1>5, AwaitMoves DEF EnterAcquire, Sites
  <2>2. CallOK(l)'
    BY <1>5, <2>1 DEF CallOK, Key
  <2> QED
    BY <2>1, <2>2
<1> QED
  BY <1>2, <1>3, <1>4, <1>5

-----------------------------------------------------------------------------
(* The steps *)

\* MoveKeeps for a step that leaves the lock alone.
LEMMA PlainMoveKeeps ==
  ASSUME Inv, NEW c \in Calls, NEW l \in Records, CallOK(l)', Moved(c, l),
         UNCHANGED <<lock, opened, cached, closed, left, down>>,
         call[c].at \notin {"create", "schema"}, l.at \notin {"create", "schema"},
         down => l.at \in {"new", "answered", "raised"},
         faults' \in 0..MaxFaults, faults <= faults', schema \subseteq schema',
         schema' \subseteq Databases \union {None},
         ready' \subseteq schema' \intersect Databases,
         fallbackReady' \in BOOLEAN, fallbackReady' => None \in schema'
  PROVE  Inv'
BY MoveKeeps DEF Moved

LEMMA TablesOK ==
  ASSUME Inv
  PROVE  /\ faults \in 0..MaxFaults /\ faults <= faults /\ MaxFaults \in Nat
         /\ schema \subseteq Databases \union {None}
         /\ ready \subseteq schema \intersect Databases
         /\ fallbackReady \in BOOLEAN
         /\ fallbackReady => None \in schema
BY DatabasesAssumption DEF Inv, TypeOK

\* A failure is one more, within the bound.
LEMMA FailCounts ==
  ASSUME Inv, Fails PROVE faults' \in 0..MaxFaults /\ faults <= faults' /\ faults' > 0
BY TablesOK DEF Fails

\* PlainMoveKeeps for a step that leaves the tables alone too.
LEMMA BareMoveKeeps ==
  ASSUME Inv, NEW c \in Calls, NEW l \in Records, CallOK(l)', Moved(c, l),
         UNCHANGED <<lock, opened, cached, closed, left, down>>,
         schema' = schema, ready' = ready, fallbackReady' = fallbackReady,
         faults' = faults \/ Fails,
         call[c].at \notin {"create", "schema"}, l.at \notin {"create", "schema"},
         down => l.at \in {"new", "answered", "raised"}
  PROVE  Inv'
<1>1. faults' \in 0..MaxFaults /\ faults <= faults'
  BY TablesOK, FailCounts
<1>2. /\ schema \subseteq schema' /\ schema' \subseteq Databases \union {None}
      /\ ready' \subseteq schema' \intersect Databases
      /\ fallbackReady' \in BOOLEAN
      /\ fallbackReady' => None \in schema'
  BY TablesOK
<1> QED
  BY <1>1, <1>2, PlainMoveKeeps

LEMMA AskKeeps ==
  ASSUME Inv, NEW c \in Calls, NEW t \in Tenants, Ask(c, t) \/ AskSearch(c, t) PROVE Inv'
<1>1. /\ call[c].at = "new" /\ call[c] \in Records /\ down = FALSE /\ down' = down
      /\ search \in [Tenants -> PoolIds \union {None}] /\ search' = search
      /\ UNCHANGED <<lock, opened, cached, closed, left>>
      /\ schema' = schema /\ faults' = faults /\ ready' = ready /\ fallbackReady' = fallbackReady
  BY CallTypes DEF Ask, AskSearch, Inv, TypeOK, caches, tables
<1>2. Grows
  BY <1>1 DEF Grows, Pools
<1>3. PICK l \in Records : /\ call' = [call EXCEPT ![c] = l] /\ l.tenant = t
        /\ \/ l.at = "asked" /\ l.op = "acquire"
           \/ l.at = "lookup" /\ l.op = "search"
           \/ l.at = "answered" /\ l.op = "search" /\ l.pool = search[t] /\ search[t] # None
  <2>1. CASE Ask(c, t)
    <3>1. PICK l : l = [call[c] EXCEPT !.op = "acquire", !.tenant = t, !.at = "asked"]
      OBVIOUS
    <3>2. l \in Records /\ l.tenant = t /\ l.at = "asked" /\ l.op = "acquire"
      BY <1>1, <3>1 DEF Records, Sites
    <3>3. call' = [call EXCEPT ![c] = l]
      BY <2>1, <3>1 DEF Ask
    <3> QED
      BY <3>2, <3>3
  <2>2. CASE AskSearch(c, t)
    <3>1. PICK l : l = [call[c] EXCEPT !.op = "search", !.tenant = t,
                          !.at = IF search[t] # None THEN "answered" ELSE "lookup",
                          !.pool = search[t]]
      OBVIOUS
    <3>2. search[t] \in PoolIds \union {None}
      BY <1>1
    <3>3. /\ l \in Records /\ l.tenant = t /\ l.op = "search" /\ l.pool = search[t]
          /\ l.at = IF search[t] # None THEN "answered" ELSE "lookup"
      BY <1>1, <3>1, <3>2 DEF Records, Sites
    <3>4. call' = [call EXCEPT ![c] = l]
      BY <2>2, <3>1 DEF AskSearch
    <3> QED
      BY <3>3, <3>4
  <2> QED
    BY <2>1, <2>2
<1>4. CallOK(l)'
  <2>1. CASE l.at \in {"asked", "lookup"}
    BY <1>3, <2>1 DEF CallOK
  <2>2. CASE l.at = "answered"
    <3>1. PICK p : p = search[t]
      OBVIOUS
    <3>2. l.op = "search" /\ l.pool = p /\ p # None
      BY <1>3, <2>2, <3>1
    <3>3. OfSearch(t, p)
      BY <3>1, <3>2 DEF Inv, CachesOK
    <3>4. OfSearch(t, p)'
      BY <1>2, <3>3, GrowsKeeps
    <3> QED
      BY <1>3, <2>2, <3>2, <3>4 DEF CallOK
  <2> QED
    BY <1>3, <2>1, <2>2
<1>5. Moved(c, l)
  BY <1>1, <1>3 DEF Moved
<1> QED
  <2>1. call[c].at \notin {"create", "schema"} /\ l.at \notin {"create", "schema"} /\ ~down
    BY <1>1, <1>3
  <2> QED
    BY <1>1, <1>4, <1>5, <2>1, BareMoveKeeps

LEMMA AcquireKeeps ==
  ASSUME Inv, NEW c \in Calls, Acquire(c) PROVE Inv'
<1>1. /\ UNCHANGED <<lock, opened, cached, closed, left, down>> /\ call[c].at = "asked"
      /\ schema' = schema /\ faults' = faults /\ ready' = ready /\ fallbackReady' = fallbackReady
  BY DEF Acquire, tables
<1>2. Grows
  BY <1>1 DEF Grows, Pools
<1>3. call[c].op = "acquire" /\ call[c].tenant \in Tenants /\ down = FALSE
  BY <1>1, CallTypes DEF CallOK, Inv, TypeOK
<1>4. PICK l \in Records : l.at \in {"answered", "lock", "fallback"} /\ CallOK(l)' /\ Moved(c, l)
  BY <1>2, <1>3, EnterMoves DEF Acquire
<1> QED
  <2>1. call[c].at \notin {"create", "schema"} /\ l.at \notin {"create", "schema"} /\ ~down
    BY <1>1, <1>3, <1>4
  <2> QED
    BY <1>1, <1>4, <2>1, BareMoveKeeps

LEMMA LookUpKeeps ==
  ASSUME Inv, NEW c \in Calls, LookUp(c) PROVE Inv'
<1>1. /\ UNCHANGED <<lock, opened, cached, closed, left, down>> /\ call[c].at = "lookup"
      /\ schema' = schema /\ ready' = ready /\ fallbackReady' = fallbackReady
      /\ faults' = faults \/ Fails
  BY DEF LookUp, tables
<1>2. faults' \in 0..MaxFaults /\ faults <= faults'
  BY <1>1, TablesOK, FailCounts
<1>3. Grows
  BY <1>1, <1>2, TablesOK DEF Grows, Pools
<1>4. call[c].op = "search" /\ call[c].tenant \in Tenants /\ down = FALSE
  BY <1>1, CallTypes DEF CallOK, Inv, TypeOK
<1>5. PICK t \in Tenants : t = call[c].tenant
  BY <1>4
<1>6. PICK l \in Records : /\ l.at \in {"answered", "lock", "fallback"}
                           /\ CallOK(l)' /\ Moved(c, l)
  <2>1. CASE CsOf[t] # None /\ cached["cs"][CsOf[t]] # None /\ Return(c, cached["cs"][CsOf[t]], search)
    <3>1. CsOf[t] \in Databases
      BY <2>1, DatabasesAssumption
    <3>2. PICK p : p = cached["cs"][CsOf[t]]
      OBVIOUS
    <3>3. p \in PoolIds /\ OfCatalog(t, p)
      BY <2>1, <3>1, <3>2 DEF Inv, TypeOK, CachesOK, OfCatalog
    <3>4. OfSearch(t, p)'
      BY <1>3, <3>3, GrowsKeeps DEF OfSearch
    <3>5. Return(c, p, search)
      BY <2>1, <3>2
    <3> QED
      BY <1>4, <1>5, <3>3, <3>4, <3>5, ReturnMoves
  <2>2. CASE CsOf[t] # None /\ Await(c, "lock", "cs")
    <3>1. PICK l \in Records : /\ l.op = "search" /\ l.tenant = t /\ l.at = "lock"
                               /\ l.cache = "cs" /\ Moved(c, l)
      BY <1>4, <1>5, <2>2, AwaitMoves DEF Sites
    <3>2. CallOK(l)'
      BY <2>2, <3>1 DEF CallOK, Key
    <3> QED
      BY <3>1, <3>2
  <2>3. CASE EnterAcquire(c) /\ (CsOf[t] = None \/ Fails)
    <3>1. FellBack(t)'
      BY <2>3, FailCounts DEF FellBack
    <3> QED
      BY <1>3, <1>4, <1>5, <2>3, <3>1, EnterMoves
  <2> QED
    BY <1>5, <2>1, <2>2, <2>3 DEF LookUp
<1> QED
  <2>1. call[c].at \notin {"create", "schema"} /\ l.at \notin {"create", "schema"} /\ ~down
    BY <1>1, <1>4, <1>6
  <2> QED
    BY <1>1, <1>6, <2>1, BareMoveKeeps

LEMMA TakeLockKeeps ==
  ASSUME Inv, NEW c \in Calls, TakeLock(c) PROVE Inv'
<1>1. /\ UNCHANGED <<opened, cached, closed, left, down>> /\ call[c].at = "lock"
      /\ schema' = schema /\ faults' = faults /\ ready' = ready /\ fallbackReady' = fallbackReady
      /\ lock = None
  BY DEF TakeLock, tables
<1>2. Grows
  BY <1>1 DEF Grows, Pools
<1>3. PICK t \in Tenants, k \in {"ap", "cs"}, d \in Databases :
        /\ t = call[c].tenant /\ k = call[c].cache /\ d = Key(call[c]) /\ d = KeyFor(c, k)
        /\ call[c].op \in {"acquire", "search"}
        /\ k = "cs" => call[c].op = "search"
        /\ (k = "ap" /\ call[c].op = "search") => FellBack(t)
        /\ k = "ap" => d = DbOf[t]
        /\ k = "cs" => d = CsOf[t]
  BY <1>1, CallTypes, DatabasesAssumption DEF CallOK, Key, KeyFor
<1>4. down = FALSE /\ d # None
  BY <1>1, CallTypes, DatabasesAssumption DEF Inv, TypeOK
<1>5. CASE cached[k][d] # None /\ Return(c, cached[k][d], search) /\ UNCHANGED lock
  <2>1. PICK p \in PoolIds : p = cached[k][d] /\ IsPool(p, d, k) /\ (k = "ap" => d \in schema)
    BY <1>5 DEF Inv, TypeOK, CachesOK
  <2>2. k = "cs" => OfSearch(t, p)'
    BY <1>2, <1>3, <1>4, <2>1, GrowsKeeps DEF OfSearch, OfCatalog
  <2>3. k = "ap" => OfStore(t, p)' /\ (call[c].op = "search" => OfSearch(t, p)')
    <3>1. k = "ap" => OfStore(t, p)
      BY <1>3, <1>4, <2>1 DEF OfStore
    <3> QED
      BY <1>2, <1>3, <3>1, GrowsKeeps DEF OfSearch
  <2>4. PICK l \in Records : l.at = "answered" /\ CallOK(l)' /\ Moved(c, l)
    BY <1>3, <1>5, <2>1, <2>2, <2>3, ReturnMoves
  <2> QED
    BY <1>1, <1>5, <2>4, BareMoveKeeps
<1>6. CASE cached[k][d] = None /\ Await(c, "create", k) /\ lock' = c
  <2>1. PICK l \in Records : /\ l.op = call[c].op /\ l.tenant = t /\ l.at = "create"
                             /\ l.cache = k /\ Moved(c, l)
    BY <1>3, <1>6, AwaitMoves DEF Sites
  <2>2. CallOK(l) /\ Key(l) = d
    BY <1>3, <1>4, <2>1 DEF CallOK, Key
  <2>3. CallOK(l)'
    BY <1>2, <2>2, GrowsKeeps
  <2>4. /\ faults' \in 0..MaxFaults /\ faults <= faults' /\ schema \subseteq schema'
        /\ schema' \subseteq Databases \union {None}
        /\ ready' \subseteq schema' \intersect Databases
        /\ fallbackReady' \in BOOLEAN
        /\ fallbackReady' => None \in schema'
    BY <1>1, TablesOK
  <2>5. cached[l.cache][Key(l)] = None /\ lock = None /\ lock' = c /\ l.at = "create"
    BY <1>1, <1>6, <2>1, <2>2
  <2> QED
    BY <1>1, <1>4, <2>1, <2>3, <2>4, <2>5, MoveKeeps DEF Moved
<1> QED
  BY <1>3, <1>5, <1>6 DEF TakeLock

LEMMA EnsureFallbackKeeps ==
  ASSUME Inv, NEW c \in Calls, EnsureFallback(c) PROVE Inv'
<1>1. UNCHANGED <<lock, opened, cached, closed, left, down>> /\ call[c].at = "fallback"
      /\ ready' = ready
  BY DEF EnsureFallback
<1>2. PICK t \in Tenants : /\ t = call[c].tenant /\ DbOf[t] = None
                           /\ call[c].op \in {"acquire", "search"}
                           /\ call[c].op = "search" => FellBack(t)
  BY <1>1, CallTypes DEF CallOK
<1>3. down = FALSE
  BY <1>1, CallTypes DEF Inv, TypeOK
<1>4. CASE /\ fallbackReady' = TRUE /\ schema' = schema \union {None} /\ UNCHANGED faults
           /\ Return(c, 0, search)
  <2>1. Grows
    BY <1>1, <1>4, TablesOK DEF Grows, Pools
  <2>2. OfStore(t, 0)' /\ FellBack(t)' = FellBack(t)
    BY <1>2, <1>4 DEF OfStore, FellBack
  <2>3. call[c].op = "search" => OfSearch(t, 0)'
    BY <1>2, <2>2 DEF OfSearch
  <2>4. 0 \in PoolIds
    BY CallTypes
  <2>5. PICK l \in Records : l.at = "answered" /\ CallOK(l)' /\ Moved(c, l)
    BY <1>2, <1>4, <2>2, <2>3, <2>4, ReturnMoves
  <2>6. /\ faults' \in 0..MaxFaults /\ faults <= faults' /\ schema \subseteq schema'
        /\ schema' \subseteq Databases \union {None}
        /\ ready' \subseteq schema' \intersect Databases
        /\ fallbackReady' \in BOOLEAN
        /\ fallbackReady' => None \in schema'
    BY <1>1, <1>4, TablesOK
  <2> QED
    BY <1>1, <2>5, <2>6, PlainMoveKeeps
<1>5. CASE Fails /\ Raise(c) /\ UNCHANGED <<fallbackReady, schema>>
  <2>1. PICK l \in Records : l.at = "raised" /\ CallOK(l)' /\ Moved(c, l)
    BY <1>2, <1>5, RaiseMoves
  <2> QED
    BY <1>1, <1>5, <2>1, BareMoveKeeps
<1> QED
  BY <1>4, <1>5 DEF EnsureFallback

\* A connection that fails: acquire raises, search goes on with acquire.
LEMMA FailedPoolKeeps ==
  ASSUME Inv, NEW c \in Calls, call[c].at = "create", Fails,
         IF call[c].cache = "ap" THEN Raise(c) ELSE EnterAcquire(c),
         lock' = None, UNCHANGED <<opened, cached, tables, closed, left, down>>
  PROVE  Inv'
<1>1. PICK t \in Tenants : /\ t = call[c].tenant /\ call[c].op \in {"acquire", "search"}
                           /\ call[c].cache \in {"ap", "cs"}
  BY CallTypes DEF CallOK
<1>2. schema' = schema /\ ready' = ready /\ fallbackReady' = fallbackReady
  BY DEF tables
<1>3. faults' \in 0..MaxFaults /\ faults <= faults' /\ faults' > 0
  BY FailCounts
<1>4. Grows
  BY <1>2, <1>3 DEF Grows, Pools
<1>5. PICK l \in Records : /\ l.at \in {"answered", "lock", "fallback", "raised"}
                           /\ CallOK(l)' /\ Moved(c, l)
  <2>1. CASE call[c].cache = "ap"
    BY <1>1, <2>1, RaiseMoves
  <2>2. CASE call[c].cache # "ap"
    <3>1. FellBack(t)'
      BY <1>3 DEF FellBack
    <3> QED
      BY <1>1, <1>4, <2>2, <3>1, EnterMoves
  <2> QED
    BY <2>1, <2>2
<1>6. /\ schema \subseteq schema' /\ schema' \subseteq Databases \union {None}
      /\ ready' \subseteq schema' \intersect Databases
      /\ fallbackReady' \in BOOLEAN
      /\ fallbackReady' => None \in schema'
  BY <1>2, TablesOK
<1>7. down = FALSE
  BY CallTypes DEF Inv, TypeOK
<1>8. lock' = None /\ call[c].at = "create" /\ l.at # "create" /\ l.at # "schema"
  BY <1>5
<1> QED
  BY <1>3, <1>5, <1>6, <1>7, <1>8, MoveKeeps DEF Moved

\* create_pool returned: the new pool has the next number.
LEMMA Opened ==
  ASSUME Inv, NEW e \in Entries, opened' = Append(opened, e), schema' = schema, faults' = faults,
         NEW p, p = Len(opened) + 1
  PROVE  /\ Grows /\ p \in Pools' /\ opened'[p] = e /\ Len(opened)' = p
         /\ p \notin Pools /\ Pools' = Pools \union {p} /\ PoolIds' = PoolIds \union {p}
         /\ opened' \in Seq(Entries) /\ p \in Nat \ {0}
         /\ p \notin closed \union left \union CachedPools /\ CachedPools \subseteq Pools
         /\ p # None
<1>1. opened \in Seq(Entries) /\ Len(opened) \in Nat
  BY DEF Inv, TypeOK, Entries
<1>2. /\ opened' \in Seq(Entries) /\ Len(opened') = p /\ opened'[p] = e
      /\ \A q \in 1..Len(opened) : opened'[q] = opened[q]
  BY <1>1
<1>3. p \in Nat \ {0} /\ p \notin Pools /\ p \in Pools'
      /\ Pools' = Pools \union {p} /\ PoolIds' = PoolIds \union {p}
  BY <1>1, <1>2 DEF Pools, PoolIds
<1>4. Grows
  BY <1>2, <1>3 DEF Grows, Pools
<1>5. closed \subseteq Pools /\ left \subseteq Pools
  BY CallTypes, <1>1 DEF Inv, TypeOK, Pools, PoolIds
<1>6. CachedPools \subseteq Pools
  BY <1>1 DEF Inv, TypeOK, CachedPools, Pools, PoolIds
<1>7. p # None
  BY <1>3, DatabasesAssumption
<1> QED
  BY <1>2, <1>3, <1>4, <1>5, <1>6, <1>7

\* A pool of acquire goes on to its schema step.
LEMMA StorePoolKeeps ==
  ASSUME Inv, NEW c \in Calls, NEW p, p = Len(opened) + 1,
         call[c].at = "create", call[c].cache = "ap",
         opened' = Append(opened, [db |-> DbOf[call[c].tenant], cache |-> "ap"]),
         call' = [call EXCEPT ![c] = [@ EXCEPT !.at = "schema", !.pool = p]],
         UNCHANGED <<lock, caches, faults, tables, closed, left, down>>
  PROVE  Inv'
<1>1. PICK t \in Tenants, d \in Databases :
        /\ t = call[c].tenant /\ d = DbOf[t] /\ d # None /\ Key(call[c]) = d
        /\ call[c].op \in {"acquire", "search"}
        /\ call[c].op = "search" => FellBack(t)
  BY CallTypes, DatabasesAssumption DEF CallOK, Key
<1>2. PICK e \in Entries : e = [db |-> d, cache |-> "ap"]
  BY DEF Entries
<1>3. /\ cached' = cached /\ search' = search /\ schema' = schema /\ ready' = ready
      /\ fallbackReady' = fallbackReady /\ opened' = Append(opened, e)
      /\ lock' = lock /\ closed' = closed /\ left' = left /\ down' = down /\ faults' = faults
  BY <1>1, <1>2 DEF caches, tables
<1>4. /\ Grows /\ p \in Pools' /\ opened'[p] = e /\ Len(opened)' = p
      /\ p \notin Pools /\ Pools' = Pools \union {p} /\ PoolIds' = PoolIds \union {p}
      /\ opened' \in Seq(Entries) /\ p \in Nat \ {0}
      /\ p \notin closed \union left \union CachedPools /\ p # None
  BY <1>3, Opened
<1>5. PICK l : l = [call[c] EXCEPT !.at = "schema", !.pool = p]
  OBVIOUS
<1>6. call' = [call EXCEPT ![c] = l] /\ call \in [Calls -> Records]
  BY <1>5 DEF Inv, TypeOK, Records, Sites
<1>7. /\ l \in Records' /\ l.at = "schema" /\ l.pool = p /\ l.cache = "ap" /\ l.tenant = t
      /\ l.op = call[c].op
  BY <1>1, <1>4, <1>5, CallTypes DEF Records, Sites
<1>8. call' \in [Calls -> Records'] /\ call'[c] = l /\ \A q \in Calls \ {c} : call'[q] = call[q]
  BY <1>4, <1>6, <1>7 DEF Records
<1>9. TypeOK'
  <2>1. \A q \in Calls : (lock' = q) <=> (call'[q].at \in {"create", "schema"})
    BY <1>3, <1>7, <1>8 DEF Inv, TypeOK
  <2>2. cached' \in [{"ap", "cs"} -> [Databases -> (PoolIds' \ {0}) \union {None}]]
    BY <1>3, <1>4 DEF Inv, TypeOK
  <2>3. search' \in [Tenants -> PoolIds' \union {None}]
    BY <1>3, <1>4 DEF Inv, TypeOK
  <2>4. closed' \subseteq PoolIds' \ {0} /\ left' \subseteq PoolIds' \ {0}
    BY <1>3, <1>4 DEF Inv, TypeOK
  <2>5. call' \in [Calls -> [op : {"acquire", "search", None}, tenant : Tenants \union {None},
                             at : Sites, cache : {"ap", "cs", None},
                             pool : PoolIds' \union {None}]]
    BY <1>8 DEF Records
  <2>6. /\ lock' \in Calls \union {None} /\ ready' \subseteq Databases /\ ready' \subseteq schema'
        /\ fallbackReady' \in BOOLEAN /\ (fallbackReady' => None \in schema')
        /\ schema' \subseteq Databases \union {None}
        /\ down' \in BOOLEAN /\ faults' \in 0..MaxFaults
    BY <1>3 DEF Inv, TypeOK
  <2> QED
    BY <1>4, <2>1, <2>2, <2>3, <2>4, <2>5, <2>6 DEF TypeOK, Sites, Entries
<1>10. ASSUME NEW q \in Calls PROVE CallOK(call[q])'
  <2>1. CASE q = c
    <3>1. IsPool(p, d, "ap")'
      BY <1>2, <1>4 DEF IsPool
    <3>2. call[c].op = "search" => FellBack(t)'
      BY <1>1, <1>4, GrowsKeeps
    <3>3. CallOK(l)'
      BY <1>1, <1>7, <3>1, <3>2 DEF CallOK
    <3> QED
      BY <1>8, <2>1, <3>3, NextCall
  <2>2. CASE q # c
    <3>1. PICK k : k = call[q] /\ CallOK(k)
      BY DEF Inv
    <3>2. CallOK(k)'
      BY <1>4, <3>1, GrowsKeeps
    <3> QED
      BY <1>8, <2>2, <3>1, <3>2, NextCall
  <2> QED
    BY <2>1, <2>2
<1>11. CachesOK'
  <2>1. ASSUME NEW d2 \in Databases
        PROVE  /\ cached'["ap"][d2] # None => IsPool(cached["ap"][d2], d2, "ap")' /\ d2 \in schema'
               /\ cached'["cs"][d2] # None => IsPool(cached["cs"][d2], d2, "cs")'
    <3>1. PICK r, s : r = cached["ap"][d2] /\ s = cached["cs"][d2]
      OBVIOUS
    <3> QED
      BY <1>3, <1>4, <3>1, GrowsKeeps, NextCached DEF Inv, CachesOK
  <2>2. ASSUME NEW u \in Tenants, search'[u] # None PROVE OfSearch(u, search[u])'
    <3>1. PICK r : r = search[u] /\ OfSearch(u, r)
      BY <1>3, <2>2 DEF Inv, CachesOK
    <3>2. OfSearch(u, r)'
      BY <1>4, <3>1, GrowsKeeps
    <3> QED
      BY <1>3, <3>1, <3>2, NextSearch
  <2>3. ASSUME NEW q \in Calls, call'[q].at \in {"create", "schema"}
        PROVE  cached'[call'[q].cache][Key(call[q])'] = None
    BY <1>1, <1>3, <1>5, <1>7, <1>8, <2>3 DEF Inv, CachesOK, Key
  <2> QED
    BY <2>1, <2>2, <2>3 DEF CachesOK
<1>12. DownOK'
  BY <1>3, CallTypes DEF DownOK
<1>13. KnownOK'
  <2>1. CachedPools' = CachedPools
    BY <1>3 DEF CachedPools
  <2>2. \A q : Working(q) => Working(q)'
    BY <1>8 DEF Working
  <2>3. Working(p)'
    BY <1>7, <1>8 DEF Working
  <2>4. \A q \in Calls : call'[q].at = "schema" =>
          call'[q].pool \notin closed \union CachedPools \union left
    BY <1>4, <1>7, <1>8 DEF Inv, KnownOK
  <2> QED
    BY <1>3, <1>4, <2>1, <2>2, <2>3, <2>4 DEF Inv, KnownOK
<1> QED
  BY <1>9, <1>10, <1>11, <1>12, <1>13 DEF Inv

\* A pool for a connection string is cached and returned.
LEMMA CatalogPoolKeeps ==
  ASSUME Inv, NEW c \in Calls, NEW p, p = Len(opened) + 1,
         call[c].at = "create", call[c].cache = "cs",
         opened' = Append(opened, [db |-> CsOf[call[c].tenant], cache |-> "cs"]),
         cached' = [cached EXCEPT !["cs"][CsOf[call[c].tenant]] = p],
         Return(c, p, search), lock' = None,
         UNCHANGED <<faults, tables, closed, left, down>>
  PROVE  Inv'
<1>1. PICK t \in Tenants, d \in Databases :
        /\ t = call[c].tenant /\ d = CsOf[t] /\ d # None /\ Key(call[c]) = d
        /\ call[c].op = "search"
  BY CallTypes, DatabasesAssumption DEF CallOK, Key
<1>2. PICK e \in Entries : e = [db |-> d, cache |-> "cs"]
  BY DEF Entries
<1>3. /\ schema' = schema /\ ready' = ready /\ fallbackReady' = fallbackReady
      /\ opened' = Append(opened, e) /\ cached' = [cached EXCEPT !["cs"][d] = p]
      /\ closed' = closed /\ left' = left /\ down' = down /\ faults' = faults
  BY <1>1, <1>2 DEF tables
<1>4. /\ Grows /\ p \in Pools' /\ opened'[p] = e /\ Len(opened)' = p
      /\ p \notin Pools /\ Pools' = Pools \union {p} /\ PoolIds' = PoolIds \union {p}
      /\ opened' \in Seq(Entries) /\ p \in Nat \ {0}
      /\ p \notin closed \union left \union CachedPools /\ p # None
  BY <1>3, Opened
<1>5. PICK l : l = [call[c] EXCEPT !.at = "answered", !.pool = p]
  OBVIOUS
<1>6. call' = [call EXCEPT ![c] = l] /\ call \in [Calls -> Records]
  BY <1>5 DEF Return, Inv, TypeOK, Records, Sites
<1>7. l \in Records' /\ l.at = "answered" /\ l.pool = p /\ l.tenant = t /\ l.op = "search"
  BY <1>1, <1>4, <1>5, CallTypes DEF Records, Sites
<1>8. call' \in [Calls -> Records'] /\ call'[c] = l /\ \A q \in Calls \ {c} : call'[q] = call[q]
  BY <1>4, <1>6, <1>7 DEF Records
<1>9. /\ search' = [search EXCEPT ![t] = p] /\ search \in [Tenants -> PoolIds \union {None}]
      /\ cached \in [{"ap", "cs"} -> [Databases -> (PoolIds \ {0}) \union {None}]]
  BY <1>1 DEF Return, Inv, TypeOK
<1>10. \A q \in Calls : call'[q].at \notin {"create", "schema"}
  <2>1. lock = c
    BY CallTypes
  <2>2. \A q \in Calls \ {c} : call[q].at \notin {"create", "schema"}
    BY <2>1 DEF Inv, TypeOK
  <2> QED
    BY <1>7, <1>8, <2>2
<1>11. OfSearch(t, p)'
  BY <1>1, <1>2, <1>4 DEF OfSearch, OfCatalog, IsPool
<1>12. TypeOK'
  <2>1. \A q \in Calls : (lock' = q) <=> (call'[q].at \in {"create", "schema"})
    BY <1>10, DatabasesAssumption
  <2>2. cached' \in [{"ap", "cs"} -> [Databases -> (PoolIds' \ {0}) \union {None}]]
    <3> DEFINE P == (PoolIds' \ {0}) \union {None}
    <3>1. p \in P /\ (PoolIds \ {0}) \union {None} \subseteq P
      BY <1>4
    <3> HIDE DEF P
    <3>2. cached["ap"] \in [Databases -> P] /\ cached["cs"] \in [Databases -> P]
      BY <1>9, <3>1
    <3>3. [cached["cs"] EXCEPT ![d] = p] \in [Databases -> P]
      BY <3>1, <3>2
    <3>4. /\ cached' = [cached EXCEPT !["cs"] = [cached["cs"] EXCEPT ![d] = p]]
          /\ cached = [k \in {"ap", "cs"} |-> cached[k]]
      BY <1>3, <1>9
    <3>5. cached' \in [{"ap", "cs"} -> [Databases -> P]]
      BY <3>2, <3>3, <3>4
    <3> QED
      BY <3>5 DEF P
  <2>3. search' \in [Tenants -> PoolIds' \union {None}]
    BY <1>4, <1>9
  <2>4. closed' \subseteq PoolIds' \ {0} /\ left' \subseteq PoolIds' \ {0}
    BY <1>3, <1>4 DEF Inv, TypeOK
  <2>5. call' \in [Calls -> [op : {"acquire", "search", None}, tenant : Tenants \union {None},
                             at : Sites, cache : {"ap", "cs", None},
                             pool : PoolIds' \union {None}]]
    BY <1>8 DEF Records
  <2>6. /\ lock' \in Calls \union {None} /\ ready' \subseteq Databases /\ ready' \subseteq schema'
        /\ fallbackReady' \in BOOLEAN /\ (fallbackReady' => None \in schema')
        /\ schema' \subseteq Databases \union {None}
        /\ down' \in BOOLEAN /\ faults' \in 0..MaxFaults
    BY <1>3 DEF Inv, TypeOK
  <2> QED
    BY <1>4, <2>1, <2>2, <2>3, <2>4, <2>5, <2>6 DEF TypeOK, Sites, Entries
<1>13. ASSUME NEW q \in Calls PROVE CallOK(call[q])'
  <2>1. CASE q = c
    <3>1. CallOK(l)'
      BY <1>7, <1>11 DEF CallOK
    <3> QED
      BY <1>8, <2>1, <3>1, NextCall
  <2>2. CASE q # c
    <3>1. PICK k : k = call[q] /\ CallOK(k)
      BY DEF Inv
    <3>2. CallOK(k)'
      BY <1>4, <3>1, GrowsKeeps
    <3> QED
      BY <1>8, <2>2, <3>1, <3>2, NextCall
  <2> QED
    BY <2>1, <2>2
<1>14. CachesOK'
  <2>1. ASSUME NEW d2 \in Databases, cached'["ap"][d2] # None
        PROVE  IsPool(cached["ap"][d2], d2, "ap")' /\ d2 \in schema'
    <3>1. PICK r : r = cached["ap"][d2]
      OBVIOUS
    <3>2. cached'["ap"][d2] = r
      BY <1>3, <1>9, <3>1
    <3> QED
      BY <1>3, <1>4, <2>1, <3>1, <3>2, GrowsKeeps, NextCached DEF Inv, CachesOK
  <2>2. ASSUME NEW d2 \in Databases, cached'["cs"][d2] # None
        PROVE  IsPool(cached["cs"][d2], d2, "cs")'
    <3>1. CASE d2 = d
      <4>1. cached'["cs"][d2] = p
        BY <1>3, <1>9, <3>1
      <4>2. IsPool(p, d2, "cs")'
        BY <1>2, <1>4, <3>1 DEF IsPool
      <4> QED
        BY <4>1, <4>2, NextCached
    <3>2. CASE d2 # d
      <4>1. PICK r : r = cached["cs"][d2]
        OBVIOUS
      <4>2. cached'["cs"][d2] = r
        BY <1>3, <1>9, <3>2, <4>1
      <4> QED
        BY <1>4, <2>2, <4>1, <4>2, GrowsKeeps, NextCached DEF Inv, CachesOK
    <3> QED
      BY <3>1, <3>2
  <2>3. ASSUME NEW u \in Tenants, search'[u] # None PROVE OfSearch(u, search[u])'
    <3>1. CASE u = t
      BY <1>9, <1>11, <3>1, NextSearch
    <3>2. CASE u # t
      <4>1. PICK r : r = search[u]
        OBVIOUS
      <4>2. search'[u] = r
        BY <1>9, <3>2, <4>1
      <4>3. OfSearch(u, r)'
        BY <1>4, <2>3, <4>1, <4>2, GrowsKeeps DEF Inv, CachesOK
      <4> QED
        BY <4>2, <4>3, NextSearch
    <3> QED
      BY <3>1, <3>2
  <2> QED
    BY <1>10, <2>1, <2>2, <2>3 DEF CachesOK
<1>15. DownOK'
  BY <1>3, CallTypes DEF DownOK
<1>16. KnownOK'
  <2>1. cached["cs"][d] = None
    BY <1>1, CallTypes DEF Inv, CachesOK, CallOK, Key
  <2>2. CachedPools' = CachedPools \union {p}
    BY <1>3, <1>4, <1>9, <2>1 DEF CachedPools
  <2>3. \A q : ~Working(q)
    BY CallTypes DEF Inv, TypeOK, Working
  <2> QED
    BY <1>3, <1>4, <1>10, <2>2, <2>3 DEF Inv, KnownOK
<1> QED
  BY <1>12, <1>13, <1>14, <1>15, <1>16 DEF Inv

LEMMA CreatePoolKeeps ==
  ASSUME Inv, NEW c \in Calls, CreatePool(c) PROVE Inv'
<1>1. call[c].at = "create" /\ call[c].cache \in {"ap", "cs"}
  BY CallTypes DEF CreatePool, CallOK
<1>2. PICK p : p = Len(opened) + 1
  OBVIOUS
<1>3. CASE call[c].cache = "ap" /\ opened' = Append(opened, [db |-> KeyFor(c, "ap"), cache |-> "ap"])
           /\ call' = [call EXCEPT ![c] = [@ EXCEPT !.at = "schema", !.pool = p]]
           /\ UNCHANGED <<lock, caches, faults, tables, closed, left, down>>
  BY <1>1, <1>2, <1>3, StorePoolKeeps DEF KeyFor
<1>4. CASE call[c].cache = "cs" /\ opened' = Append(opened, [db |-> KeyFor(c, "cs"), cache |-> "cs"])
           /\ cached' = [cached EXCEPT !["cs"][KeyFor(c, "cs")] = p]
           /\ Return(c, p, search) /\ lock' = None
           /\ UNCHANGED <<faults, tables, closed, left, down>>
  BY <1>1, <1>2, <1>4, CatalogPoolKeeps DEF KeyFor
<1>5. CASE Fails /\ (IF call[c].cache = "ap" THEN Raise(c) ELSE EnterAcquire(c))
           /\ lock' = None /\ UNCHANGED <<opened, cached, tables, closed, left, down>>
  BY <1>1, <1>5, FailedPoolKeeps
<1> QED
  BY <1>1, <1>2, <1>3, <1>4, <1>5 DEF CreatePool

-----------------------------------------------------------------------------
(* The schema step, the shutdown *)

LEMMA SchemaDoneKeeps ==
  ASSUME Inv, NEW c \in Calls, call[c].at = "schema", NEW d, d = DbOf[call[c].tenant],
         schema' = schema \union {d}, ready' = ready \union {d},
         cached' = [cached EXCEPT !["ap"][d] = call[c].pool],
         Return(c, call[c].pool, search), lock' = None,
         UNCHANGED <<opened, left, faults, fallbackReady, closed, down>>
  PROVE  Inv'
<1>1. PICK t \in Tenants, p \in Pools :
        /\ t = call[c].tenant /\ p = call[c].pool /\ d = DbOf[t] /\ d # None /\ d \in Databases
        /\ Key(call[c]) = d /\ call[c].cache = "ap" /\ IsPool(p, d, "ap")
        /\ call[c].op \in {"acquire", "search"}
        /\ call[c].op = "search" => FellBack(t)
  BY CallTypes, DatabasesAssumption DEF CallOK, Key, IsPool
<1>2. Grows /\ p \in PoolIds \ {0} /\ p # None
  BY <1>1, CallTypes, TablesOK, DatabasesAssumption DEF Grows, Pools
<1>3. OfStore(t, p)' /\ (call[c].op = "search" => OfSearch(t, p)')
  <2>1. OfStore(t, p)'
    BY <1>1, <1>2, GrowsKeeps DEF OfStore
  <2>2. call[c].op = "search" => FellBack(t)'
    BY <1>1, <1>2, GrowsKeeps
  <2> QED
    BY <2>1, <2>2 DEF OfSearch
<1>4. PICK l \in Records : l.at = "answered" /\ CallOK(l)' /\ Moved(c, l)
  BY <1>1, <1>2, <1>3, ReturnMoves
<1>5. /\ call \in [Calls -> Records] /\ call' \in [Calls -> Records]
      /\ call'[c] = l /\ \A q \in Calls \ {c} : call'[q] = call[q]
  BY <1>4 DEF Moved, Inv, TypeOK, Records, Sites
<1>6. /\ \A q \in Calls : call'[q].at \notin {"create", "schema"}
      /\ \A q \in Calls \ {c} : call[q].at \notin {"create", "schema"}
  <2>1. lock = c
    BY CallTypes
  <2>2. \A q \in Calls \ {c} : call[q].at \notin {"create", "schema"}
    BY <2>1 DEF Inv, TypeOK
  <2> QED
    BY <1>4, <1>5, <2>2
<1>7. cached \in [{"ap", "cs"} -> [Databases -> (PoolIds \ {0}) \union {None}]]
  BY DEF Inv, TypeOK
<1>8. cached' = [cached EXCEPT !["ap"][d] = p]
  BY <1>1
<1>9. TypeOK'
  <2>1. \A q \in Calls : (lock' = q) <=> (call'[q].at \in {"create", "schema"})
    BY <1>6, DatabasesAssumption
  <2>2. cached' \in [{"ap", "cs"} -> [Databases -> (PoolIds \ {0}) \union {None}]]
    <3> DEFINE P == (PoolIds \ {0}) \union {None}
    <3>1. p \in P
      BY <1>2
    <3> HIDE DEF P
    <3>2. cached["ap"] \in [Databases -> P] /\ cached["cs"] \in [Databases -> P]
      BY <1>7 DEF P
    <3>3. [cached["ap"] EXCEPT ![d] = p] \in [Databases -> P]
      BY <3>1, <3>2
    <3>4. /\ cached' = [cached EXCEPT !["ap"] = [cached["ap"] EXCEPT ![d] = p]]
          /\ cached = [k \in {"ap", "cs"} |-> cached[k]]
      BY <1>7, <1>8
    <3>5. cached' \in [{"ap", "cs"} -> [Databases -> P]]
      BY <3>2, <3>3, <3>4
    <3> QED
      BY <3>5 DEF P
  <2>3. call' \in [Calls -> [op : {"acquire", "search", None}, tenant : Tenants \union {None},
                             at : Sites, cache : {"ap", "cs", None},
                             pool : PoolIds' \union {None}]]
    BY <1>5 DEF Records, PoolIds
  <2>4. /\ lock' \in Calls \union {None} /\ ready' \subseteq Databases /\ ready' \subseteq schema'
        /\ fallbackReady' \in BOOLEAN /\ (fallbackReady' => None \in schema')
        /\ schema' \subseteq Databases \union {None}
    BY <1>1 DEF Inv, TypeOK
  <2>5. search' \in [Tenants -> PoolIds' \union {None}] /\ PoolIds' = PoolIds
    BY <1>4 DEF Moved, PoolIds
  <2> QED
    BY <2>1, <2>2, <2>3, <2>4, <2>5 DEF Inv, TypeOK, Sites
<1>10. ASSUME NEW q \in Calls PROVE CallOK(call[q])'
  <2>1. CASE q = c
    BY <1>4, <1>5, <2>1, NextCall
  <2>2. CASE q # c
    <3>1. PICK k : k = call[q] /\ CallOK(k)
      BY DEF Inv
    <3>2. CallOK(k)'
      BY <1>2, <3>1, GrowsKeeps
    <3> QED
      BY <1>5, <2>2, <3>1, <3>2, NextCall
  <2> QED
    BY <2>1, <2>2
<1>11. CachesOK'
  <2>1. ASSUME NEW d2 \in Databases, cached'["cs"][d2] # None
        PROVE  IsPool(cached["cs"][d2], d2, "cs")'
    <3>1. PICK r : r = cached["cs"][d2]
      OBVIOUS
    <3>2. cached'["cs"][d2] = r
      BY <1>7, <1>8, <3>1
    <3> QED
      BY <1>2, <2>1, <3>1, <3>2, GrowsKeeps, NextCached DEF Inv, CachesOK
  <2>2. ASSUME NEW d2 \in Databases, cached'["ap"][d2] # None
        PROVE  IsPool(cached["ap"][d2], d2, "ap")' /\ d2 \in schema'
    <3>1. CASE d2 = d
      <4>1. cached'["ap"][d2] = p
        BY <1>7, <1>8, <3>1
      <4>2. IsPool(p, d2, "ap")'
        BY <1>1, <1>2, <3>1, GrowsKeeps
      <4> QED
        BY <3>1, <4>1, <4>2, NextCached
    <3>2. CASE d2 # d
      <4>1. PICK r : r = cached["ap"][d2]
        OBVIOUS
      <4>2. cached'["ap"][d2] = r
        BY <1>7, <1>8, <3>2, <4>1
      <4> QED
        BY <1>2, <2>2, <4>1, <4>2, GrowsKeeps, NextCached DEF Inv, CachesOK
    <3> QED
      BY <3>1, <3>2
  <2>3. ASSUME NEW u \in Tenants, search'[u] # None PROVE OfSearch(u, search[u])'
    <3>1. PICK r : r = search[u]
      OBVIOUS
    <3>2. CASE search'[u] = search[u]
      <4>1. OfSearch(u, r)'
        BY <1>2, <2>3, <3>1, <3>2, GrowsKeeps DEF Inv, CachesOK
      <4> QED
        BY <3>1, <3>2, <4>1, NextSearch
    <3> QED
      BY <1>4, <3>2 DEF Moved
  <2> QED
    BY <1>6, <2>1, <2>2, <2>3 DEF CachesOK
<1>12. DownOK'
  BY CallTypes DEF DownOK
<1>13. KnownOK'
  <2>1. cached["ap"][d] = None
    BY <1>1 DEF Inv, CachesOK
  <2>2. CachedPools' = CachedPools \union {p}
    BY <1>1, <1>2, <1>7, <1>8, <2>1 DEF CachedPools
  <2>3. \A q : Working(q) => q = p
    BY <1>1, <1>6 DEF Working
  <2>4. p \notin closed \union left
    BY <1>1 DEF Inv, KnownOK
  <2>5. Pools' = Pools
    BY DEF Pools
  <2> QED
    BY <1>6, <2>2, <2>3, <2>4, <2>5 DEF Inv, KnownOK
<1> QED
  BY <1>9, <1>10, <1>11, <1>12, <1>13 DEF Inv

\* A schema step that fails leaves its pool behind, one per fault.
LEMMA SchemaFailedKeeps ==
  ASSUME Inv, NEW c \in Calls, call[c].at = "schema", Fails, Raise(c),
         left' = left \union {call[c].pool}, lock' = None,
         UNCHANGED <<cached, schema, ready, opened, fallbackReady, closed, down>>
  PROVE  Inv'
<1>1. PICK t \in Tenants, p \in Pools :
        /\ t = call[c].tenant /\ p = call[c].pool /\ call[c].op \in {"acquire", "search"}
  BY CallTypes DEF CallOK, IsPool
<1>2. faults' \in 0..MaxFaults /\ faults' = faults + 1 /\ faults \in Nat
  BY FailCounts, TablesOK DEF Fails
<1>3. Grows
  BY <1>2 DEF Grows, Pools
<1>4. PICK l \in Records : l.at = "raised" /\ CallOK(l)' /\ Moved(c, l)
  BY <1>1, RaiseMoves
<1>5. /\ call \in [Calls -> Records] /\ call' \in [Calls -> Records]
      /\ call'[c] = l /\ \A q \in Calls \ {c} : call'[q] = call[q]
  BY <1>4 DEF Moved, Inv, TypeOK, Records, Sites
<1>6. /\ \A q \in Calls : call'[q].at \notin {"create", "schema"}
      /\ \A q \in Calls \ {c} : call[q].at \notin {"create", "schema"}
  <2>1. lock = c
    BY CallTypes
  <2>2. \A q \in Calls \ {c} : call[q].at \notin {"create", "schema"}
    BY <2>1 DEF Inv, TypeOK
  <2> QED
    BY <1>4, <1>5, <2>2
<1>7. TypeOK'
  <2>1. \A q \in Calls : (lock' = q) <=> (call'[q].at \in {"create", "schema"})
    BY <1>6, DatabasesAssumption
  <2>2. call' \in [Calls -> [op : {"acquire", "search", None}, tenant : Tenants \union {None},
                             at : Sites, cache : {"ap", "cs", None},
                             pool : PoolIds' \union {None}]]
    BY <1>5 DEF Records, PoolIds
  <2>3. search' \in [Tenants -> PoolIds' \union {None}] /\ PoolIds' = PoolIds
    BY <1>4 DEF Moved, PoolIds
  <2>4. left' \subseteq PoolIds \ {0}
    BY <1>1, CallTypes DEF Inv, TypeOK
  <2> QED
    BY <1>2, <2>1, <2>2, <2>3, <2>4 DEF Inv, TypeOK, Sites
<1>8. ASSUME NEW q \in Calls PROVE CallOK(call[q])'
  <2>1. CASE q = c
    BY <1>4, <1>5, <2>1, NextCall
  <2>2. CASE q # c
    <3>1. PICK k : k = call[q] /\ CallOK(k)
      BY DEF Inv
    <3>2. CallOK(k)'
      BY <1>3, <3>1, GrowsKeeps
    <3> QED
      BY <1>5, <2>2, <3>1, <3>2, NextCall
  <2> QED
    BY <2>1, <2>2
<1>9. CachesOK'
  <2>1. ASSUME NEW d \in Databases
        PROVE  /\ cached'["ap"][d] # None => IsPool(cached["ap"][d], d, "ap")' /\ d \in schema'
               /\ cached'["cs"][d] # None => IsPool(cached["cs"][d], d, "cs")'
    <3>1. PICK r, s : r = cached["ap"][d] /\ s = cached["cs"][d]
      OBVIOUS
    <3> QED
      BY <1>3, <3>1, GrowsKeeps, NextCached DEF Inv, CachesOK
  <2>2. ASSUME NEW u \in Tenants, search'[u] # None PROVE OfSearch(u, search[u])'
    <3>1. PICK r : r = search[u] /\ search'[u] = r
      BY DEF Raise
    <3>2. OfSearch(u, r)'
      BY <1>3, <2>2, <3>1, GrowsKeeps DEF Inv, CachesOK
    <3> QED
      BY <3>1, <3>2, NextSearch
  <2> QED
    BY <1>6, <2>1, <2>2 DEF CachesOK
<1>10. DownOK'
  BY CallTypes DEF DownOK
<1>11. KnownOK'
  <2>1. CachedPools' = CachedPools /\ Pools' = Pools
    BY DEF CachedPools, Pools
  <2>2. \A q : Working(q) => q = p
    BY <1>1, <1>6 DEF Working
  <2>3. p \notin closed \union CachedPools \union left
    BY <1>1 DEF Inv, KnownOK
  <2>4. Cardinality(left)' <= faults'
    <3>1. IsFiniteSet(left) /\ Cardinality(left) \in Nat
      BY LeftIsFinite DEF Inv
    <3>2. Cardinality(left \union {p}) = Cardinality(left) + 1
      BY <2>3, <3>1, FS_AddElement
    <3>3. Cardinality(left) <= faults
      BY DEF Inv, KnownOK
    <3>4. Cardinality(left)' = Cardinality(left \union {p})
      BY <1>1
    <3> QED
      BY <1>2, <3>1, <3>2, <3>3, <3>4
  <2> QED
    BY <1>1, <1>6, <2>1, <2>2, <2>3, <2>4 DEF Inv, KnownOK
<1> QED
  BY <1>7, <1>8, <1>9, <1>10, <1>11 DEF Inv

LEMMA EnsureSchemaKeeps ==
  ASSUME Inv, NEW c \in Calls, EnsureSchema(c) PROVE Inv'
<1>1. PICK d : d = DbOf[call[c].tenant]
  OBVIOUS
<1>2. CASE /\ schema' = schema \union {d} /\ ready' = ready \union {d}
           /\ cached' = [cached EXCEPT !["ap"][d] = call[c].pool]
           /\ Return(c, call[c].pool, search) /\ UNCHANGED <<left, faults>>
  BY <1>1, <1>2, SchemaDoneKeeps DEF EnsureSchema
<1>3. CASE /\ Fails /\ Raise(c) /\ left' = left \union {call[c].pool}
           /\ UNCHANGED <<cached, schema, ready>>
  BY <1>3, SchemaFailedKeeps DEF EnsureSchema
<1> QED
  BY <1>1, <1>2, <1>3 DEF EnsureSchema

LEMMA CloseKeeps ==
  ASSUME Inv, Close PROVE Inv'
<1>1. /\ \A q \in Calls : call[q].at \in {"new", "answered", "raised"}
      /\ down' = TRUE /\ closed' = closed \union CachedPools
      /\ cached' = [k \in {"ap", "cs"} |-> [d \in Databases |-> None]]
      /\ search' = [t \in Tenants |-> None]
      /\ ready' = {} /\ fallbackReady' = FALSE
      /\ call' = call /\ lock' = lock /\ opened' = opened /\ schema' = schema
      /\ left' = left /\ faults' = faults
  BY DEF Close
<1>2. Grows
  BY <1>1 DEF Grows, Pools
<1>3. CachedPools \subseteq PoolIds \ {0}
  BY DEF Inv, TypeOK, CachedPools
<1>4. TypeOK'
  <2>1. cached' \in [{"ap", "cs"} -> [Databases -> (PoolIds \ {0}) \union {None}]]
    BY <1>1
  <2>2. PoolIds' = PoolIds /\ closed' \subseteq PoolIds \ {0}
    BY <1>1, <1>3 DEF PoolIds, Inv, TypeOK
  <2> QED
    BY <1>1, <2>1, <2>2 DEF Inv, TypeOK
<1>5. ASSUME NEW q \in Calls PROVE CallOK(call[q])'
  <2>1. PICK k : k = call[q] /\ CallOK(k)
    BY DEF Inv
  <2>2. CallOK(k)'
    BY <1>2, <2>1, GrowsKeeps
  <2> QED
    BY <1>1, <2>1, <2>2, NextCall
<1>6. CachesOK'
  BY <1>1 DEF CachesOK
<1>7. DownOK'
  BY <1>1 DEF DownOK
<1>8. KnownOK'
  <2>1. CachedPools' = {}
    BY <1>1 DEF CachedPools
  <2>2. Pools' = Pools /\ \A q : ~Working(q)
    BY <1>1 DEF Pools, Working
  <2> QED
    BY <1>1, <2>1, <2>2 DEF Inv, KnownOK
<1> QED
  BY <1>4, <1>5, <1>6, <1>7, <1>8 DEF Inv

-----------------------------------------------------------------------------
(* The invariant, and what follows from it *)

LEMMA InitInv == Init => Inv
<1> SUFFICES ASSUME Init PROVE Inv
  OBVIOUS
<1>1. opened = <<>> /\ Len(opened) = 0 /\ Pools = {} /\ PoolIds = {0}
  BY DEF Init, Pools, PoolIds
<1>2. TypeOK
  <2>1. \A c \in Calls : c # None
    BY DatabasesAssumption
  <2>2. call \in [Calls -> Records] /\ \A c \in Calls : call[c].at = "new"
    BY DEF Init, NoCall, Records, Sites
  <2>3. /\ opened \in Seq(Entries) /\ faults \in 0..MaxFaults /\ lock = None
        /\ cached \in [{"ap", "cs"} -> [Databases -> (PoolIds \ {0}) \union {None}]]
        /\ search \in [Tenants -> PoolIds \union {None}]
    BY <1>1, DatabasesAssumption DEF Init
  <2> QED
    BY <2>1, <2>2, <2>3 DEF Init, TypeOK, Records, Sites, Entries
<1>3. \A c \in Calls : CallOK(call[c])
  BY DEF Init, CallOK, NoCall
<1>4. CachesOK /\ DownOK
  BY DEF Init, CachesOK, DownOK, NoCall
<1>5. KnownOK
  BY <1>1, FS_EmptySet DEF Init, KnownOK, NoCall, CachedPools
<1> QED
  BY <1>2, <1>3, <1>4, <1>5 DEF Inv

\* A step in which nothing changes keeps Inv.
LEMMA StutterKeeps == Inv /\ UNCHANGED vars => Inv'
BY DEF Inv, TypeOK, CallOK, CachesOK, DownOK, KnownOK, Key, OfStore, OfSearch, OfCatalog, FellBack,
       IsPool, Pools, PoolIds, CachedPools, Working, vars

LEMMA SpecInv == Spec => []Inv
<1>1. Inv /\ [Next]_vars => Inv'
  BY AskKeeps, AcquireKeeps, LookUpKeeps, TakeLockKeeps, CreatePoolKeeps, EnsureSchemaKeeps,
     EnsureFallbackKeeps, CloseKeeps, StutterKeeps DEF Next
<1> QED
  BY <1>1, InitInv, PTL DEF Spec

\* Types, for any number of calls, tenants and databases; the lock is held
\* exactly by the call that opens a pool (async with self._lock).
THEOREM TypeCorrect == Spec => []TypeOK
<1>1. Inv => TypeOK
  BY DEF Inv
<1> QED
  BY <1>1, SpecInv, PTL

\* No pool of the tenant databases gets lost except one per failed schema step,
\* and none is open twice for one cache (ApTenantDbPools, acquire to close).
THEOREM PoolsKnown == Spec => []OpenPoolsAreKnown
<1>1. Inv => OpenPoolsAreKnown
  <2> SUFFICES ASSUME Inv PROVE OpenPoolsAreKnown
    OBVIOUS
  <2>1. Pools = PoolIds \ {0}
    BY DEF Inv, TypeOK, Pools, PoolIds
  <2>2. ASSUME NEW p \in CachedPools, NEW q \in CachedPools, opened[p] = opened[q] PROVE p = q
    <3>1. PICK k \in {"ap", "cs"}, d \in Databases : p = cached[k][d] /\ p # None
      BY DEF CachedPools
    <3>2. PICK j \in {"ap", "cs"}, e \in Databases : q = cached[j][e] /\ q # None
      BY DEF CachedPools
    <3>3. opened[p] = [db |-> d, cache |-> k] /\ opened[q] = [db |-> e, cache |-> j]
      BY <3>1, <3>2 DEF Inv, CachesOK, IsPool
    <3>4. /\ opened[p].db = d /\ opened[p].cache = k
          /\ opened[q].db = e /\ opened[q].cache = j
      BY <3>3
    <3>5. d = e /\ k = j
      BY <2>2, <3>4
    <3> QED
      BY <3>1, <3>2, <3>5
  <2> QED
    BY <2>1, <2>2 DEF Inv, KnownOK, OpenPoolsAreKnown
<1> QED
  BY <1>1, SpecInv, PTL

\* Every answer of acquire and acquire_for_global_search is a pool of the
\* database the tenant is entitled to, with the AP tables for the AP store.
THEOREM RightAnswers == Spec => []AnswersAreRight
<1>1. Inv => AnswersAreRight
  <2> SUFFICES ASSUME Inv, NEW c \in Calls, call[c].at = "answered", NEW t, t = call[c].tenant,
                      NEW p, p = call[c].pool
               PROVE  LET ofStore == IF DbOf[t] = None THEN p = 0 /\ None \in schema
                                     ELSE /\ p # 0 /\ DbOf[t] \in schema
                                          /\ opened[p] = [db |-> DbOf[t], cache |-> "ap"]
                          ofCatalog == /\ p # 0 /\ CsOf[t] # None
                                       /\ opened[p] = [db |-> CsOf[t], cache |-> "cs"]
                      IN  IF call[c].op = "acquire" THEN ofStore
                          ELSE ofCatalog \/ (ofStore /\ (CsOf[t] = None \/ faults > 0))
    BY DEF AnswersAreRight
  <2>1. \A q, d, k : IsPool(q, d, k) => q # 0 /\ opened[q] = [db |-> d, cache |-> k]
    BY DEF IsPool, Pools, Inv, TypeOK
  <2>2. IF call[c].op = "acquire" THEN OfStore(t, p) ELSE OfSearch(t, p)
    BY DEF Inv, CallOK
  <2> QED
    BY <2>1, <2>2 DEF OfStore, OfSearch, OfCatalog, FellBack
<1> QED
  BY <1>1, SpecInv, PTL
=============================================================================
