-------------------------- MODULE WorkerPoolProofs --------------------------
(***************************************************************************)
(* What the worker pool keeps of a tenant until two requests for it cross, *)
(* and of its size at all times, for any number of tenants, calls and      *)
(* workers.  Timers, crashes, the requests of the tenant and those of all  *)
(* others interleave freely.                                               *)
(***************************************************************************)
EXTENDS WorkerManagerProofs

(* The workers that were made for a tenant, those of them in the pool, and *)
(* the calls for it.                                                       *)
Of(t) == {w \in WorkerIds : entry[w] # Nothing /\ entry[w].tenant = t}

Pool(t) == workers \cap Of(t)

For(t) == {r \in Calls : call[r].tenant = t}

Pending(w) == waiters[w] # {} \/ \E by \in Callers : <<w, by>> \in finishing

(* Calls and leases keep to their tenant, and a process without listeners  *)
(* has no Chrome that runs.                                                *)
OwnInv ==
    /\ \A r \in Calls : call[r].pc = "idle" => call[r].tenant = Nothing
    /\ \A r \in Calls, w \in WorkerIds : Awaits(r, w) => w \in Of(call[r].tenant)
    /\ \A r \in Calls : call[r].pc \in {"mkdir", "polling"} =>
          call[r].worker \in Of(call[r].tenant)
    /\ \A t \in Tenants : lease[t] # Nothing => lease[t].worker \in Of(t)
    /\ \A w \in WorkerIds : entry[w] # Nothing /\ entry[w].attached = FALSE =>
          entry[w].chrome \in {"none", "gone"}

(* A worker that is being started is in the pool, without an idle timer or *)
(* a cleanup, and its tenant has no lease.                                 *)
Starts(r, t) ==
    LET w == call[r].worker
    IN  /\ w \in Pool(t) /\ ~Pending(w)
        /\ entry[w].idle = FALSE /\ entry[w].state # "running"
        /\ lease[t] = Nothing
        /\ call[r].pc = "mkdir" => entry[w].process = "starting" /\ entry[w].attached = FALSE
        /\ entry[w].process = "stopping" => entry[w].attached = FALSE

(* The tenant has one call, which finds the pool without a worker of it    *)
(* when it makes one.                                                      *)
StagesInv(t) ==
    /\ \A r, q \in For(t) : r = q
    /\ \A r \in For(t) : call[r].pc \in {"create", "probing"} => Pool(t) = {}
    /\ \A r \in For(t) : call[r].pc \in {"mkdir", "polling"} => Starts(r, t)

(* The mapping leads to its one worker.  A cleanup that has ended leaves no*)
(* other worker, and no other cleanup, behind; one that waits for the exit *)
(* of a worker waits for one that is killed and still in the pool.         *)
CleanupsInv(t) ==
    /\ \A w \in Pool(t) : mapping[t] = w
    /\ \A w \in Of(t), by \in Callers : <<w, by>> \in finishing =>
          waiters[w] = {} /\ Pool(t) \subseteq {w}
    /\ \A w \in Of(t) : waiters[w] # {} =>
          /\ w \in workers /\ entry[w].attached = TRUE /\ entry[w].process = "stopping"

(* Its lease is on that worker, which no cleanup is about to take out, and *)
(* no idle timer is to stop.                                               *)
LeaseInv(t) ==
    lease[t] # Nothing =>
        /\ lease[t].worker \in Pool(t)
        /\ \A by \in Callers : <<lease[t].worker, by>> \notin finishing
        /\ lease[t].status = "active" /\ lease[t].over = FALSE =>
              entry[lease[t].worker].idle = FALSE

(* A Chrome that runs was killed, or its worker is in the pool to stay.    *)
ChromesInv(t) ==
    \A w \in Of(t) :
        /\ entry[w].attached = TRUE /\ entry[w].process \in {"stopping", "stopped"} =>
              entry[w].killed = TRUE
        /\ entry[w].chrome \in {"launching", "listening"} /\ entry[w].killed = FALSE =>
              w \in workers /\ ~Pending(w)

TenantInv(t) == StagesInv(t) /\ CleanupsInv(t) /\ LeaseInv(t) /\ ChromesInv(t)

UncrossedInv == OwnInv /\ \A t \in Tenants \ crossed : TenantInv(t)

-----------------------------------------------------------------------------
(* A step that leaves what was made to the tenant it was made for.         *)
TenantsStay ==
    \A w \in WorkerIds : entry[w] # Nothing =>
        entry'[w] # Nothing /\ entry'[w].tenant = entry[w].tenant

LEMMA EntriesTenants ==
    ASSUME EntriesStay
    PROVE  TenantsStay /\ \A t : Of(t)' = Of(t)
BY NoObjectAssumption DEF EntriesStay, TenantsStay, Of

(* A step that keeps calls and leases to their tenant.                     *)
LEMMA OwnFrame ==
    ASSUME OwnInv, TenantsStay,
           \A r \in Calls : \/ call'[r] = call[r]
                            \/ call'[r].pc = "idle" /\ call'[r].tenant = Nothing
                            \/ call'[r].pc \notin {"idle", "mkdir", "polling"}
                            \/ /\ call'[r].pc \in {"mkdir", "polling"}
                               /\ call'[r].worker \in Of(call[r].tenant)',
           \A r \in Calls, w \in WorkerIds : Awaits(r, w)' =>
               \/ Awaits(r, w) /\ call'[r].tenant = call[r].tenant
               \/ w \in Of(call'[r].tenant),
           \A t \in Tenants : lease'[t] # Nothing =>
               \/ lease[t] # Nothing /\ lease'[t].worker = lease[t].worker
               \/ lease'[t].worker \in Of(t),
           \A w \in WorkerIds : entry'[w] # Nothing /\ entry'[w].attached = FALSE =>
               \/ entry'[w].chrome \in {"none", "gone"}
               \/ /\ entry[w] # Nothing /\ entry[w].attached = FALSE
                  /\ entry'[w].chrome = entry[w].chrome
    PROVE  OwnInv'
<1>1. \A t : Of(t) \subseteq Of(t)'
    BY DEF TenantsStay, Of
<1>2. \A r \in Calls : call'[r].pc = "idle" => call'[r].tenant = Nothing
    BY DEF OwnInv
<1>3. \A r \in Calls, w \in WorkerIds : Awaits(r, w)' => w \in Of(call[r].tenant)'
    BY <1>1 DEF OwnInv
<1>4. \A r \in Calls : call'[r].pc \in {"mkdir", "polling"} =>
          call'[r].worker \in Of(call[r].tenant)'
    BY <1>1 DEF OwnInv
<1>5. \A t \in Tenants : lease'[t] # Nothing => lease'[t].worker \in Of(t)'
    BY <1>1 DEF OwnInv
<1>6. \A w \in WorkerIds : entry'[w] # Nothing /\ entry'[w].attached = FALSE =>
          entry'[w].chrome \in {"none", "gone"}
    BY DEF OwnInv
<1> QED
    BY <1>2, <1>3, <1>4, <1>5, <1>6 DEF OwnInv

(* A step that leaves every process of a tenant and its Chrome as they are,*)
(* or has a Chrome listen.                                                 *)
ChromesStay(t) ==
    \A w \in Of(t) :
        /\ entry'[w].attached = entry[w].attached
        /\ entry'[w].process = entry[w].process /\ entry'[w].killed = entry[w].killed
        /\ entry'[w].state = entry[w].state
        /\ \/ entry'[w].chrome = entry[w].chrome
           \/ entry'[w].chrome = "listening" /\ entry[w].chrome = "launching"
        /\ \/ entry'[w].idle = FALSE
           \/ entry'[w].idle = entry[w].idle
           \/ lease[t] # Nothing

(* A step that leases no worker but one that runs in the pool, and starts  *)
(* no idle timer of a worker whose lease it leaves.                        *)
LeaseStays(t) ==
    lease'[t] # Nothing =>
        LET w == lease'[t].worker
        IN  \/ /\ lease[t] # Nothing /\ lease[t].worker = w
               /\ \/ entry'[w].idle = FALSE
                  \/ /\ entry'[w].idle = entry[w].idle
                     /\ lease'[t].status = "active" /\ lease'[t].over = FALSE =>
                           lease[t].status = "active" /\ lease[t].over = FALSE
            \/ /\ w \in Pool(t) /\ entry[w].state = "running"
               /\ finishing = {} /\ entry'[w].idle = FALSE

(* A step that leaves the pool and the cleanups of a tenant alone.         *)
CleanupsStay(t) ==
    /\ Of(t)' = Of(t) /\ Pool(t)' = Pool(t) /\ mapping'[t] = mapping[t]
    /\ \A w \in Of(t) :
          /\ waiters'[w] = waiters[w]
          /\ \A by \in Callers : <<w, by>> \in finishing' => <<w, by>> \in finishing

(* ... and its calls, but for the search for a port.                       *)
CallsStay(t) ==
    \A r \in Calls : call'[r].tenant = t =>
        /\ call[r].tenant = t
        /\ \/ call'[r] = call[r]
           \/ call'[r].pc = "probing" /\ call[r].pc \in {"create", "probing"}

LEMMA WorkersFrame ==
    ASSUME NEW t \in Tenants, TenantInv(t), ChromesStay(t), LeaseStays(t), CleanupsStay(t)
    PROVE  CleanupsInv(t)' /\ LeaseInv(t)' /\ ChromesInv(t)'
<1>1. CleanupsInv(t) /\ LeaseInv(t) /\ ChromesInv(t)
    BY DEF TenantInv
<1>2. /\ Of(t)' = Of(t) /\ Pool(t)' = Pool(t) /\ mapping'[t] = mapping[t]
      /\ \A w \in Of(t) : waiters'[w] = waiters[w] /\ (Pending(w)' => Pending(w))
      /\ \A w \in Of(t), by \in Callers : <<w, by>> \in finishing' => <<w, by>> \in finishing
      /\ \A w \in Of(t) : w \in workers' <=> w \in workers
    BY DEF CleanupsStay, Pending, Pool
<1>3. CleanupsInv(t)'
    BY <1>1, <1>2 DEF CleanupsInv, ChromesStay
<1>4. LeaseInv(t)'
    <2>1. Pool(t) \subseteq Of(t)
        BY DEF Pool
    <2> QED
        BY <1>1, <1>2, <2>1 DEF LeaseInv, LeaseStays
<1>5. ChromesInv(t)'
    BY <1>1, <1>2 DEF ChromesInv, ChromesStay
<1> QED
    BY <1>3, <1>4, <1>5

LEMMA TenantFrame ==
    ASSUME NEW t \in Tenants, TenantInv(t), ChromesStay(t), LeaseStays(t), CleanupsStay(t),
           CallsStay(t)
    PROVE  TenantInv(t)'
<1>1. CleanupsInv(t)' /\ LeaseInv(t)' /\ ChromesInv(t)'
    BY WorkersFrame
<1>2. StagesInv(t) /\ CleanupsInv(t)
    BY DEF TenantInv
<1>3. /\ Pool(t)' = Pool(t) /\ Pool(t) \subseteq Of(t)
      /\ \A w \in Of(t) : Pending(w)' => Pending(w)
    BY DEF CleanupsStay, Pending, Pool
<1>4. \A r \in For(t)' : r \in For(t)
    BY DEF CallsStay, For
<1>5. ASSUME NEW r \in For(t)', call'[r].pc \in {"mkdir", "polling"}
      PROVE  Starts(r, t)'
    <2>1. call'[r] = call[r] /\ r \in For(t)
        BY <1>4, <1>5 DEF CallsStay, For
    <2>2. Starts(r, t)
        BY <1>2, <1>5, <2>1 DEF StagesInv
    <2>3. call[r].worker \in Pool(t) /\ call[r].worker \in Of(t)
        BY <1>3, <2>2 DEF Starts
    <2>4. lease'[t] = Nothing
        BY <1>2, <2>2, <2>3 DEF LeaseStays, Starts, CleanupsInv
    <2> QED
        BY <1>3, <2>1, <2>2, <2>3, <2>4 DEF Starts, ChromesStay
<1>6. \A r \in For(t)' : call'[r].pc \in {"create", "probing"} => Pool(t)' = {}
    BY <1>2, <1>3, <1>4 DEF StagesInv, CallsStay, For
<1> QED
    BY <1>1, <1>2, <1>4, <1>5, <1>6 DEF TenantInv, StagesInv

(* What a step does to one worker, lease or call of another tenant leaves  *)
(* this one as it is.                                                      *)
LEMMA Elsewhere ==
    ASSUME NEW t \in Tenants, TenantInv(t), Of(t)' = Of(t),
           mapping'[t] = mapping[t], lease'[t] = lease[t],
           \A w \in Of(t) : /\ entry'[w] = entry[w] /\ waiters'[w] = waiters[w]
                            /\ w \in workers' <=> w \in workers
                            /\ \A by \in Callers :
                                  <<w, by>> \in finishing' => <<w, by>> \in finishing,
           \A r \in Calls : call'[r].tenant = t => call'[r] = call[r]
    PROVE  TenantInv(t)'
<1>1. CleanupsStay(t) /\ CallsStay(t) /\ ChromesStay(t)
    BY DEF CleanupsStay, CallsStay, ChromesStay, Pool
<1>2. LeaseStays(t)
    BY DEF TenantInv, LeaseInv, LeaseStays, Pool
<1> QED
    BY <1>1, <1>2, TenantFrame
-----------------------------------------------------------------------------
(* A worker whose entry changes in one place: the others stay.             *)
LEMMA OneChanges ==
    ASSUME TypeOK, NEW w \in WorkerIds, NEW e, entry' = [entry EXCEPT ![w] = e]
    PROVE  entry'[w] = e /\ \A v \in WorkerIds : v # w => entry'[v] = entry[v]
BY DEF TypeOK

(* A cleanup, of a timer, a request or shutdown, up to its awaits.         *)
LEMMA CleanupTenant ==
    ASSUME PoolInv, OwnInv, NEW t \in Tenants, TenantInv(t), finishing = {},
           NEW W \in SUBSET workers, NEW by \in Callers, CleanupWorkers(W, by),
           t \notin Crossed(W), UNCHANGED <<workers, mapping>>,
           \A r \in Calls : call'[r].tenant = t =>
               \/ call'[r] = call[r]
               \/ call'[r].pc = "stopping" /\ For(t) = {} /\ r = by
    PROVE  TenantInv(t)'
<1>1. TypeOK /\ MadeInv
    BY DEF PoolInv
<1>2. StagesInv(t) /\ CleanupsInv(t) /\ LeaseInv(t) /\ ChromesInv(t)
    BY DEF TenantInv
<1>3. /\ EntriesStay
      /\ \A w \in WorkerIds : w \notin W => waiters'[w] = waiters[w]
      /\ \A w \in W : IF StopsAtOnce(entry[w])
                      THEN waiters'[w] = waiters[w]
                      ELSE waiters'[w] = waiters[w] \cup {by}
      /\ \A w \in WorkerIds, d \in Callers :
            <<w, d>> \in finishing' <=>
                \/ <<w, d>> \in finishing
                \/ w \in W /\ d = by /\ StopsAtOnce(entry[w])
    BY <1>1, CleanupFacts
<1>4. Of(t)' = Of(t) /\ Pool(t)' = Pool(t)
    BY <1>3, EntriesTenants DEF Pool
<1>5. /\ entry' = [w \in WorkerIds |-> IF w \in W THEN Stopping(entry[w]) ELSE entry[w]]
      /\ lease' = Revoked({entry[w].tenant : w \in W})
    BY DEF CleanupWorkers
<1>6. CASE W \cap Of(t) = {}
    <2>1. \A w \in W : w \in WorkerIds /\ entry[w] # Nothing /\ entry[w].tenant # t
        BY <1>1, <1>6 DEF Of, TypeOK, MadeInv
    <2>2. lease'[t] = lease[t]
        BY <1>5, <2>1 DEF Revoked
    <2>3. \A w \in Of(t) : /\ w \in WorkerIds /\ w \notin W
                           /\ entry'[w] = entry[w] /\ waiters'[w] = waiters[w]
                           /\ \A d \in Callers : <<w, d>> \in finishing' => <<w, d>> \in finishing
        BY <1>3, <1>5, <1>6 DEF Of
    <2>4. CASE For(t)' \subseteq For(t) /\ \A r \in For(t)' : call'[r] = call[r]
        <3>1. \A r \in Calls : call'[r].tenant = t => call'[r] = call[r]
            BY <2>4 DEF For
        <3> QED
            BY <1>4, <2>2, <2>3, <3>1, Elsewhere
    <2>5. CASE ~(For(t)' \subseteq For(t) /\ \A r \in For(t)' : call'[r] = call[r])
        <3>1. \A r \in For(t)' : r = by /\ call'[r].pc = "stopping"
            BY <2>5 DEF For
        <3>2. CleanupsStay(t) /\ ChromesStay(t)
            BY <1>4, <2>3 DEF CleanupsStay, ChromesStay
        <3>3. LeaseStays(t)
            BY <1>2, <2>2, <2>3 DEF LeaseInv, LeaseStays, Pool
        <3>4. StagesInv(t)'
            BY <3>1 DEF StagesInv
        <3> QED
            BY <3>2, <3>3, <3>4, WorkersFrame DEF TenantInv
    <2> QED
        BY <2>4, <2>5
<1>7. ASSUME NEW w \in W \cap Of(t)
      PROVE  TenantInv(t)'
    <2>1. /\ w \in WorkerIds /\ w \in workers /\ w \in Pool(t) /\ entry[w].tenant = t
          /\ entry[w] \in Entry /\ mapping[t] = w
        BY <1>1, <1>2, <1>7 DEF Of, Pool, TypeOK, CleanupsInv
    <2>2. Pool(t) = {w}
        BY <1>2, <2>1 DEF CleanupsInv
    <2>3. ~Crosses(w)
        BY <2>1 DEF Crossed
    <2>4. waiters[w] = {}
        BY <2>3 DEF Crosses
    <2>5. \A r \in For(t) : call[r].pc \notin {"create", "probing", "mkdir", "polling"}
        BY <1>2, <2>2, <2>3 DEF StagesInv, Starts, Crosses, For
    <2>6. StagesInv(t)'
        <3>1. \A r \in For(t)' : call'[r].pc \notin {"create", "probing", "mkdir", "polling"}
            BY <2>5 DEF For
        <3>2. \A r, q \in For(t)' : r = q
            BY <1>2 DEF For, StagesInv
        <3> QED
            BY <3>1, <3>2 DEF StagesInv
    <2>7. /\ lease'[t] = Nothing
          /\ entry'[w] = Stopping(entry[w])
          /\ \A v \in Of(t) : v # w => /\ v \notin W /\ v \notin workers
                                       /\ entry'[v] = entry[v] /\ waiters'[v] = waiters[v]
        <3>1. \A v \in Of(t) : v \in workers => v = w
            BY <2>2 DEF Pool
        <3>2. \A v \in Of(t) : v \in WorkerIds
            BY DEF Of
        <3>3. lease'[t] = Nothing
            BY <1>5, <2>1 DEF Revoked
        <3> QED
            BY <1>3, <1>5, <2>1, <3>1, <3>2, <3>3
    <2>8. LeaseInv(t)'
        BY <2>7 DEF LeaseInv
    <2>9. /\ Stopping(entry[w]).attached = entry[w].attached
          /\ Stopping(entry[w]).chrome = entry[w].chrome
          /\ StopsAtOnce(entry[w]) => /\ Stopping(entry[w]).process = entry[w].process
                                      /\ Stopping(entry[w]).killed = entry[w].killed
          /\ ~StopsAtOnce(entry[w]) => /\ Stopping(entry[w]).process = "stopping"
                                       /\ Stopping(entry[w]).killed = TRUE
        BY <2>1, StoppingFacts
    <2>10. entry[w].attached \in BOOLEAN /\ entry[w].killed \in BOOLEAN
        BY <2>1 DEF Entry
    <2>11. \A v \in Of(t), d \in Callers : <<v, d>> \in finishing' =>
               v = w /\ d = by /\ StopsAtOnce(entry[w])
        BY <1>3, <2>7 DEF Of
    <2>12. CleanupsInv(t)'
        <3>1. \A v \in Pool(t)' : mapping'[t] = v
            BY <1>4, <2>1, <2>2
        <3>2. \A v \in Of(t)', d \in Callers : <<v, d>> \in finishing' =>
                  waiters'[v] = {} /\ Pool(t)' \subseteq {v}
            BY <1>3, <1>4, <2>2, <2>4, <2>11
        <3>3. ASSUME NEW v \in Of(t), waiters'[v] # {}
              PROVE  v \in workers /\ entry'[v].attached = TRUE /\ entry'[v].process = "stopping"
            <4>1. CASE v = w
                <5>1. ~StopsAtOnce(entry[w])
                    BY <1>3, <2>4, <3>3, <4>1
                <5>2. entry[w].attached = TRUE
                    BY <2>10, <5>1 DEF StopsAtOnce
                <5> QED
                    BY <2>1, <2>7, <2>9, <4>1, <5>1, <5>2
            <4>2. CASE v # w
                BY <1>2, <2>7, <3>3, <4>2 DEF CleanupsInv
            <4> QED
                BY <4>1, <4>2
        <3> QED
            BY <1>4, <3>1, <3>2, <3>3 DEF CleanupsInv
    <2>13. ChromesInv(t)'
        <3> SUFFICES ASSUME NEW v \in Of(t)
                     PROVE  /\ entry'[v].attached = TRUE
                                   /\ entry'[v].process \in {"stopping", "stopped"} =>
                                  entry'[v].killed = TRUE
                            /\ entry'[v].chrome \in {"launching", "listening"}
                                   /\ entry'[v].killed = FALSE =>
                                  v \in workers /\ ~Pending(v)'
            BY <1>4 DEF ChromesInv
        <3>1. CASE v # w
            <4>1. Pending(v)' => Pending(v)
                BY <2>7, <2>11, <3>1 DEF Pending
            <4> QED
                BY <1>2, <2>7, <3>1, <4>1 DEF ChromesInv
        <3>2. CASE v = w /\ ~StopsAtOnce(entry[w])
            BY <2>7, <2>9, <3>2
        <3>3. CASE v = w /\ StopsAtOnce(entry[w])
            <4>1. /\ entry'[w].attached = entry[w].attached
                  /\ entry'[w].chrome = entry[w].chrome
                  /\ entry'[w].process = entry[w].process /\ entry'[w].killed = entry[w].killed
                BY <2>7, <2>9, <3>3
            <4>2. CASE entry[w].attached = FALSE
                BY <2>1, <3>3, <4>1, <4>2 DEF OwnInv, Of
            <4>3. CASE entry[w].attached = TRUE
                <5>1. entry[w].process \in {"stopping", "stopped"}
                    BY <3>3, <4>3 DEF StopsAtOnce
                <5>2. entry[w].killed = TRUE
                    BY <1>2, <2>1, <4>3, <5>1 DEF ChromesInv, Pool
                <5> QED
                    BY <3>3, <4>1, <5>2
            <4> QED
                BY <2>10, <4>2, <4>3
        <3> QED
            BY <3>1, <3>2, <3>3
    <2> QED
        BY <2>6, <2>8, <2>12, <2>13 DEF TenantInv
<1> QED
    BY <1>6, <1>7

(* Such a cleanup keeps calls and leases to their tenant.                  *)
LEMMA CleanupOwn ==
    ASSUME PoolInv, OwnInv, NEW W \in SUBSET workers, NEW by \in Callers, CleanupWorkers(W, by),
           \A r \in Calls : call'[r] = call[r] \/ call'[r].pc = "stopping",
           \A r \in Calls : r # by => call'[r] = call[r],
           by \in Calls => \A w \in W : entry[w].tenant = call'[by].tenant,
           by \in Calls => call[by].pc = "idle"
    PROVE  OwnInv'
<1>1. TypeOK /\ MadeInv /\ CallsInv
    BY DEF PoolInv
<1>2. /\ EntriesStay
      /\ \A w \in WorkerIds : w \notin W => waiters'[w] = waiters[w]
      /\ \A w \in W : IF StopsAtOnce(entry[w])
                      THEN waiters'[w] = waiters[w]
                      ELSE waiters'[w] = waiters[w] \cup {by}
      /\ \A w \in WorkerIds, d \in Callers :
            <<w, d>> \in finishing' <=>
                \/ <<w, d>> \in finishing
                \/ w \in W /\ d = by /\ StopsAtOnce(entry[w])
    BY <1>1, CleanupFacts
<1>3. /\ entry' = [w \in WorkerIds |-> IF w \in W THEN Stopping(entry[w]) ELSE entry[w]]
      /\ lease' = Revoked({entry[w].tenant : w \in W})
    BY DEF CleanupWorkers
<1>4. \A w \in W : w \in WorkerIds /\ entry[w] \in Entry /\ entry[w] # Nothing
    BY <1>1 DEF TypeOK, MadeInv
<1>5. TenantsStay
    BY <1>2, EntriesTenants
<1>6. ASSUME NEW r \in Calls, NEW w \in WorkerIds, Awaits(r, w)'
      PROVE  \/ Awaits(r, w) /\ call'[r].tenant = call[r].tenant
             \/ w \in Of(call'[r].tenant)
    <2>1. r \in Callers
        BY DEF Callers
    <2>2. Awaits(r, w) \/ (r = by /\ w \in W)
        BY <1>2, <1>6, <2>1 DEF Awaits
    <2>3. r = by => ~Awaits(r, w)
        BY <1>1 DEF CallsInv
    <2> QED
        BY <1>4, <2>2, <2>3 DEF Of
<1>7. \A t \in Tenants : lease'[t] # Nothing => lease'[t] = lease[t]
    BY <1>3 DEF Revoked
<1>8. \A w \in WorkerIds : entry'[w] # Nothing /\ entry'[w].attached = FALSE =>
          entry[w] # Nothing /\ entry[w].attached = FALSE /\ entry'[w].chrome = entry[w].chrome
    BY <1>3, <1>4, StoppingFacts
<1> QED
    BY <1>5, <1>6, <1>7, <1>8, OwnFrame

(* acquireForTenant leases a running worker, cleans one up, or makes one.  *)
LEMMA AcquireUncrossed ==
    ASSUME PoolInv, UncrossedInv, NEW r \in Calls, NEW u \in Tenants, NEW c \in Controllers,
           AcquireForTenant(r, u, c)
    PROVE  UncrossedInv'
<1> DEFINE w == mapping[u]
<1>1. TypeOK /\ MadeInv /\ CallsInv /\ MappingIsKnown /\ OwnInv
    BY DEF PoolInv, UncrossedInv
<1>2. /\ call[r].pc = "idle" /\ finishing = {}
      /\ UNCHANGED <<workers, mapping, ports, shutting, awaited>>
    BY DEF AcquireForTenant, Quiet
<1>3. call[r].tenant = Nothing /\ u # Nothing
    BY <1>1, <1>2, NothingAssumption DEF OwnInv
<1>4. w \in workers => w \in Pool(u) /\ w \in WorkerIds
    BY <1>1, <1>3, NothingAssumption DEF MappingIsKnown, Pool, Of, TypeOK, MadeInv
<1>5. CASE /\ w \in workers
           /\ entry[w].state = "running"
           /\ Grants(u, c)
           /\ lease' = Granted(u, c, w)
           /\ entry' = Used(w)
           /\ UNCHANGED <<call, waiters, finishing, crossed>>
    <2> DEFINE e == [entry[w] EXCEPT !.idle = FALSE]
    <2>1. w \in Pool(u) /\ w \in WorkerIds /\ entry[w] # Nothing /\ entry[w].tenant = u
        BY <1>4, <1>5 DEF Pool, Of
    <2>2. entry[w] \in Entry
        BY <1>1, <2>1 DEF TypeOK
    <2>3. /\ e.attached = entry[w].attached /\ e.process = entry[w].process
          /\ e.killed = entry[w].killed /\ e.state = entry[w].state
          /\ e.chrome = entry[w].chrome /\ e.idle = FALSE
        BY <2>2 DEF Entry
    <2>4. entry'[w] = e /\ \A v \in WorkerIds : v # w => entry'[v] = entry[v]
        BY <1>1, <1>5, <2>1, OneChanges DEF Used
    <2> HIDE DEF e
    <2>5. EntriesStay
        BY <1>1, <1>5, <2>1, UsedStays
    <2>6. TenantsStay /\ \A t : Of(t)' = Of(t)
        BY <2>5, EntriesTenants
    <2>7. lease \in [Tenants -> Lease \cup {Nothing}]
        BY <1>1 DEF TypeOK
    <2>8. /\ \A t \in Tenants : t # u => lease'[t] = lease[t]
          /\ \/ /\ lease[u] # Nothing /\ lease'[u].worker = lease[u].worker
             \/ lease'[u].worker = w
        <3>1. CASE lease[u] # Nothing /\ lease[u].controller = c
            <4>1. lease' = [lease EXCEPT ![u] = [lease[u] EXCEPT !.over = FALSE]]
                BY <1>5, <3>1 DEF Granted
            <4>2. lease[u] \in Lease
                BY <2>7, <3>1
            <4> QED
                BY <2>7, <3>1, <4>1, <4>2 DEF Lease
        <3>2. CASE ~(lease[u] # Nothing /\ lease[u].controller = c)
            <4>1. lease' = [lease EXCEPT ![u] = [controller |-> c, worker |-> w,
                                                 status |-> "active", over |-> FALSE]]
                BY <1>5, <3>2 DEF Granted
            <4> QED
                BY <2>7, <4>1
        <3> QED
            BY <3>1, <3>2
    <2>9. OwnInv'
        <3>1. \A t \in Tenants : lease'[t] # Nothing =>
                  \/ lease[t] # Nothing /\ lease'[t].worker = lease[t].worker
                  \/ lease'[t].worker \in Of(t)
            BY <2>1, <2>8 DEF Pool
        <3>2. \A q \in Calls, v \in WorkerIds : Awaits(q, v)' => Awaits(q, v)
            BY <1>5 DEF Awaits
        <3>3. \A v \in WorkerIds : entry'[v] # Nothing /\ entry'[v].attached = FALSE =>
                  /\ entry[v] # Nothing /\ entry[v].attached = FALSE
                  /\ entry'[v].chrome = entry[v].chrome
            BY <2>1, <2>3, <2>4
        <3> QED
            BY <1>1, <1>5, <2>6, <3>1, <3>2, <3>3, OwnFrame
    <2>10. ASSUME NEW t \in Tenants \ crossed'
           PROVE  TenantInv(t)'
        <3>1. TenantInv(t)
            BY <1>5 DEF UncrossedInv
        <3>2. CleanupsStay(t) /\ CallsStay(t)
            BY <1>2, <1>5, <2>6 DEF CleanupsStay, CallsStay, Pool
        <3>3. ChromesStay(t)
            BY <2>3, <2>4 DEF ChromesStay, Of
        <3>4. LeaseStays(t)
            <4>1. CASE t # u
                <5>1. lease'[t] = lease[t] /\ (lease[t] # Nothing => lease[t].worker \in Of(t))
                    BY <1>1, <2>8, <4>1 DEF OwnInv
                <5>2. w \notin Of(t)
                    BY <2>1, <4>1 DEF Of
                <5>3. \A v \in Of(t) : entry'[v] = entry[v]
                    BY <2>4, <5>2 DEF Of
                <5> QED
                    BY <5>1, <5>3 DEF LeaseStays
            <4>2. CASE t = u
                <5>1. lease[t] # Nothing => lease[t].worker = w
                    BY <3>1, <4>2 DEF TenantInv, LeaseInv, CleanupsInv
                <5> QED
                    BY <1>2, <1>5, <2>1, <2>3, <2>4, <2>8, <4>2, <5>1 DEF LeaseStays
            <4> QED
                BY <4>1, <4>2
        <3> QED
            BY <3>1, <3>2, <3>3, <3>4, TenantFrame
    <2> QED
        BY <2>9, <2>10 DEF UncrossedInv
<1>6. CASE /\ w \in workers
           /\ CleanupWorkers({w}, r)
           /\ crossed' = Crossed({w}) \cup Overlapping(u)
           /\ call' = [call EXCEPT ![r] =
                  [NoCall EXCEPT !.pc = "stopping", !.tenant = u, !.controller = c]]
    <2> DEFINE a == [NoCall EXCEPT !.pc = "stopping", !.tenant = u, !.controller = c]
    <2>1. a.pc = "stopping" /\ a.tenant = u
        BY DEF NoCall
    <2> HIDE DEF a
    <2>2. call'[r] = a /\ \A q \in Calls : q # r => call'[q] = call[q]
        BY <1>1, <1>6 DEF TypeOK, a
    <2>3. r \in Callers /\ {w} \in SUBSET workers
        BY <1>6 DEF Callers
    <2>4. \A v \in {w} : entry[v].tenant = u
        BY <1>4, <1>6 DEF Pool, Of
    <2>5. OwnInv'
        BY <1>1, <1>2, <1>6, <2>1, <2>2, <2>3, <2>4, CleanupOwn
    <2>6. ASSUME NEW t \in Tenants \ crossed'
          PROVE  TenantInv(t)'
        <3>1. t \notin Crossed({w}) /\ t \notin Overlapping(u) /\ TenantInv(t)
            BY <1>6 DEF UncrossedInv, Crossed
        <3>2. t = u => For(t) = {}
            BY <3>1 DEF Overlapping, For
        <3>3. \A q \in Calls : call'[q].tenant = t =>
                  \/ call'[q] = call[q]
                  \/ call'[q].pc = "stopping" /\ For(t) = {} /\ q = r
            BY <2>1, <2>2, <3>2
        <3> QED
            BY <1>1, <1>2, <1>6, <2>3, <3>1, <3>3, CleanupTenant
    <2> QED
        BY <2>5, <2>6 DEF UncrossedInv
<1>7. CASE /\ w \notin workers
           /\ call' = [call EXCEPT ![r] =
                  [NoCall EXCEPT !.pc = "create", !.tenant = u, !.controller = c]]
           /\ crossed' = crossed \cup Overlapping(u)
           /\ UNCHANGED <<lease, entry, waiters, finishing>>
    <2> DEFINE a == [NoCall EXCEPT !.pc = "create", !.tenant = u, !.controller = c]
    <2>1. a.pc = "create" /\ a.tenant = u
        BY DEF NoCall
    <2> HIDE DEF a
    <2>2. call'[r] = a /\ \A q \in Calls : q # r => call'[q] = call[q]
        BY <1>1, <1>7 DEF TypeOK, a
    <2>3. \A v \in WorkerIds : ~Awaits(r, v)
        BY <1>1, <1>2 DEF CallsInv
    <2>4. TenantsStay /\ \A t : Of(t)' = Of(t) /\ Pool(t)' = Pool(t)
        BY <1>2, <1>7 DEF TenantsStay, Of, Pool
    <2>5. OwnInv'
        <3>1. \A q \in Calls, v \in WorkerIds :
                  Awaits(q, v)' => Awaits(q, v) /\ call'[q].tenant = call[q].tenant
            BY <1>7, <2>2, <2>3 DEF Awaits
        <3> QED
            BY <1>1, <1>7, <2>1, <2>2, <2>4, <3>1, OwnFrame
    <2>6. ASSUME NEW t \in Tenants \ crossed'
          PROVE  TenantInv(t)'
        <3>1. TenantInv(t) /\ t \notin Overlapping(u)
            BY <1>7 DEF UncrossedInv
        <3>2. CASE t # u
            BY <1>2, <1>7, <2>1, <2>2, <2>4, <3>1, <3>2, Elsewhere
        <3>3. CASE t = u
            <4>1. For(t) = {} /\ For(t)' = {r}
                BY <2>1, <2>2, <3>1, <3>3 DEF Overlapping, For
            <4>2. Pool(t)' = {}
                BY <1>7, <2>4, <3>1, <3>3 DEF TenantInv, CleanupsInv, Pool
            <4>3. StagesInv(t)'
                BY <2>1, <2>2, <4>1, <4>2 DEF StagesInv
            <4>4. CleanupsStay(t) /\ ChromesStay(t)
                BY <1>2, <1>7, <2>4 DEF CleanupsStay, ChromesStay
            <4>5. LeaseStays(t)
                BY <1>7 DEF LeaseStays
            <4> QED
                BY <3>1, <4>3, <4>4, <4>5, WorkersFrame DEF TenantInv
        <3> QED
            BY <3>2, <3>3
    <2> QED
        BY <2>5, <2>6 DEF UncrossedInv
<1> QED
    BY <1>5, <1>6, <1>7 DEF AcquireForTenant

(* A search for a port, and one that ends without a worker.                *)
LEMMA SearchUncrossed ==
    ASSUME PoolInv, UncrossedInv, NEW r \in Calls,
           CreateWorker(r) \/ PortTaken(r) \/ ChromeNotFound(r)
    PROVE  UncrossedInv'
<1>1. TypeOK /\ CallsInv /\ OwnInv /\ call \in [Calls -> CallRecord]
    BY DEF PoolInv, UncrossedInv, TypeOK, CallRecord
<1>2. /\ call[r].pc \in {"create", "probing"}
      /\ UNCHANGED <<workers, mapping, lease, entry, waiters, finishing, crossed>>
    BY DEF CreateWorker, PortTaken, ChromeNotFound
<1>3. \/ call' = [call EXCEPT ![r] = NoCall]
      \/ \E p : call' = [call EXCEPT ![r].pc = "probing", ![r].port = p]
      \/ /\ call[r].pc = "probing"
         /\ \E p : call' = [call EXCEPT ![r].port = p]
    BY DEF CreateWorker, PortTaken, ChromeNotFound
<1>4. /\ \/ call'[r] = NoCall
         \/ call'[r].pc = "probing" /\ call'[r].tenant = call[r].tenant
      /\ \A q \in Calls : q # r => call'[q] = call[q]
    BY <1>1, <1>3 DEF CallRecord
<1>5. NoCall.tenant = Nothing /\ NoCall.pc = "idle"
    BY DEF NoCall
<1>6. \A v \in WorkerIds : ~Awaits(r, v)
    BY <1>1, <1>2 DEF CallsInv
<1>7. TenantsStay /\ \A t : Of(t)' = Of(t) /\ Pool(t)' = Pool(t)
    BY <1>2 DEF TenantsStay, Of, Pool
<1>8. OwnInv'
    <2>1. \A q \in Calls, v \in WorkerIds :
              Awaits(q, v)' => Awaits(q, v) /\ call'[q].tenant = call[q].tenant
        BY <1>2, <1>4, <1>6 DEF Awaits
    <2> QED
        BY <1>1, <1>2, <1>4, <1>5, <1>7, <2>1, OwnFrame
<1>9. ASSUME NEW t \in Tenants \ crossed'
      PROVE  TenantInv(t)'
    <2>1. TenantInv(t) /\ t # Nothing
        BY <1>2, NothingAssumption DEF UncrossedInv
    <2>2. CallsStay(t)
        BY <1>2, <1>4, <1>5, <2>1 DEF CallsStay
    <2>3. CleanupsStay(t) /\ ChromesStay(t) /\ LeaseStays(t)
        BY <1>2, <1>7 DEF CleanupsStay, ChromesStay, LeaseStays
    <2> QED
        BY <2>1, <2>2, <2>3, TenantFrame
<1> QED
    BY <1>8, <1>9 DEF UncrossedInv

(* A call that ends or goes on waits for no cleanup.                       *)
LEMMA OneCallMoves ==
    ASSUME TypeOK, CallsInv, NEW r \in Calls, NEW a, call[r].pc # "stopping",
           call' = [call EXCEPT ![r] = a], UNCHANGED <<waiters, finishing>>
    PROVE  /\ call'[r] = a /\ \A q \in Calls : q # r => call'[q] = call[q]
           /\ \A q \in Calls, v \in WorkerIds :
                 Awaits(q, v)' => Awaits(q, v) /\ call'[q].tenant = call[q].tenant
<1>1. call'[r] = a /\ \A q \in Calls : q # r => call'[q] = call[q]
    BY DEF TypeOK
<1>2. \A v \in WorkerIds : ~Awaits(r, v)
    BY DEF CallsInv
<1>3. \A q \in Calls, v \in WorkerIds : Awaits(q, v)' => Awaits(q, v)
    BY DEF Awaits
<1> QED
    BY <1>1, <1>2, <1>3

(* A worker that is new is the one of its tenant.                          *)
LEMMA AvailableUncrossed ==
    ASSUME PoolInv, UncrossedInv, NEW r \in Calls, NEW w \in WorkerIds, PortAvailable(r, w)
    PROVE  UncrossedInv'
<1> DEFINE p == call[r].port
           a == [call[r] EXCEPT !.pc = "mkdir", !.worker = w]
           e == NewEntry(call[r].tenant, p)
<1>1. /\ TypeOK /\ MadeInv /\ CallsInv /\ OwnInv /\ call \in [Calls -> CallRecord]
    BY DEF PoolInv, UncrossedInv, TypeOK, CallRecord
<1>2. /\ finishing = {} /\ call[r].pc = "probing" /\ entry[w] = Nothing
      /\ entry' = [entry EXCEPT ![w] = e]
      /\ workers' = workers \cup {w} /\ mapping' = [mapping EXCEPT ![call[r].tenant] = w]
      /\ call' = [call EXCEPT ![r] = a]
      /\ UNCHANGED <<lease, waiters, finishing, crossed>>
    BY DEF PortAvailable, Quiet, history
<1>3. PICK u \in Tenants : u = call[r].tenant /\ p \in Ports
    BY <1>1, <1>2 DEF CallsInv
<1>4. /\ e.tenant = u /\ e.attached = FALSE /\ e.chrome = "none" /\ e.process = "starting"
      /\ e.idle = FALSE /\ e.state = "starting" /\ e # Nothing
    <2>1. e \in Entry
        BY <1>3 DEF NewEntry, Entry
    <2> QED
        BY <1>3, <2>1, NoObjectAssumption DEF NewEntry
<1>5. a.pc = "mkdir" /\ a.worker = w /\ a.tenant = u
    BY <1>1, <1>3 DEF CallRecord
<1> HIDE DEF a, e
<1>6. entry'[w] = e /\ \A v \in WorkerIds : v # w => entry'[v] = entry[v]
    BY <1>1, <1>2, OneChanges
<1>7. /\ call'[r] = a /\ \A q \in Calls : q # r => call'[q] = call[q]
      /\ \A q \in Calls, v \in WorkerIds :
            Awaits(q, v)' => Awaits(q, v) /\ call'[q].tenant = call[q].tenant
    BY <1>1, <1>2, OneCallMoves
<1>8. /\ TenantsStay /\ Of(u)' = Of(u) \cup {w} /\ w \notin Of(u)
      /\ \A t : t # u => Of(t)' = Of(t)
    <2>1. TenantsStay /\ w \notin Of(u)
        BY <1>2, <1>6 DEF TenantsStay, Of
    <2>2. ASSUME NEW t, NEW v \in WorkerIds
          PROVE  v \in Of(t)' <=> v \in Of(t) \/ (v = w /\ t = u)
        BY <1>2, <1>4, <1>6 DEF Of
    <2>3. \A t : Of(t) \subseteq WorkerIds /\ Of(t)' \subseteq WorkerIds
        BY DEF Of
    <2>4. Of(u)' = Of(u) \cup {w}
        BY <2>2, <2>3
    <2>5. ASSUME NEW t, t # u
          PROVE  Of(t)' = Of(t)
        BY <2>2, <2>3, <2>5
    <2> QED
        BY <2>1, <2>4, <2>5
<1>9. OwnInv'
    <2>1. Of(call[r].tenant)' = Of(u)'
        BY <1>5, <1>7
    <2>2. /\ call'[r].pc \in {"mkdir", "polling"} /\ call'[r].worker \in Of(call[r].tenant)'
        BY <1>5, <1>7, <1>8, <2>1
    <2>3. \A v \in WorkerIds : entry'[v] # Nothing /\ entry'[v].attached = FALSE =>
              \/ entry'[v].chrome \in {"none", "gone"}
              \/ /\ entry[v] # Nothing /\ entry[v].attached = FALSE
                 /\ entry'[v].chrome = entry[v].chrome
        BY <1>4, <1>6
    <2>4. \A q \in Calls : \/ call'[q] = call[q]
                           \/ /\ call'[q].pc \in {"mkdir", "polling"}
                              /\ call'[q].worker \in Of(call[q].tenant)'
        BY <1>7, <2>2
    <2> QED
        BY <1>1, <1>2, <1>7, <1>8, <2>3, <2>4, OwnFrame
<1>10. ASSUME NEW t \in Tenants \ crossed'
       PROVE  TenantInv(t)'
    <2>1. TenantInv(t)
        BY <1>2 DEF UncrossedInv
    <2>2. CASE t # u
        <3>1. mapping'[t] = mapping[t]
            BY <1>1, <1>2, <1>3, <2>2 DEF TypeOK
        <3>2. \A v \in Of(t) : v # w /\ v \in WorkerIds
            BY <1>2 DEF Of
        <3>3. \A q \in Calls : call'[q].tenant = t => call'[q] = call[q]
            BY <1>5, <1>7, <2>2
        <3> QED
            BY <1>2, <1>6, <1>8, <2>1, <2>2, <3>1, <3>2, <3>3, Elsewhere
    <2>3. CASE t = u
        <3>1. StagesInv(t) /\ CleanupsInv(t) /\ LeaseInv(t) /\ ChromesInv(t)
            BY <2>1 DEF TenantInv
        <3>2. Pool(t) = {} /\ lease[t] = Nothing
            BY <1>2, <1>3, <2>3, <3>1 DEF StagesInv, LeaseInv, For
        <3>3. Pool(t)' = {w} /\ mapping'[t] = w
            <4>1. Pool(t)' = (workers \cup {w}) \cap (Of(t) \cup {w}) /\ workers \cap Of(t) = {}
                BY <1>2, <1>8, <2>3, <3>2 DEF Pool
            <4>2. mapping'[t] = w
                BY <1>1, <1>2, <1>3, <2>3 DEF TypeOK
            <4> QED
                BY <4>1, <4>2
        <3>4. waiters[w] = {} /\ \A v \in Of(t) : waiters[v] = {}
            BY <1>1, <1>2, <3>1, <3>2 DEF MadeInv, CleanupsInv, Pool
        <3>5. \A v \in Of(t) : v # w /\ v \in WorkerIds /\ v \notin workers
            BY <1>2, <3>2 DEF Of, Pool
        <3>6. \A v : Pending(v)' <=> Pending(v)
            BY <1>2 DEF Pending
        <3>7. ~Pending(w)
            BY <1>2, <3>4 DEF Pending
        <3>8. StagesInv(t)'
            <4>1. \A q \in For(t)' : q \in For(t)
                BY <1>3, <1>5, <1>7, <2>3 DEF For
            <4>2. \A q \in For(t)' : q = r
                BY <1>3, <2>3, <3>1, <4>1 DEF StagesInv, For
            <4>3. Starts(r, t)'
                BY <1>2, <1>4, <1>5, <1>6, <1>7, <3>2, <3>3, <3>6, <3>7 DEF Starts
            <4> QED
                BY <1>5, <1>7, <4>2, <4>3 DEF StagesInv
        <3>9. CleanupsInv(t)'
            <4>1. \A v \in Of(t)' : waiters'[v] = {}
                BY <1>2, <1>8, <2>3, <3>4
            <4> QED
                BY <1>2, <3>3, <4>1 DEF CleanupsInv
        <3>10. LeaseInv(t)'
            BY <1>2, <3>2 DEF LeaseInv
        <3>11. ChromesInv(t)'
            <4>1. \A v \in Of(t) : ~(/\ entry[v].chrome \in {"launching", "listening"}
                                     /\ entry[v].killed = FALSE)
                BY <3>1, <3>5 DEF ChromesInv
            <4>2. \A v \in Of(t)' : v = w \/ (v \in Of(t) /\ entry'[v] = entry[v])
                BY <1>6, <1>8, <2>3, <3>5
            <4> QED
                BY <1>4, <1>6, <3>1, <4>1, <4>2 DEF ChromesInv
        <3> QED
            BY <3>8, <3>9, <3>10, <3>11 DEF TenantInv
    <2> QED
        BY <2>2, <2>3
<1> QED
    BY <1>9, <1>10 DEF UncrossedInv

(* What a call does to the worker that it starts stays with its tenant.    *)
LEMMA OthersStart ==
    ASSUME PoolInv, OwnInv, NEW r \in Calls, call[r].pc \in {"mkdir", "polling"},
           NEW e, entry' = [entry EXCEPT ![call[r].worker] = e], EntriesStay,
           NEW a, call' = [call EXCEPT ![r] = a], a.tenant \in {call[r].tenant, Nothing},
           NEW t \in Tenants, TenantInv(t), t # call[r].tenant,
           mapping'[t] = mapping[t], lease'[t] = lease[t],
           \A w \in WorkerIds : w # call[r].worker => /\ waiters'[w] = waiters[w]
                                                      /\ w \in workers' <=> w \in workers,
           UNCHANGED finishing
    PROVE  TenantInv(t)'
<1> DEFINE w == call[r].worker
<1>1. TypeOK /\ CallsInv
    BY DEF PoolInv
<1>2. w \in WorkerIds /\ w \in Of(call[r].tenant)
    BY <1>1 DEF CallsInv, OwnInv
<1>3. \A v \in Of(t) : v # w /\ v \in WorkerIds
    BY <1>2 DEF Of
<1>4. \A v \in Of(t) : entry'[v] = entry[v]
    BY <1>1, <1>2, <1>3, OneChanges
<1>5. \A q \in Calls : call'[q].tenant = t => call'[q] = call[q]
    BY <1>1, NothingAssumption DEF TypeOK
<1>6. Of(t)' = Of(t)
    BY EntriesTenants
<1> QED
    BY <1>3, <1>4, <1>5, <1>6, Elsewhere

(* Chrome is spawned, or is not, for a worker that is there to stay.       *)
LEMMA SpawnUncrossed ==
    ASSUME PoolInv, UncrossedInv, NEW r \in Calls, Spawn(r) \/ SpawnError(r)
    PROVE  UncrossedInv'
<1> DEFINE w == call[r].worker
           u == call[r].tenant
           a == [call[r] EXCEPT !.pc = "polling"]
           e1 == [entry[w] EXCEPT !.attached = TRUE, !.chrome = "launching"]
           e2 == [entry[w] EXCEPT !.process = "crashed", !.chrome = "gone"]
<1>1. /\ TypeOK /\ MadeInv /\ CallsInv /\ OwnInv /\ call \in [Calls -> CallRecord]
    BY DEF PoolInv, UncrossedInv, TypeOK, CallRecord
<1>2. /\ call[r].pc = "mkdir"
      /\ entry' = [entry EXCEPT ![w] = e1] \/ entry' = [entry EXCEPT ![w] = e2]
      /\ call' = [call EXCEPT ![r] = a]
      /\ UNCHANGED <<workers, mapping, lease, waiters, finishing, crossed>>
    BY DEF Spawn, SpawnError, history
<1>3. /\ w \in WorkerIds /\ entry[w] # Nothing /\ entry[w] \in Entry
      /\ w \in Of(u) /\ u \in Tenants
    BY <1>1, <1>2 DEF CallsInv, OwnInv, TypeOK
<1>4. /\ e1 \in Entry /\ e1.tenant = entry[w].tenant /\ e1.port = entry[w].port
      /\ e1.attached = TRUE /\ e1.chrome = "launching" /\ e1.process = entry[w].process
      /\ e1.state = entry[w].state /\ e1.idle = entry[w].idle
    BY <1>3 DEF Entry
<1>5. /\ e2 \in Entry /\ e2.tenant = entry[w].tenant /\ e2.port = entry[w].port
      /\ e2.attached = entry[w].attached /\ e2.chrome = "gone" /\ e2.process = "crashed"
      /\ e2.state = entry[w].state /\ e2.idle = entry[w].idle
    BY <1>3 DEF Entry
<1>6. a.pc = "polling" /\ a.worker = w /\ a.tenant = u
    BY <1>1 DEF CallRecord
<1> HIDE DEF a, e1, e2
<1>7. PICK e \in Entry :
          /\ entry' = [entry EXCEPT ![w] = e]
          /\ e.tenant = entry[w].tenant /\ e.port = entry[w].port
          /\ e.state = entry[w].state /\ e.idle = entry[w].idle
          /\ \/ e.attached = TRUE /\ e.process = entry[w].process
             \/ e.attached = entry[w].attached /\ e.chrome = "gone" /\ e.process = "crashed"
    BY <1>2, <1>4, <1>5
<1>8. /\ EntriesStay /\ TenantsStay /\ \A t : Of(t)' = Of(t) /\ Pool(t)' = Pool(t)
      /\ entry'[w] = e /\ \A v \in WorkerIds : v # w => entry'[v] = entry[v]
    BY <1>1, <1>2, <1>3, <1>7, OneEntry, OneChanges, EntriesTenants DEF Pool
<1>9. /\ call'[r] = a /\ \A q \in Calls : q # r => call'[q] = call[q]
      /\ \A q \in Calls, v \in WorkerIds :
            Awaits(q, v)' => Awaits(q, v) /\ call'[q].tenant = call[q].tenant
    BY <1>1, <1>2, OneCallMoves
<1>10. OwnInv'
    <2>1. Of(call[r].tenant)' = Of(u)'
        BY <1>6, <1>9 DEF Of
    <2>2. \A v \in WorkerIds : entry'[v] # Nothing /\ entry'[v].attached = FALSE =>
              \/ entry'[v].chrome \in {"none", "gone"}
              \/ /\ entry[v] # Nothing /\ entry[v].attached = FALSE
                 /\ entry'[v].chrome = entry[v].chrome
        BY <1>7, <1>8
    <2>3. \A q \in Calls : \/ call'[q] = call[q]
                           \/ /\ call'[q].pc \in {"mkdir", "polling"}
                              /\ call'[q].worker \in Of(call[q].tenant)'
        BY <1>3, <1>6, <1>8, <1>9, <2>1
    <2> QED
        BY <1>1, <1>2, <1>8, <1>9, <2>2, <2>3, OwnFrame
<1>11. ASSUME NEW t \in Tenants \ crossed'
       PROVE  TenantInv(t)'
    <2>1. TenantInv(t)
        BY <1>2 DEF UncrossedInv
    <2>2. CASE t # u
        BY <1>1, <1>2, <1>6, <1>7, <1>8, <2>1, <2>2, OthersStart
    <2>3. CASE t = u
        <3>1. StagesInv(t) /\ CleanupsInv(t) /\ LeaseInv(t) /\ ChromesInv(t)
            BY <2>1 DEF TenantInv
        <3>2. /\ w \in Pool(t) /\ ~Pending(w) /\ waiters[w] = {} /\ lease[t] = Nothing
              /\ entry[w].idle = FALSE /\ entry[w].state # "running"
              /\ entry[w].process = "starting" /\ entry[w].attached = FALSE
            BY <1>2, <2>3, <3>1 DEF StagesInv, Starts, For, Pending
        <3>3. \A v : Pending(v)' <=> Pending(v)
            BY <1>2 DEF Pending
        <3>4. StagesInv(t)'
            <4>1. For(t)' = For(t) /\ \A q \in For(t) : q = r
                BY <1>6, <1>9, <2>3, <3>1 DEF For, StagesInv
            <4>2. Starts(r, t)'
                BY <1>2, <1>6, <1>7, <1>8, <1>9, <3>2, <3>3 DEF Starts
            <4> QED
                BY <1>6, <1>9, <4>1, <4>2 DEF StagesInv
        <3>5. CleanupsInv(t)'
            BY <1>2, <1>8, <3>1, <3>2 DEF CleanupsInv, Of
        <3>6. LeaseInv(t)'
            BY <1>2, <3>2 DEF LeaseInv
        <3>7. ChromesInv(t)'
            BY <1>2, <1>7, <1>8, <3>1, <3>2, <3>3 DEF ChromesInv, Of, Pool
        <3> QED
            BY <3>4, <3>5, <3>6, <3>7 DEF TenantInv
    <2> QED
        BY <2>2, <2>3
<1> QED
    BY <1>10, <1>11 DEF UncrossedInv

(* A worker that has started is leased to the caller.                      *)
LEMMA StartedUncrossed ==
    ASSUME PoolInv, UncrossedInv, NEW r \in Calls, StartSucceeds(r)
    PROVE  UncrossedInv'
<1> DEFINE w == call[r].worker
           c == call[r].controller
<1>1. /\ TypeOK /\ MadeInv /\ CallsInv /\ OwnInv
      /\ lease \in [Tenants -> Lease \cup {Nothing}]
    BY DEF PoolInv, UncrossedInv, TypeOK
<1>2. /\ finishing = {} /\ call[r].pc = "polling"
      /\ entry' = [entry EXCEPT ![w] = Started(entry[w])]
      /\ call' = [call EXCEPT ![r] = NoCall]
      /\ UNCHANGED <<workers, mapping, waiters, finishing, crossed>>
    BY DEF StartSucceeds, Quiet, history
<1>3. PICK u \in Tenants : u = call[r].tenant
    BY <1>1, <1>2 DEF CallsInv
<1>4. lease' = IF Grants(u, c) THEN Granted(u, c, w) ELSE lease
    BY <1>3 DEF StartSucceeds
<1>5. w \in WorkerIds /\ entry[w] # Nothing /\ entry[w] \in Entry /\ w \in Of(u)
    BY <1>1, <1>2, <1>3 DEF CallsInv, OwnInv, TypeOK
<1> DEFINE e == Started(entry[w])
<1>6. /\ e \in Entry /\ e.tenant = entry[w].tenant /\ e.port = entry[w].port
      /\ e.process = "running" /\ e.attached = entry[w].attached
      /\ e.chrome = entry[w].chrome /\ e.idle = entry[w].idle
    BY <1>5, StartedFacts
<1>7. /\ EntriesStay /\ TenantsStay /\ \A t : Of(t)' = Of(t) /\ Pool(t)' = Pool(t)
      /\ entry'[w] = e /\ \A v \in WorkerIds : v # w => entry'[v] = entry[v]
    BY <1>1, <1>2, <1>5, <1>6, OneEntry, OneChanges, EntriesTenants DEF Pool
<1> HIDE DEF e
<1>8. /\ call'[r] = NoCall /\ \A q \in Calls : q # r => call'[q] = call[q]
      /\ \A q \in Calls, v \in WorkerIds :
            Awaits(q, v)' => Awaits(q, v) /\ call'[q].tenant = call[q].tenant
    BY <1>1, <1>2, OneCallMoves
<1>9. NoCall.tenant = Nothing /\ NoCall.pc = "idle"
    BY DEF NoCall
<1>10. /\ \A t \in Tenants : t # u => lease'[t] = lease[t]
       /\ \/ lease[u] # Nothing /\ lease'[u].worker = lease[u].worker
          \/ lease'[u].worker = w
          \/ lease'[u] = Nothing
    <2>1. CASE ~Grants(u, c)
        BY <1>4, <2>1
    <2>2. CASE Grants(u, c) /\ lease[u] # Nothing /\ lease[u].controller = c
        <3>1. lease' = [lease EXCEPT ![u] = [lease[u] EXCEPT !.over = FALSE]]
            BY <1>4, <2>2 DEF Granted
        <3>2. lease[u] \in Lease
            BY <1>1, <2>2
        <3> QED
            BY <1>1, <2>2, <3>1, <3>2 DEF Lease
    <2>3. CASE Grants(u, c) /\ ~(lease[u] # Nothing /\ lease[u].controller = c)
        <3>1. lease' = [lease EXCEPT ![u] = [controller |-> c, worker |-> w,
                                             status |-> "active", over |-> FALSE]]
            BY <1>4, <2>3 DEF Granted
        <3> QED
            BY <1>1, <3>1
    <2> QED
        BY <2>1, <2>2, <2>3
<1>11. OwnInv'
    <2>1. \A t \in Tenants : lease'[t] # Nothing =>
              \/ lease[t] # Nothing /\ lease'[t].worker = lease[t].worker
              \/ lease'[t].worker \in Of(t)
        BY <1>5, <1>10
    <2>2. \A v \in WorkerIds : entry'[v] # Nothing /\ entry'[v].attached = FALSE =>
              /\ entry[v] # Nothing /\ entry[v].attached = FALSE
              /\ entry'[v].chrome = entry[v].chrome
        BY <1>5, <1>6, <1>7
    <2> QED
        BY <1>1, <1>7, <1>8, <1>9, <2>1, <2>2, OwnFrame
<1>12. ASSUME NEW t \in Tenants \ crossed'
       PROVE  TenantInv(t)'
    <2>1. TenantInv(t) /\ mapping'[t] = mapping[t]
        BY <1>2 DEF UncrossedInv
    <2>2. CASE t # u
        BY <1>1, <1>2, <1>3, <1>7, <1>9, <1>10, <2>1, <2>2, OthersStart
    <2>3. CASE t = u
        <3>1. StagesInv(t) /\ CleanupsInv(t) /\ LeaseInv(t) /\ ChromesInv(t)
            BY <2>1 DEF TenantInv
        <3>2. /\ w \in Pool(t) /\ ~Pending(w) /\ waiters[w] = {} /\ lease[t] = Nothing
              /\ entry[w].idle = FALSE
            BY <1>2, <1>3, <2>3, <3>1 DEF StagesInv, Starts, For, Pending
        <3>3. \A v : Pending(v)' <=> Pending(v)
            BY <1>2 DEF Pending
        <3>4. StagesInv(t)'
            <4>1. For(t)' = {}
                BY <1>3, <1>8, <1>9, <2>3, <3>1, NothingAssumption DEF For, StagesInv
            <4> QED
                BY <4>1 DEF StagesInv
        <3>5. CleanupsInv(t)'
            BY <1>2, <1>7, <3>1, <3>2 DEF CleanupsInv, Of
        <3>6. LeaseInv(t)'
            BY <1>2, <1>6, <1>7, <1>10, <2>3, <3>2 DEF LeaseInv
        <3>7. ChromesInv(t)'
            BY <1>2, <1>6, <1>7, <3>1, <3>2, <3>3 DEF ChromesInv, Of, Pool
        <3> QED
            BY <3>4, <3>5, <3>6, <3>7 DEF TenantInv
    <2> QED
        BY <2>2, <2>3
<1> QED
    BY <1>11, <1>12 DEF UncrossedInv

(* The one worker that a tenant has in the pool leaves it.                 *)
LEMMA OneLeaves ==
    ASSUME NEW t \in Tenants, NEW w, TenantInv(t), Of(t)' = Of(t), Pool(t) \subseteq {w},
           workers' = workers \ {w}, lease[t] = Nothing, lease'[t] = Nothing,
           waiters'[w] = {}, ~(Pending(w) /\ entry[w].chrome \in {"launching", "listening"}
                                          /\ entry[w].killed = FALSE),
           \A v \in Of(t) : v # w => entry'[v] = entry[v] /\ waiters'[v] = waiters[v],
           w \in Of(t) =>
               \/ entry'[w].chrome \in {"none", "gone"} /\ entry'[w].attached = FALSE
               \/ /\ Pending(w)
                  /\ entry'[w].attached = entry[w].attached
                  /\ entry'[w].process = entry[w].process
                  /\ entry'[w].killed = entry[w].killed /\ entry'[w].chrome = entry[w].chrome
    PROVE  Pool(t)' = {} /\ CleanupsInv(t)' /\ LeaseInv(t)' /\ ChromesInv(t)'
<1>1. CleanupsInv(t) /\ ChromesInv(t)
    BY DEF TenantInv
<1>2. Pool(t)' = {}
    BY DEF Pool
<1>3. \A v \in Of(t) : v # w => v \notin workers
    BY DEF Pool
<1>4. \A v \in Of(t) : waiters'[v] = {}
    BY <1>1, <1>3 DEF CleanupsInv
<1>5. CleanupsInv(t)'
    BY <1>2, <1>4 DEF CleanupsInv
<1>6. LeaseInv(t)'
    BY DEF LeaseInv
<1>7. ChromesInv(t)'
    BY <1>1, <1>3 DEF ChromesInv
<1> QED
    BY <1>2, <1>5, <1>6, <1>7

(* A start that fails takes the one worker of its tenant out.              *)
LEMMA FailedUncrossed ==
    ASSUME PoolInv, UncrossedInv, NEW r \in Calls, StartFails(r)
    PROVE  UncrossedInv'
<1> DEFINE w == call[r].worker
           e == NotStarted(entry[w])
<1>1. /\ TypeOK /\ MadeInv /\ CallsInv /\ OwnInv
    BY DEF PoolInv, UncrossedInv
<1>2. /\ finishing = {} /\ call[r].pc \in {"mkdir", "polling"}
      /\ entry' = [entry EXCEPT ![w] = e]
      /\ waiters' = [waiters EXCEPT ![w] = {}]
      /\ workers' = workers \ {w} /\ mapping' = [mapping EXCEPT ![entry[w].tenant] = Nothing]
      /\ call' = [call EXCEPT ![r] = NoCall]
      /\ UNCHANGED <<lease, finishing, crossed>>
    BY DEF StartFails, Quiet, history, Unlisted, Unmapped
<1>3. PICK u \in Tenants : u = call[r].tenant
    BY <1>1, <1>2 DEF CallsInv
<1>4. /\ w \in WorkerIds /\ entry[w] # Nothing /\ entry[w] \in Entry /\ w \in Of(u)
      /\ entry[w].tenant = u
    BY <1>1, <1>2, <1>3 DEF CallsInv, OwnInv, TypeOK, Of
<1>5. /\ e \in Entry /\ e.tenant = entry[w].tenant /\ e.port = entry[w].port
      /\ e.attached = FALSE /\ e.chrome = IF entry[w].attached THEN "gone" ELSE entry[w].chrome
    BY <1>4, NotStartedFacts
<1>6. e.chrome \in {"none", "gone"}
    <2>1. entry[w].attached \in BOOLEAN
        BY <1>4 DEF Entry
    <2> QED
        BY <1>1, <1>4, <1>5, <2>1 DEF OwnInv
<1>7. /\ EntriesStay /\ TenantsStay /\ \A t : Of(t)' = Of(t)
      /\ entry'[w] = e /\ \A v \in WorkerIds : v # w => entry'[v] = entry[v]
    BY <1>1, <1>2, <1>4, <1>5, OneEntry, OneChanges, EntriesTenants
<1> HIDE DEF e
<1>8. /\ call'[r] = NoCall /\ \A q \in Calls : q # r => call'[q] = call[q]
      /\ waiters'[w] = {} /\ \A v \in WorkerIds : v # w => waiters'[v] = waiters[v]
      /\ \A t \in Tenants : t # u => mapping'[t] = mapping[t]
    BY <1>1, <1>2, <1>4 DEF TypeOK
<1>9. NoCall.tenant = Nothing /\ NoCall.pc = "idle"
    BY DEF NoCall
<1>10. OwnInv'
    <2>1. \A q \in Calls, v \in WorkerIds : Awaits(q, v)' => Awaits(q, v)
        BY <1>2, <1>8 DEF Awaits
    <2>2. \A v \in WorkerIds : ~Awaits(r, v)
        BY <1>1, <1>2 DEF CallsInv
    <2>3. \A q \in Calls, v \in WorkerIds :
              Awaits(q, v)' => Awaits(q, v) /\ call'[q].tenant = call[q].tenant
        BY <1>8, <2>1, <2>2
    <2>4. \A v \in WorkerIds : entry'[v] # Nothing /\ entry'[v].attached = FALSE =>
              \/ entry'[v].chrome \in {"none", "gone"}
              \/ /\ entry[v] # Nothing /\ entry[v].attached = FALSE
                 /\ entry'[v].chrome = entry[v].chrome
        BY <1>6, <1>7
    <2> QED
        BY <1>1, <1>2, <1>7, <1>8, <1>9, <2>3, <2>4, OwnFrame
<1>11. ASSUME NEW t \in Tenants \ crossed'
       PROVE  TenantInv(t)'
    <2>1. TenantInv(t) /\ lease'[t] = lease[t]
        BY <1>2 DEF UncrossedInv
    <2>2. CASE t # u
        BY <1>1, <1>2, <1>3, <1>7, <1>8, <1>9, <2>1, <2>2, OthersStart
    <2>3. CASE t = u
        <3>1. StagesInv(t) /\ CleanupsInv(t)
            BY <2>1 DEF TenantInv
        <3>2. w \in Pool(t) /\ ~Pending(w) /\ lease[t] = Nothing
            BY <1>2, <1>3, <2>3, <3>1 DEF StagesInv, Starts, For
        <3>3. Pool(t) \subseteq {w}
            BY <3>1, <3>2 DEF CleanupsInv
        <3>4. \A v \in Of(t) : v # w => entry'[v] = entry[v] /\ waiters'[v] = waiters[v]
            BY <1>7, <1>8 DEF Of
        <3>5. CleanupsInv(t)' /\ LeaseInv(t)' /\ ChromesInv(t)'
            <4>1. Of(t)' = Of(t) /\ workers' = workers \ {w} /\ lease'[t] = Nothing
                BY <1>2, <1>7, <2>1, <3>2
            <4>2. /\ waiters'[w] = {} /\ entry'[w].chrome \in {"none", "gone"}
                  /\ entry'[w].attached = FALSE
                BY <1>5, <1>6, <1>7, <1>8
            <4> HIDE DEF w
            <4> QED
                BY <2>1, <3>2, <3>3, <3>4, <4>1, <4>2, OneLeaves
        <3>6. For(t)' = {}
            BY <1>3, <1>8, <1>9, <2>3, <3>1, NothingAssumption DEF For, StagesInv
        <3> QED
            BY <3>5, <3>6 DEF TenantInv, StagesInv
    <2> QED
        BY <2>2, <2>3
<1> QED
    BY <1>10, <1>11 DEF UncrossedInv

(* A cleanup that ends takes the one worker of its tenant out.             *)
LEMMA FinishUncrossed ==
    ASSUME PoolInv, UncrossedInv, NEW w \in WorkerIds, NEW by \in Callers, FinishCleanup(w, by)
    PROVE  UncrossedInv'
<1> DEFINE e == [entry[w] EXCEPT !.state = "stopped"]
           a == [call[by] EXCEPT !.pc = "create"]
<1>1. /\ TypeOK /\ MadeInv /\ CallsInv /\ OwnInv /\ call \in [Calls -> CallRecord]
    BY DEF PoolInv, UncrossedInv, TypeOK, CallRecord
<1>2. /\ <<w, by>> \in finishing
      /\ entry' = [entry EXCEPT ![w] = e]
      /\ workers' = workers \ {w} /\ mapping' = [mapping EXCEPT ![entry[w].tenant] = Nothing]
      /\ finishing' = finishing \ {<<w, by>>}
      /\ call' = IF by \in Calls THEN [call EXCEPT ![by] = a] ELSE call
      /\ UNCHANGED <<lease, waiters, crossed>>
    BY DEF FinishCleanup, history, Unlisted, Unmapped
<1>3. entry[w] # Nothing /\ entry[w] \in Entry
    BY <1>1, <1>2 DEF MadeInv, TypeOK
<1>4. PICK u \in Tenants : u = entry[w].tenant
    BY <1>3 DEF Entry
<1>5. /\ e \in Entry /\ e.tenant = entry[w].tenant /\ e.port = entry[w].port
      /\ e.attached = entry[w].attached /\ e.process = entry[w].process
      /\ e.killed = entry[w].killed /\ e.chrome = entry[w].chrome /\ e.idle = entry[w].idle
    BY <1>3 DEF Entry
<1>6. ASSUME by \in Calls
      PROVE  /\ Awaits(by, w) /\ call[by].pc = "stopping" /\ call[by].tenant = u
             /\ a.pc = "create" /\ a.tenant = u
    <2>1. Awaits(by, w) /\ call[by].pc = "stopping"
        BY <1>1, <1>2, <1>6 DEF Awaits, CallsInv
    <2>2. call[by].tenant = u
        BY <1>1, <1>4, <1>6, <2>1 DEF OwnInv, Of
    <2> QED
        BY <1>1, <1>6, <2>1, <2>2 DEF CallRecord
<1>7. /\ \A q \in Calls : q # by => call'[q] = call[q]
      /\ by \in Calls => call'[by] = a
    BY <1>1, <1>2
<1>8. /\ EntriesStay /\ TenantsStay /\ \A t : Of(t)' = Of(t)
      /\ entry'[w] = e /\ \A v \in WorkerIds : v # w => entry'[v] = entry[v]
    <2> HIDE DEF e
    <2> QED
        BY <1>1, <1>2, <1>3, <1>5, OneEntry, OneChanges, EntriesTenants
<1> HIDE DEF e, a
<1>9. OwnInv'
    <2>1. \A q \in Calls, v \in WorkerIds :
              Awaits(q, v)' => Awaits(q, v) /\ call'[q].tenant = call[q].tenant
        BY <1>2, <1>6, <1>7 DEF Awaits
    <2>2. \A v \in WorkerIds : entry'[v] # Nothing /\ entry'[v].attached = FALSE =>
              /\ entry[v] # Nothing /\ entry[v].attached = FALSE
              /\ entry'[v].chrome = entry[v].chrome
        BY <1>3, <1>5, <1>8
    <2>3. \A q \in Calls : call'[q] = call[q] \/ call'[q].pc \notin {"idle", "mkdir", "polling"}
        BY <1>6, <1>7
    <2> QED
        BY <1>1, <1>2, <1>8, <2>1, <2>2, <2>3, OwnFrame
<1>10. ASSUME NEW t \in Tenants \ crossed'
       PROVE  TenantInv(t)'
    <2>1. TenantInv(t) /\ lease'[t] = lease[t]
        BY <1>2 DEF UncrossedInv
    <2>2. CASE t # u
        <3>1. mapping'[t] = mapping[t]
            BY <1>1, <1>2, <1>4, <2>2 DEF TypeOK
        <3>2. \A v \in Of(t) : v # w /\ v \in WorkerIds
            BY <1>4, <2>2 DEF Of
        <3>3. \A q \in Calls : call'[q].tenant = t => call'[q] = call[q]
            BY <1>6, <1>7, <2>2
        <3> QED
            BY <1>2, <1>8, <2>1, <3>1, <3>2, <3>3, Elsewhere
    <2>3. CASE t = u
        <3>1. StagesInv(t) /\ CleanupsInv(t) /\ LeaseInv(t) /\ ChromesInv(t)
            BY <2>1 DEF TenantInv
        <3>2. w \in Of(t) /\ Pending(w)
            BY <1>2, <1>3, <1>4, <2>3 DEF Of, Pending
        <3>3. waiters[w] = {} /\ Pool(t) \subseteq {w}
            BY <1>2, <3>1, <3>2 DEF CleanupsInv
        <3>4. lease[t] = Nothing
            BY <1>2, <3>1, <3>3 DEF LeaseInv
        <3>5. ~(entry[w].chrome \in {"launching", "listening"} /\ entry[w].killed = FALSE)
            BY <3>1, <3>2 DEF ChromesInv
        <3>6. \A v \in Of(t) : v # w => entry'[v] = entry[v] /\ waiters'[v] = waiters[v]
            BY <1>2, <1>8 DEF Of
        <3>7. Pool(t)' = {} /\ CleanupsInv(t)' /\ LeaseInv(t)' /\ ChromesInv(t)'
            BY <1>2, <1>5, <1>8, <2>1, <3>2, <3>3, <3>4, <3>5, <3>6, OneLeaves
        <3>8. StagesInv(t)'
            <4>1. For(t)' \subseteq For(t)
                BY <1>4, <1>6, <1>7, <2>3 DEF For
            <4>2. \A q \in For(t) : call[q].pc \notin {"mkdir", "polling"}
                BY <3>1, <3>2, <3>3 DEF StagesInv, Starts
            <4>3. \A q \in For(t)' : call'[q].pc \notin {"mkdir", "polling"}
                BY <1>6, <1>7, <4>1, <4>2 DEF For
            <4>4. \A q, o \in For(t)' : q = o
                BY <3>1, <4>1 DEF StagesInv
            <4> QED
                BY <3>7, <4>3, <4>4 DEF StagesInv
        <3> QED
            BY <3>7, <3>8 DEF TenantInv
    <2> QED
        BY <2>2, <2>3
<1> QED
    BY <1>9, <1>10 DEF UncrossedInv

(* The exit of a Chrome ends the waiting for it, and the lease on it.      *)
LEMMA ExitUncrossed ==
    ASSUME PoolInv, UncrossedInv, NEW w \in WorkerIds, Exit(w)
    PROVE  UncrossedInv'
<1>1. /\ TypeOK /\ MadeInv /\ CallsInv /\ OwnInv
    BY DEF PoolInv, UncrossedInv
<1>2. PICK e \in Entry :
          /\ entry' = [entry EXCEPT ![w] = e]
          /\ e.tenant = entry[w].tenant /\ e.port = entry[w].port
          /\ e.attached = FALSE /\ e.chrome = "gone" /\ e.killed = entry[w].killed
          /\ e.idle => entry[w].idle
          /\ e.state = entry[w].state \/ e.state = "crashed"
          /\ \/ e.process = entry[w].process /\ ~entry[w].attached
             \/ e.process = "stopped" /\ entry[w].process = "stopping"
             \/ e.process = "stopping" /\ w \in workers
             \/ e.process = "crashed" /\ w \notin workers
    BY <1>1, ExitEntry
<1>3. entry[w] # Nothing /\ entry[w] \in Entry /\ entry[w].attached = TRUE
    <2>1. entry[w] # Nothing /\ entry[w].chrome \in {"launching", "listening"}
        BY DEF Exit, Alive
    <2>2. entry[w] \in Entry /\ entry[w].attached \in BOOLEAN
        BY <1>1, <2>1 DEF TypeOK, Entry
    <2> QED
        BY <1>1, <2>1, <2>2 DEF OwnInv
<1>4. PICK u \in Tenants : u = entry[w].tenant
    BY <1>3 DEF Entry
<1>5. /\ finishing = {} /\ UNCHANGED <<workers, mapping, call, crossed>>
      /\ lease' = IF w \in workers THEN Revoked({u}) ELSE lease
      /\ waiters' = [waiters EXCEPT ![w] = {}]
      /\ finishing' = {<<w, by>> : by \in waiters[w]}
                         \cup (IF w \in workers /\ entry[w].process = "stopping"
                               THEN {<<w, Nothing>>} ELSE {})
    BY <1>3, <1>4 DEF Exit, Quiet, history
<1>6. /\ EntriesStay /\ TenantsStay /\ \A t : Of(t)' = Of(t) /\ Pool(t)' = Pool(t)
      /\ entry'[w] = e /\ \A v \in WorkerIds : v # w => entry'[v] = entry[v]
    BY <1>1, <1>2, <1>3, <1>5, OneEntry, OneChanges, EntriesTenants DEF Pool
<1>7. /\ waiters'[w] = {} /\ \A v \in WorkerIds : v # w => waiters'[v] = waiters[v]
      /\ \A v \in WorkerIds, d \in Callers : <<v, d>> \in finishing' =>
            /\ v = w
            /\ d \in waiters[w] \/ (w \in workers /\ entry[w].process = "stopping" /\ d = Nothing)
    BY <1>1, <1>5 DEF TypeOK
<1>8. \A t \in Tenants : lease'[t] # Nothing =>
          lease'[t] = lease[t] /\ (t = u => w \notin workers)
    BY <1>5 DEF Revoked
<1>9. OwnInv'
    <2>1. \A q \in Calls, v \in WorkerIds : Awaits(q, v)' => Awaits(q, v)
        <3>1. \A q \in Calls : q \in Callers /\ q # Nothing
            BY CallersAssumption DEF Callers
        <3> QED
            BY <1>7, <3>1 DEF Awaits
    <2>2. \A v \in WorkerIds : entry'[v] # Nothing /\ entry'[v].attached = FALSE =>
              \/ entry'[v].chrome \in {"none", "gone"}
              \/ /\ entry[v] # Nothing /\ entry[v].attached = FALSE
                 /\ entry'[v].chrome = entry[v].chrome
        BY <1>2, <1>6
    <2>3. \A t \in Tenants : lease'[t] # Nothing =>
              lease[t] # Nothing /\ lease'[t].worker = lease[t].worker
        BY <1>8
    <2> QED
        BY <1>1, <1>5, <1>6, <2>1, <2>2, <2>3, OwnFrame
<1>10. ASSUME NEW t \in Tenants \ crossed'
       PROVE  TenantInv(t)'
    <2>1. TenantInv(t)
        BY <1>5 DEF UncrossedInv
    <2>2. CASE t # u
        <3>1. lease'[t] = lease[t]
            BY <1>5, <2>2 DEF Revoked
        <3>2. \A v \in Of(t) : v # w /\ v \in WorkerIds
            BY <1>4, <2>2 DEF Of
        <3> QED
            BY <1>5, <1>6, <1>7, <2>1, <3>1, <3>2, Elsewhere
    <2>3. CASE t = u
        <3>1. StagesInv(t) /\ CleanupsInv(t) /\ LeaseInv(t) /\ ChromesInv(t)
            BY <2>1 DEF TenantInv
        <3>2. w \in Of(t) /\ (w \in workers => Pool(t) \subseteq {w})
            BY <1>3, <1>4, <2>3, <3>1 DEF Of, Pool, CleanupsInv
        <3>3. waiters[w] # {} => w \in workers
            BY <3>1, <3>2 DEF CleanupsInv
        <3>4. w \notin workers => finishing' = {}
            BY <1>5, <3>3
        <3>5. \A v \in WorkerIds : v # w => (Pending(v)' => Pending(v))
            BY <1>7 DEF Pending
        <3>6. StagesInv(t)'
            <4>1. ASSUME NEW q \in For(t), call[q].pc \in {"mkdir", "polling"}
                  PROVE  Starts(q, t)'
                <5> DEFINE x == call[q].worker
                <5>1. Starts(q, t) /\ x \in Pool(t) /\ x \in WorkerIds
                    BY <3>1, <4>1 DEF StagesInv, Starts, Pool, Of
                <5>2. lease'[t] = Nothing
                    BY <1>8, <5>1 DEF Starts
                <5>3. CASE x = w
                    <6>1. /\ ~Pending(w) /\ entry[w].process # "stopping" /\ call[q].pc # "mkdir"
                          /\ entry[w].idle = FALSE /\ entry[w].state # "running"
                        BY <1>3, <5>1, <5>3 DEF Starts
                    <6>2. finishing' = {}
                        BY <1>5, <6>1 DEF Pending
                    <6>3. ~Pending(w)'
                        BY <1>7, <6>2 DEF Pending
                    <6>4. e.idle = FALSE
                        BY <1>2, <6>1 DEF Entry
                    <6>5. e.state # "running"
                        BY <1>2, <6>1
                    <6> QED
                        BY <1>2, <1>5, <1>6, <5>1, <5>2, <5>3, <6>1, <6>3, <6>4, <6>5 DEF Starts
                <5>4. CASE x # w
                    BY <1>5, <1>6, <3>5, <5>1, <5>2, <5>4 DEF Starts
                <5> QED
                    BY <5>3, <5>4
            <4>2. For(t)' = For(t)
                BY <1>5 DEF For
            <4> QED
                BY <1>5, <1>6, <3>1, <4>1, <4>2 DEF StagesInv
        <3>7. CleanupsInv(t)'
            <4>1. \A v \in Of(t), d \in Callers : <<v, d>> \in finishing' => v = w /\ w \in workers
                BY <1>7, <3>3 DEF Of
            <4> QED
                BY <1>5, <1>6, <1>7, <3>1, <3>2, <4>1 DEF CleanupsInv, Of
        <3>8. LeaseInv(t)'
            <4> SUFFICES ASSUME lease'[t] # Nothing
                         PROVE  LeaseInv(t)'
                BY DEF LeaseInv
            <4>1. lease'[t] = lease[t] /\ w \notin workers
                BY <1>8, <2>3
            <4>2. finishing' = {} /\ lease[t].worker \in Pool(t) /\ lease[t].worker # w
                BY <3>1, <3>4, <4>1 DEF LeaseInv, Pool
            <4>3. entry'[lease[t].worker] = entry[lease[t].worker]
                BY <1>6, <4>2 DEF Pool, Of
            <4> QED
                BY <1>6, <3>1, <4>1, <4>2, <4>3 DEF LeaseInv
        <3>9. ChromesInv(t)'
            BY <1>2, <1>5, <1>6, <3>1, <3>5 DEF ChromesInv, Of
        <3> QED
            BY <3>6, <3>7, <3>8, <3>9 DEF TenantInv
    <2> QED
        BY <2>2, <2>3
<1> QED
    BY <1>9, <1>10 DEF UncrossedInv

(* A step of timers and leases: a lease goes, or stays with its worker.    *)
LEMMA LeaseStep ==
    ASSUME PoolInv, UncrossedInv, EntriesStay,
           UNCHANGED <<workers, mapping, call, waiters, finishing, crossed>>,
           \A t \in Tenants : ChromesStay(t) /\ LeaseStays(t),
           \A t \in Tenants : lease'[t] # Nothing =>
               lease[t] # Nothing /\ lease'[t].worker = lease[t].worker,
           \A w \in WorkerIds : entry[w] # Nothing =>
               /\ entry'[w].attached = entry[w].attached
               /\ \/ entry'[w].chrome = entry[w].chrome
                  \/ entry'[w].chrome = "listening" /\ entry[w].chrome = "launching"
    PROVE  UncrossedInv'
<1>1. OwnInv /\ TenantsStay /\ \A t : Of(t)' = Of(t) /\ Pool(t)' = Pool(t)
    BY EntriesTenants DEF UncrossedInv, Pool
<1>2. \A w \in WorkerIds : entry[w] = Nothing => entry'[w] = Nothing
    BY DEF EntriesStay
<1>3. OwnInv'
    <2>1. \A r \in Calls, w \in WorkerIds :
              Awaits(r, w)' => Awaits(r, w) /\ call'[r].tenant = call[r].tenant
        BY DEF Awaits
    <2>2. \A w \in WorkerIds : entry'[w] # Nothing /\ entry'[w].attached = FALSE =>
              /\ entry[w] # Nothing /\ entry[w].attached = FALSE
              /\ entry'[w].chrome = entry[w].chrome
        BY <1>1, <1>2 DEF OwnInv
    <2> QED
        BY <1>1, <2>1, <2>2, OwnFrame
<1>4. ASSUME NEW t \in Tenants \ crossed'
      PROVE  TenantInv(t)'
    <2>1. TenantInv(t)
        BY DEF UncrossedInv
    <2>2. CleanupsStay(t) /\ CallsStay(t)
        BY <1>1 DEF CleanupsStay, CallsStay
    <2> QED
        BY <2>1, <2>2, TenantFrame
<1> QED
    BY <1>3, <1>4 DEF UncrossedInv

(* A lease that ends before its worker does starts the idle timer of it.   *)
LEMMA LeaseEnds ==
    ASSUME PoolInv, UncrossedInv, NEW t \in Tenants, lease[t] # Nothing, lease' = Revoked({t}),
           NEW x, IdleTimerStarts(x), x \in workers => x \in Of(t),
           UNCHANGED <<workers, mapping, call, waiters, finishing, crossed>>
    PROVE  UncrossedInv'
<1>1. TypeOK /\ MadeInv /\ OwnInv
    BY DEF PoolInv, UncrossedInv
<1>2. EntriesStay
    BY <1>1, IdleStays
<1>3. \A w \in WorkerIds : w # x \/ x \notin workers => entry'[w] = entry[w]
    BY <1>1 DEF IdleTimerStarts, TypeOK
<1>4. x \in workers => /\ entry'[x].attached = entry[x].attached
                       /\ entry'[x].process = entry[x].process
                       /\ entry'[x].killed = entry[x].killed /\ entry'[x].state = entry[x].state
                       /\ entry'[x].chrome = entry[x].chrome
    <2> SUFFICES ASSUME x \in workers
                 PROVE  /\ entry'[x].attached = entry[x].attached
                        /\ entry'[x].process = entry[x].process
                        /\ entry'[x].killed = entry[x].killed /\ entry'[x].state = entry[x].state
                        /\ entry'[x].chrome = entry[x].chrome
        OBVIOUS
    <2>1. x \in WorkerIds /\ entry[x] \in Entry
        BY <1>1 DEF TypeOK, MadeInv
    <2>2. entry'[x] = [entry[x] EXCEPT !.idle = TRUE]
        BY <1>1, <2>1 DEF IdleTimerStarts, TypeOK
    <2> QED
        BY <2>1, <2>2 DEF Entry
<1>5. ASSUME NEW s \in Tenants
      PROVE  ChromesStay(s) /\ LeaseStays(s)
    <2>1. CASE s = t
        BY <1>3, <1>4, <2>1 DEF ChromesStay, LeaseStays, Revoked, Of
    <2>2. CASE s # t
        <3>1. lease'[s] = lease[s]
            BY <2>2 DEF Revoked
        <3>2. \A w \in Of(s) : entry'[w] = entry[w]
            BY <1>3, <2>2 DEF Of
        <3>3. lease[s] # Nothing => lease[s].worker \in Of(s)
            BY <1>1 DEF OwnInv
        <3> QED
            BY <3>1, <3>2, <3>3 DEF ChromesStay, LeaseStays
    <2> QED
        BY <2>1, <2>2
<1>6. \A s \in Tenants : lease'[s] # Nothing => lease'[s] = lease[s]
    BY DEF Revoked
<1> QED
    BY <1>2, <1>3, <1>4, <1>5, <1>6, LeaseStep

(* A timer of one worker is stopped, and its lease may get a new end; or a *)
(* lease is marked, or its end comes.                                      *)
LEMMA LeaseGoesOn ==
    ASSUME PoolInv, UncrossedInv, NEW t \in Tenants,
           RefreshLease(t) \/ MarkExpired(t) \/ LeaseRunsOut(t)
    PROVE  UncrossedInv'
<1>1. /\ TypeOK /\ MadeInv /\ OwnInv /\ MappingIsKnown
      /\ lease \in [Tenants -> Lease \cup {Nothing}]
    BY DEF PoolInv, UncrossedInv, TypeOK
<1>2. UNCHANGED <<workers, mapping, call, waiters, finishing, crossed>>
    BY DEF RefreshLease, MarkExpired, LeaseRunsOut, history
<1>3. CASE RefreshLease(t)
    <2> DEFINE w == mapping[t]
               e == [entry[w] EXCEPT !.idle = FALSE]
    <2>1. /\ w \in workers /\ lease' = lease /\ entry' = Used(w)
        BY <1>3 DEF RefreshLease
    <2>2. w \in WorkerIds /\ entry[w] # Nothing /\ entry[w] \in Entry
        BY <1>1, <2>1 DEF TypeOK, MadeInv
    <2>3. /\ e.attached = entry[w].attached /\ e.process = entry[w].process
          /\ e.killed = entry[w].killed /\ e.state = entry[w].state
          /\ e.chrome = entry[w].chrome /\ e.idle = FALSE
        BY <2>2 DEF Entry
    <2>4. entry'[w] = e /\ \A v \in WorkerIds : v # w => entry'[v] = entry[v]
        BY <1>1, <2>1, <2>2, OneChanges DEF Used
    <2> HIDE DEF e
    <2>5. EntriesStay
        BY <1>1, <2>1, <2>2, UsedStays
    <2>6. ASSUME NEW s \in Tenants
          PROVE  ChromesStay(s) /\ LeaseStays(s)
        <3>1. \A v \in Of(s) : v \in WorkerIds
            BY DEF Of
        <3>2. ChromesStay(s)
            BY <2>3, <2>4, <3>1 DEF ChromesStay
        <3>3. lease[s] # Nothing => lease[s].worker \in WorkerIds
            BY <1>1, <3>1 DEF OwnInv
        <3> QED
            BY <2>1, <2>3, <2>4, <3>2, <3>3 DEF LeaseStays
    <2> QED
        BY <1>2, <2>1, <2>3, <2>4, <2>5, <2>6, LeaseStep
<1>4. CASE MarkExpired(t) \/ LeaseRunsOut(t)
    <2>1. /\ lease[t] # Nothing /\ entry' = entry
          /\ \/ lease' = [lease EXCEPT ![t] = [lease[t] EXCEPT !.status = "expired"]]
             \/ lease' = [lease EXCEPT ![t] = [lease[t] EXCEPT !.over = TRUE]]
        BY <1>4 DEF MarkExpired, LeaseRunsOut
    <2>2. lease[t] \in Lease
        BY <1>1, <2>1
    <2>3. /\ \A s \in Tenants : s # t => lease'[s] = lease[s]
          /\ lease'[t].worker = lease[t].worker
          /\ ~(lease'[t].status = "active" /\ lease'[t].over = FALSE)
                \/ (lease'[t].status = lease[t].status /\ lease'[t].over = lease[t].over)
        BY <1>1, <2>1, <2>2 DEF Lease
    <2>4. EntriesStay
        BY <1>1, <2>1 DEF EntriesStay, TypeOK
    <2>5. ASSUME NEW s \in Tenants
          PROVE  ChromesStay(s) /\ LeaseStays(s)
        BY <2>1, <2>3 DEF ChromesStay, LeaseStays
    <2>6. \A s \in Tenants : lease'[s] # Nothing =>
              lease[s] # Nothing /\ lease'[s].worker = lease[s].worker
        BY <2>1, <2>3
    <2> QED
        BY <1>2, <2>1, <2>4, <2>5, <2>6, LeaseStep
<1> QED
    BY <1>3, <1>4

(* A Chrome listens.                                                       *)
LEMMA ListenUncrossed ==
    ASSUME PoolInv, UncrossedInv, NEW w \in WorkerIds, Listen(w)
    PROVE  UncrossedInv'
<1> DEFINE e == [entry[w] EXCEPT !.chrome = "listening"]
<1>1. TypeOK
    BY DEF PoolInv
<1>2. /\ entry[w] # Nothing /\ entry[w].chrome = "launching" /\ entry' = [entry EXCEPT ![w] = e]
      /\ UNCHANGED <<workers, mapping, lease, call, waiters, finishing, crossed>>
    BY DEF Listen, history
<1>3. entry[w] \in Entry
    BY <1>1, <1>2 DEF TypeOK
<1>4. /\ e \in Entry /\ e.tenant = entry[w].tenant /\ e.port = entry[w].port
      /\ e.attached = entry[w].attached /\ e.process = entry[w].process
      /\ e.killed = entry[w].killed /\ e.state = entry[w].state
      /\ e.chrome = "listening" /\ e.idle = entry[w].idle
    BY <1>3 DEF Entry
<1> HIDE DEF e
<1>5. /\ EntriesStay /\ entry'[w] = e
      /\ \A v \in WorkerIds : v # w => entry'[v] = entry[v]
    BY <1>1, <1>2, <1>4, OneEntry, OneChanges
<1>6. ASSUME NEW s \in Tenants
      PROVE  ChromesStay(s) /\ LeaseStays(s)
    <2>1. \A v \in Of(s) : v \in WorkerIds
        BY DEF Of
    <2>2. lease[s] # Nothing => lease[s].worker \in WorkerIds
        BY <2>1 DEF UncrossedInv, OwnInv
    <2> QED
        BY <1>2, <1>4, <1>5, <2>1, <2>2 DEF ChromesStay, LeaseStays
<1> QED
    BY <1>2, <1>4, <1>5, <1>6, LeaseStep

(* A timer, or a request, stops a worker; shutdown stops all of them.      *)
LEMMA StopUncrossed ==
    ASSUME PoolInv, UncrossedInv, NEW W \in SUBSET workers, NEW by \in {Nothing, ShutdownCall},
           finishing = {}, CleanupWorkers(W, by), crossed' = Crossed(W),
           UNCHANGED <<workers, mapping, call>>
    PROVE  UncrossedInv'
<1>1. OwnInv /\ by \in Callers /\ by \notin Calls
    BY CallersAssumption DEF UncrossedInv, Callers
<1>2. OwnInv'
    BY <1>1, CleanupOwn
<1>3. ASSUME NEW t \in Tenants \ crossed'
      PROVE  TenantInv(t)'
    <2>1. TenantInv(t) /\ t \notin Crossed(W)
        BY DEF UncrossedInv, Crossed
    <2> QED
        BY <1>1, <2>1, CleanupTenant
<1> QED
    BY <1>2, <1>3 DEF UncrossedInv

LEMMA StopIfKnownUncrossed ==
    ASSUME PoolInv, UncrossedInv, NEW w \in WorkerIds, entry[w] # Nothing, finishing = {},
           CleanupIfKnown(w)
    PROVE  UncrossedInv'
<1>1. TypeOK /\ UNCHANGED <<workers, mapping, call>>
    BY DEF PoolInv, CleanupIfKnown
<1>2. CASE w \in workers
    <2>1. CleanupWorkers({w}, Nothing) /\ crossed' = Crossed({w}) /\ {w} \in SUBSET workers
        BY <1>2 DEF CleanupIfKnown
    <2> QED
        BY <1>1, <2>1, StopUncrossed
<1>3. CASE w \notin workers
    <2> DEFINE e == [entry[w] EXCEPT !.idle = FALSE, !.hard = FALSE]
    <2>1. entry[w] \in Entry
        BY <1>1 DEF TypeOK
    <2>2. /\ e \in Entry /\ e.tenant = entry[w].tenant /\ e.port = entry[w].port
          /\ e.attached = entry[w].attached /\ e.process = entry[w].process
          /\ e.killed = entry[w].killed /\ e.state = entry[w].state
          /\ e.chrome = entry[w].chrome /\ e.idle = FALSE
        BY <2>1 DEF Entry
    <2>3. entry' = [entry EXCEPT ![w] = e] /\ UNCHANGED <<lease, waiters, finishing, crossed>>
        BY <1>3 DEF CleanupIfKnown
    <2> HIDE DEF e
    <2>4. /\ EntriesStay /\ entry'[w] = e
          /\ \A v \in WorkerIds : v # w => entry'[v] = entry[v]
        BY <1>1, <2>2, <2>3, OneEntry, OneChanges
    <2>5. ASSUME NEW s \in Tenants
          PROVE  ChromesStay(s) /\ LeaseStays(s)
        <3>1. \A v \in Of(s) : v \in WorkerIds
            BY DEF Of
        <3>2. lease[s] # Nothing => lease[s].worker \in WorkerIds
            BY <3>1 DEF UncrossedInv, OwnInv
        <3> QED
            BY <2>2, <2>3, <2>4, <3>1, <3>2 DEF ChromesStay, LeaseStays
    <2> QED
        BY <1>1, <2>2, <2>3, <2>4, <2>5, LeaseStep
<1> QED
    BY <1>2, <1>3

-----------------------------------------------------------------------------
(* Every step keeps it.                                                    *)
LEMMA UncrossedStep == PoolInv /\ UncrossedInv /\ [Next]_vars => UncrossedInv'
<1> SUFFICES ASSUME PoolInv, UncrossedInv, [Next]_vars
             PROVE  UncrossedInv'
    OBVIOUS
<1>1. TypeOK /\ MadeInv /\ MappingIsKnown /\ OwnInv
    BY DEF PoolInv, UncrossedInv
<1>2. CASE UNCHANGED vars
    <2>1. UNCHANGED <<workers, mapping, lease, entry, call, waiters, finishing, crossed>>
        BY <1>2 DEF vars
    <2>2. EntriesStay /\ \A t \in Tenants : ChromesStay(t) /\ LeaseStays(t)
        BY <1>1, <2>1 DEF EntriesStay, ChromesStay, LeaseStays, TypeOK
    <2> QED
        BY <2>1, <2>2, LeaseStep
<1>3. ASSUME NEW t \in Tenants, StopWorker(t)
      PROVE  UncrossedInv'
    <2>1. mapping[t] \in WorkerIds /\ entry[mapping[t]] # Nothing /\ finishing = {}
        BY <1>1, <1>3 DEF StopWorker, TypeOK, MadeInv, Quiet
    <2> QED
        BY <1>3, <2>1, StopIfKnownUncrossed DEF StopWorker
<1>4. ASSUME NEW w \in WorkerIds, TimerFires(w)
      PROVE  UncrossedInv'
    BY <1>4, StopIfKnownUncrossed DEF TimerFires, Quiet
<1>5. ASSUME Shutdown
      PROVE  UncrossedInv'
    <2>1. /\ finishing = {} /\ CleanupWorkers(workers, ShutdownCall) /\ crossed' = Crossed(workers)
          /\ UNCHANGED <<workers, mapping, call>> /\ workers \in SUBSET workers
        BY <1>5 DEF Shutdown, Quiet
    <2> QED
        BY <2>1, StopUncrossed
<1>6. ASSUME NEW t \in Tenants, ReleaseLease(t)
      PROVE  UncrossedInv'
    <2>1. /\ lease[t] # Nothing /\ lease' = Revoked({t}) /\ IdleTimerStarts(mapping[t])
          /\ UNCHANGED <<workers, mapping, call, waiters, finishing, crossed>>
        BY <1>6 DEF ReleaseLease, history
    <2>2. mapping[t] \in workers => mapping[t] \in Of(t)
        BY <1>1, NothingAssumption DEF MappingIsKnown, Of, TypeOK, MadeInv
    <2> QED
        BY <2>1, <2>2, LeaseEnds
<1>7. ASSUME NEW t \in Tenants, Sweep(t)
      PROVE  UncrossedInv'
    <2>1. /\ lease[t] # Nothing /\ lease' = Revoked({t}) /\ IdleTimerStarts(lease[t].worker)
          /\ UNCHANGED <<workers, mapping, call, waiters, finishing, crossed>>
        BY <1>7 DEF Sweep, history
    <2>2. lease[t].worker \in Of(t)
        BY <1>1, <2>1 DEF OwnInv
    <2> QED
        BY <2>1, <2>2, LeaseEnds
<1>8. ASSUME NEW t \in Tenants, RefreshLease(t) \/ MarkExpired(t) \/ LeaseRunsOut(t)
      PROVE  UncrossedInv'
    BY <1>8, LeaseGoesOn
<1>9. ASSUME NEW r \in Calls, CreateWorker(r) \/ PortTaken(r) \/ ChromeNotFound(r)
      PROVE  UncrossedInv'
    BY <1>9, SearchUncrossed
<1>10. ASSUME NEW r \in Calls, Spawn(r) \/ SpawnError(r) \/ StartSucceeds(r) \/ StartFails(r)
       PROVE  UncrossedInv'
    BY <1>10, SpawnUncrossed, StartedUncrossed, FailedUncrossed
<1>11. ASSUME NEW w \in WorkerIds, Listen(w) \/ Exit(w)
       PROVE  UncrossedInv'
    BY <1>11, ListenUncrossed, ExitUncrossed
<1> QED
    BY <1>2, <1>3, <1>4, <1>5, <1>6, <1>7, <1>8, <1>9, <1>10, <1>11, AcquireUncrossed,
       FinishUncrossed, AvailableUncrossed DEF Next

(* The empty pool.                                                         *)
LEMMA UncrossedInit == Init => UncrossedInv
<1> SUFFICES ASSUME Init
             PROVE  UncrossedInv
    OBVIOUS
<1>1. /\ workers = {} /\ finishing = {}
      /\ \A t \in Tenants : lease[t] = Nothing
      /\ \A w \in WorkerIds : entry[w] = Nothing /\ waiters[w] = {}
      /\ \A r \in Calls : call[r] = NoCall
    BY DEF Init
<1>2. NoCall.pc = "idle" /\ NoCall.tenant = Nothing
    BY DEF NoCall
<1>3. OwnInv
    BY <1>1, <1>2 DEF OwnInv, Awaits
<1>4. ASSUME NEW t \in Tenants
      PROVE  TenantInv(t)
    <2>1. Of(t) = {} /\ Pool(t) = {} /\ For(t) = {}
        BY <1>1, <1>2, NothingAssumption DEF Of, Pool, For
    <2> QED
        BY <1>1, <2>1 DEF TenantInv, StagesInv, CleanupsInv, LeaseInv, ChromesInv
<1> QED
    BY <1>3, <1>4 DEF UncrossedInv

LEMMA UncrossedAlways == Spec => [](PoolInv /\ UncrossedInv)
<1>1. Init => PoolInv /\ UncrossedInv
    BY PoolInitInv, UncrossedInit
<1>2. PoolInv /\ UncrossedInv /\ [Next]_vars => (PoolInv /\ UncrossedInv)'
    BY PoolStepInv, UncrossedStep
<1> QED
    BY <1>1, <1>2, PTL DEF Spec

-----------------------------------------------------------------------------
(* Whatever stops, crashes and is done for others: until two requests for  *)
(* a tenant cross, it has one worker in the pool.                          *)
THEOREM OneWorker == Spec => []OneWorkerPerTenant
<1>1. PoolInv /\ UncrossedInv => OneWorkerPerTenant
    <2> SUFFICES ASSUME PoolInv, UncrossedInv, NEW v \in workers, NEW w \in workers,
                        entry[v].tenant = entry[w].tenant, entry[v].tenant \notin crossed
                 PROVE  v = w
        BY DEF OneWorkerPerTenant
    <2> DEFINE t == entry[v].tenant
    <2>1. v \in WorkerIds /\ w \in WorkerIds /\ entry[v] \in Entry /\ entry[w] # Nothing
        BY DEF PoolInv, TypeOK, MadeInv
    <2>2. t \in Tenants \ crossed /\ v \in Pool(t) /\ w \in Pool(t)
        BY <2>1, NoObjectAssumption DEF Entry, Pool, Of
    <2> QED
        BY <2>2 DEF UncrossedInv, TenantInv, CleanupsInv
<1> QED
    BY <1>1, UncrossedAlways, PTL

(* ... its active lease is on that worker, and no idle timer is to stop it *)
(* while the lease lasts ...                                               *)
THEOREM LeasedKept == Spec => []LeasedIsKept
<1>1. PoolInv /\ UncrossedInv => LeasedIsKept
    <2> SUFFICES ASSUME PoolInv, UncrossedInv, NEW t \in Tenants \ crossed,
                        lease[t] # Nothing, lease[t].status = "active"
                 PROVE  /\ lease[t].worker \in workers
                        /\ ~lease[t].over => ~entry[lease[t].worker].idle
        BY DEF LeasedIsKept
    <2>1. /\ lease[t].worker \in workers
          /\ lease[t].over = FALSE => entry[lease[t].worker].idle = FALSE
        BY DEF UncrossedInv, TenantInv, LeaseInv, Pool
    <2>2. lease[t].over \in BOOLEAN
        BY DEF PoolInv, TypeOK, Lease
    <2> QED
        BY <2>1, <2>2
<1> QED
    BY <1>1, UncrossedAlways, PTL

(* ... and each Chrome that runs for it is one of a worker of the pool, or *)
(* was killed.                                                             *)
THEOREM NoOrphan == Spec => []NoOrphans
<1>1. PoolInv /\ UncrossedInv => NoOrphans
    <2> SUFFICES ASSUME PoolInv, UncrossedInv, NEW w \in WorkerIds, Alive(w),
                        entry[w].tenant \notin crossed
                 PROVE  w \in workers \/ entry[w].killed
        BY DEF NoOrphans
    <2>1. /\ entry[w] # Nothing /\ entry[w].chrome \in {"launching", "listening"}
          /\ entry[w] \in Entry
        BY DEF Alive, PoolInv, TypeOK
    <2>2. /\ entry[w].killed \in BOOLEAN /\ entry[w].tenant \in Tenants
          /\ w \in Of(entry[w].tenant)
        BY <2>1 DEF Entry, Of
    <2> QED
        BY <2>1, <2>2 DEF UncrossedInv, TenantInv, ChromesInv
<1> QED
    BY <1>1, UncrossedAlways, PTL

-----------------------------------------------------------------------------
(* The calls that have passed the test of the limit and have no worker yet *)
(* count with the workers.                                                 *)
SizeInv == IsFiniteSet(workers) /\ LimitIsKept

LEMMA ProbingFinite ==
    /\ IsFiniteSet(Probing) /\ Cardinality(Probing) \in Nat
    /\ Cardinality(Calls) \in Nat /\ Cardinality(Probing) <= Cardinality(Calls)
    /\ Probing # Calls => Cardinality(Probing) < Cardinality(Calls)
<1>1. Probing \in SUBSET Calls
    BY DEF Probing
<1> QED
    BY <1>1, FlightAssumption, FS_Subset, FS_CardinalityType

(* A step that adds no worker, and passes no call, keeps to the bound.     *)
LEMMA SizeShrinks ==
    ASSUME SizeInv, workers' \subseteq workers, Probing' \subseteq Probing
    PROVE  SizeInv'
<1>1. /\ IsFiniteSet(workers') /\ Cardinality(workers') \in Nat
      /\ Cardinality(workers) \in Nat /\ Cardinality(workers') <= Cardinality(workers)
    BY FS_Subset, FS_CardinalityType DEF SizeInv, LimitIsKept
<1>2. /\ Cardinality(Probing') \in Nat /\ Cardinality(Probing) \in Nat
      /\ Cardinality(Probing') <= Cardinality(Probing)
    BY ProbingFinite, FS_Subset, FS_CardinalityType
<1>3. Cardinality(Calls) \in Nat
    BY ProbingFinite
<1> DEFINE P == Cardinality(Probing)
<1>4. SizeInv' <=> /\ IsFiniteSet(workers')
                   /\ Cardinality(workers') + Cardinality(Probing') < MaxWorkers + Cardinality(Calls)
    BY DEF SizeInv, LimitIsKept
<1> QED
    BY <1>1, <1>2, <1>3, <1>4, LimitAssumption DEF SizeInv, LimitIsKept

(* So does one that changes the calls only: by ending them, or ...         *)
LEMMA ProbingStays ==
    /\ UNCHANGED call => Probing' \subseteq Probing
    /\ TypeOK => \A r \in Calls :
          (\A q \in Calls \ {r} : call'[q] = call[q]) /\ call'[r].pc # "probing"
              => Probing' \subseteq Probing
BY DEF Probing

(* ... by passing one while there is room.                                 *)
LEMMA SizeCreate ==
    ASSUME TypeOK, SizeInv, NEW r \in Calls, CreateWorker(r)
    PROVE  SizeInv'
<1>1. CASE LimitReached \/ FreePorts(MinPort) = {}
    <2>1. workers' = workers /\ call' = [call EXCEPT ![r] = NoCall]
        BY <1>1 DEF CreateWorker
    <2>2. Probing' \subseteq Probing
        BY <2>1, ProbingStays, NoCallFacts DEF TypeOK
    <2> QED
        BY <2>1, <2>2, SizeShrinks
<1>2. CASE ~(LimitReached \/ FreePorts(MinPort) = {})
    <2>1. /\ workers' = workers /\ call[r].pc = "create"
          /\ \A q \in Calls \ {r} : call'[q] = call[q]
        BY <1>2 DEF CreateWorker, TypeOK
    <2>2. /\ Cardinality(workers) \in Nat /\ Cardinality(workers) < MaxWorkers
          /\ IsFiniteSet(workers)
        BY <1>2, FS_CardinalityType, LimitAssumption DEF LimitReached, SizeInv, LimitIsKept
    <2>3. Cardinality(Probing') <= Cardinality(Calls) /\ Cardinality(Probing') \in Nat
        <3>1. Probing' \in SUBSET Calls
            BY DEF Probing
        <3> QED
            BY <3>1, FlightAssumption, FS_Subset, FS_CardinalityType
    <2>4. Cardinality(Calls) \in Nat
        BY ProbingFinite
    <2> QED
        BY <2>1, <2>2, <2>3, <2>4, LimitAssumption DEF SizeInv, LimitIsKept
<1> QED
    BY <1>1, <1>2

(* A call that gets its worker is counted once, before and after.          *)
LEMMA SizeAvailable ==
    ASSUME TypeOK, SizeInv, NEW r \in Calls, NEW w \in WorkerIds, PortAvailable(r, w)
    PROVE  SizeInv'
<1>1. /\ workers' = workers \cup {w} /\ call[r].pc = "probing"
      /\ call' = [call EXCEPT ![r].pc = "mkdir", ![r].worker = w]
    BY DEF PortAvailable
<1>2. r \in Probing /\ Probing' = Probing \ {r}
    <2>1. /\ \A q \in Calls \ {r} : call'[q] = call[q]
          /\ call'[r].pc = "mkdir"
        BY <1>1 DEF TypeOK
    <2> QED
        BY <1>1, <2>1 DEF Probing
<1>3. /\ Cardinality(Probing') = Cardinality(Probing) - 1
      /\ Cardinality(Probing) \in Nat /\ Cardinality(Calls) \in Nat
    BY <1>2, ProbingFinite, FS_RemoveElement
<1>4. /\ IsFiniteSet(workers') /\ Cardinality(workers') \in Nat /\ Cardinality(workers) \in Nat
      /\ Cardinality(workers') <= Cardinality(workers) + 1
    <2>1. IsFiniteSet(workers) /\ Cardinality(workers) \in Nat
        BY FS_CardinalityType DEF SizeInv, LimitIsKept
    <2>2. /\ IsFiniteSet(workers')
          /\ Cardinality(workers') = Cardinality(workers)
                \/ Cardinality(workers') = Cardinality(workers) + 1
        BY <1>1, <2>1, FS_AddElement
    <2> QED
        BY <2>1, <2>2, FS_CardinalityType
<1> QED
    BY <1>3, <1>4, LimitAssumption DEF SizeInv, LimitIsKept

LEMMA SizeStep == PoolInv /\ SizeInv /\ [Next]_vars => SizeInv'
<1> SUFFICES ASSUME PoolInv, SizeInv, [Next]_vars
             PROVE  SizeInv'
    OBVIOUS
<1>0. TypeOK
    BY DEF PoolInv
<1>1. ASSUME workers' \subseteq workers, UNCHANGED call
      PROVE  SizeInv'
    BY <1>1, ProbingStays, SizeShrinks
<1>2. ASSUME workers' \subseteq workers, NEW r \in Calls, call'[r].pc # "probing",
             \A q \in Calls \ {r} : call'[q] = call[q]
      PROVE  SizeInv'
    BY <1>0, <1>2, ProbingStays, SizeShrinks
<1>3. CASE UNCHANGED vars
    BY <1>1, <1>3 DEF vars
<1>4. ASSUME NEW r \in Calls, NEW t \in Tenants, NEW c \in Controllers, AcquireForTenant(r, t, c)
      PROVE  SizeInv'
    <2>1. /\ workers' = workers
          /\ \/ call' = call
             \/ call' = [call EXCEPT ![r] =
                    [NoCall EXCEPT !.pc = "stopping", !.tenant = t, !.controller = c]]
             \/ call' = [call EXCEPT ![r] =
                    [NoCall EXCEPT !.pc = "create", !.tenant = t, !.controller = c]]
        BY <1>4 DEF AcquireForTenant
    <2> QED
        BY <1>0, <1>1, <1>2, <2>1 DEF NoCall, TypeOK
<1>5. ASSUME NEW w \in WorkerIds, NEW by \in Callers, FinishCleanup(w, by)
      PROVE  SizeInv'
    <2>1. /\ workers' \subseteq workers
          /\ call' = IF by \in Calls THEN [call EXCEPT ![by].pc = "create"] ELSE call
        BY <1>5 DEF FinishCleanup, Unlisted
    <2>2. CASE by \in Calls
        <3>1. call'[by].pc # "probing" /\ \A q \in Calls \ {by} : call'[q] = call[q]
            BY <1>0, <2>1, <2>2 DEF TypeOK
        <3> QED
            BY <1>2, <2>1, <2>2, <3>1
    <2> QED
        BY <1>1, <2>1, <2>2
<1>6. ASSUME NEW r \in Calls,
             PortTaken(r) \/ ChromeNotFound(r) \/ Spawn(r) \/ SpawnError(r)
                \/ StartSucceeds(r) \/ StartFails(r)
      PROVE  SizeInv'
    <2>1. CASE PortTaken(r)
        <3>1. /\ workers' = workers /\ call[r].pc = "probing"
              /\ \A q \in Calls \ {r} : call'[q] = call[q]
            BY <1>0, <2>1 DEF PortTaken, TypeOK
        <3>2. Probing' \subseteq Probing
            BY <3>1 DEF Probing
        <3> QED
            BY <3>1, <3>2, SizeShrinks
    <2>2. CASE ~PortTaken(r)
        <3>1. /\ workers' \subseteq workers
              /\ \/ call' = [call EXCEPT ![r] = NoCall]
                 \/ call' = [call EXCEPT ![r].pc = "polling"]
            BY <1>6, <2>2 DEF ChromeNotFound, Spawn, SpawnError, StartSucceeds, StartFails, Unlisted
        <3> QED
            BY <1>0, <1>2, <3>1, NoCallFacts DEF TypeOK
    <2> QED
        BY <2>1, <2>2
<1>7. ASSUME NEW w \in WorkerIds, CleanupIfKnown(w)
      PROVE  SizeInv'
    BY <1>1, <1>7 DEF CleanupIfKnown
<1>8. ASSUME NEW w \in WorkerIds, Listen(w) \/ Exit(w) \/ TimerFires(w)
      PROVE  SizeInv'
    BY <1>1, <1>7, <1>8 DEF Listen, Exit, TimerFires
<1>9. ASSUME NEW t \in Tenants,
             StopWorker(t) \/ ReleaseLease(t) \/ RefreshLease(t) \/ MarkExpired(t)
                \/ LeaseRunsOut(t) \/ Sweep(t)
      PROVE  SizeInv'
    BY <1>0, <1>1, <1>7, <1>9
       DEF StopWorker, ReleaseLease, RefreshLease, MarkExpired, LeaseRunsOut, Sweep, TypeOK
<1>10. ASSUME Shutdown
       PROVE  SizeInv'
    BY <1>1, <1>10 DEF Shutdown
<1> QED
    BY <1>0, <1>3, <1>4, <1>5, <1>6, <1>8, <1>9, <1>10, SizeCreate, SizeAvailable DEF Next

(* At any time the workers exceed the limit by less than the number of the *)
(* calls in flight: a call counts from its test of the limit on, though the*)
(* code counts its worker only after the probe.                            *)
THEOREM LimitKept == Spec => []LimitIsKept
<1>1. Init => SizeInv
    <2> SUFFICES ASSUME Init
                 PROVE  SizeInv
        OBVIOUS
    <2>1. workers = {} /\ Probing = {}
        BY NoCallFacts DEF Init, Probing
    <2>2. IsFiniteSet(workers) /\ Cardinality(workers) = 0 /\ Cardinality(Probing) = 0
        BY <2>1, FS_EmptySet
    <2>3. Cardinality(Calls) \in Nat /\ Cardinality(Calls) # 0
        BY FlightAssumption, FS_CardinalityType, FS_EmptySet
    <2> QED
        BY <2>2, <2>3, LimitAssumption DEF SizeInv, LimitIsKept
<1>2. SizeInv => LimitIsKept
    BY DEF SizeInv
<1> QED
    BY <1>1, <1>2, PoolAlways, SizeStep, PTL DEF Spec

=============================================================================
