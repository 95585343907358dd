------------------------ MODULE WorkerManagerProofs ------------------------
(***************************************************************************)
(* Proofs about the worker pool, for any number of tenants, controllers,   *)
(* calls and workers, and any range of ports.                              *)
(***************************************************************************)
EXTENDS WorkerManager, FiniteSetTheorems, WellFoundedInduction, TLAPS

CallRecord ==
    [pc : {"idle", "create", "stopping", "probing", "mkdir", "polling"},
     tenant : Tenants \cup {Nothing}, controller : Controllers \cup {Nothing},
     port : Ports \cup {Nothing}, worker : WorkerIds \cup {Nothing}]

(* A call waits for the cleanup of w: for the exit, or to go on.           *)
Awaits(r, w) == r \in waiters[w] \/ <<w, r>> \in finishing

(* What is cleaned up, or waited for, was made.                            *)
MadeInv ==
    /\ \A w \in workers : entry[w] # Nothing
    /\ \A w \in WorkerIds : waiters[w] # {} => entry[w] # Nothing
    /\ \A w \in WorkerIds, by \in Callers : <<w, by>> \in finishing => entry[w] # Nothing

(* A call has what its step needs, and waits for one cleanup, in one place.*)
CallsInv ==
    \A r \in Calls :
        /\ call[r].pc # "idle" => call[r].tenant \in Tenants /\ call[r].controller \in Controllers
        /\ call[r].pc = "probing" => call[r].port \in Ports
        /\ call[r].pc \in {"mkdir", "polling"} =>
              call[r].worker \in WorkerIds /\ entry[call[r].worker] # Nothing
        /\ \A w \in WorkerIds : Awaits(r, w) =>
              /\ call[r].pc = "stopping"
              /\ ~(r \in waiters[w] /\ <<w, r>> \in finishing)
              /\ \A v \in WorkerIds : Awaits(r, v) => v = w

PoolInv == TypeOK /\ MadeInv /\ CallsInv /\ MappingIsKnown /\ ReservedPortsAreOwned

-----------------------------------------------------------------------------
(* A step that makes no entry, and moves none to another tenant or port.   *)
EntriesStay ==
    /\ entry' \in [WorkerIds -> Entry \cup {Nothing}]
    /\ \A w \in WorkerIds : IF entry[w] = Nothing
                            THEN entry'[w] = Nothing
                            ELSE /\ entry'[w] \in Entry
                                 /\ entry'[w].tenant = entry[w].tenant
                                 /\ entry'[w].port = entry[w].port

(* A step that forgets no port that is lost while it is reserved.          *)
HistoryStays ==
    /\ lost' \in SUBSET Ports
    /\ ports \cap lost \subseteq lost'
    /\ crossed' \in SUBSET Tenants

(* Such is a step that sets the other fields of one entry.                 *)
LEMMA OneEntry ==
    ASSUME TypeOK, NEW w \in WorkerIds, entry[w] # Nothing, NEW e \in Entry,
           e.tenant = entry[w].tenant, e.port = entry[w].port,
           entry' = [entry EXCEPT ![w] = e]
    PROVE  EntriesStay
<1>1. entry \in [WorkerIds -> Entry \cup {Nothing}]
    BY DEF TypeOK
<1>2. entry' \in [WorkerIds -> Entry \cup {Nothing}]
    BY <1>1
<1> QED
    BY <1>1, <1>2, NoObjectAssumption DEF EntriesStay

(* A step that leaves the entries, the pool and the calls alone keeps the  *)
(* invariant, if its cleanups are of workers that were made, and for no    *)
(* call but one that begins to wait.                                       *)
LEMMA StaysInv ==
    ASSUME PoolInv, EntriesStay, HistoryStays, UNCHANGED <<workers, mapping, ports>>,
           lease' \in [Tenants -> Lease \cup {Nothing}],
           shutting' \in BOOLEAN, awaited' \in SUBSET WorkerIds,
           waiters' \in [WorkerIds -> SUBSET Callers],
           finishing' \in SUBSET (WorkerIds \X Callers),
           \A w \in WorkerIds : waiters'[w] # {} => entry[w] # Nothing,
           \A w \in WorkerIds, by \in Callers : <<w, by>> \in finishing' => entry[w] # Nothing,
           CallsInv', call' \in [Calls -> CallRecord],
           \A r \in Calls : call[r].pc = "probing" => call'[r] = call[r]
    PROVE  PoolInv'
<1>1. TypeOK /\ MadeInv /\ CallsInv /\ MappingIsKnown /\ ReservedPortsAreOwned
    BY DEF PoolInv
<1>2. TypeOK'
    BY <1>1 DEF TypeOK, EntriesStay, HistoryStays, CallRecord
<1>3. \A w \in WorkerIds : entry[w] # Nothing => /\ entry'[w] # Nothing
                                                  /\ entry'[w].tenant = entry[w].tenant
                                                  /\ entry'[w].port = entry[w].port
    BY NoObjectAssumption DEF EntriesStay
<1>4. MadeInv'
    BY <1>1, <1>3 DEF MadeInv, TypeOK
<1>5. MappingIsKnown'
    BY <1>1, <1>3 DEF MadeInv, MappingIsKnown, TypeOK
<1>6. ReservedPortsAreOwned'
    <2> SUFFICES ASSUME NEW p \in ports
                 PROVE  \/ \E w \in workers : entry'[w].port = p
                        \/ \E r \in Calls : call'[r].pc = "probing" /\ call'[r].port = p
                        \/ p \in lost'
        BY DEF ReservedPortsAreOwned
    <2>1. CASE \E w \in workers : entry[w].port = p
        BY <1>1, <1>3, <2>1 DEF MadeInv, TypeOK
    <2>2. CASE \E r \in Calls : call[r].pc = "probing" /\ call[r].port = p
        BY <2>2
    <2> QED
        BY <1>1, <2>1, <2>2 DEF ReservedPortsAreOwned, HistoryStays
<1> QED
    BY <1>2, <1>4, <1>5, <1>6 DEF PoolInv

(* A step of the entries and the leases.                                   *)
LEMMA QuietInv ==
    ASSUME PoolInv, EntriesStay, HistoryStays, lease' \in [Tenants -> Lease \cup {Nothing}],
           UNCHANGED <<workers, mapping, ports, call, waiters, finishing, shutting, awaited>>
    PROVE  PoolInv'
<1>1. TypeOK /\ MadeInv /\ CallsInv
    BY DEF PoolInv
<1>2. \A w \in WorkerIds : entry[w] # Nothing => entry'[w] # Nothing
    BY NoObjectAssumption DEF EntriesStay
<1>3. CallsInv'
    BY <1>1, <1>2 DEF CallsInv, Awaits
<1>4. /\ shutting' \in BOOLEAN /\ awaited' \in SUBSET WorkerIds
      /\ waiters' \in [WorkerIds -> SUBSET Callers]
      /\ finishing' \in SUBSET (WorkerIds \X Callers)
      /\ call' \in [Calls -> CallRecord]
    BY <1>1 DEF TypeOK, CallRecord
<1>5. /\ \A w \in WorkerIds : waiters'[w] # {} => entry[w] # Nothing
      /\ \A w \in WorkerIds, by \in Callers : <<w, by>> \in finishing' => entry[w] # Nothing
    BY <1>1 DEF MadeInv
<1> QED
    BY <1>3, <1>4, <1>5, StaysInv

(* What stop() and the timers that cleanupWorker clears do to an entry.    *)
LEMMA StoppingFacts ==
    ASSUME NEW e \in Entry
    PROVE  /\ Stopping(e) \in Entry
           /\ Stopping(e).tenant = e.tenant /\ Stopping(e).port = e.port
           /\ Stopping(e).state = e.state /\ Stopping(e).attached = e.attached
           /\ Stopping(e).chrome = e.chrome
           /\ Stopping(e).idle = FALSE /\ Stopping(e).hard = FALSE
           /\ StopsAtOnce(e) => Stopping(e).process = e.process /\ Stopping(e).killed = e.killed
           /\ ~StopsAtOnce(e) => Stopping(e).process = "stopping" /\ Stopping(e).killed = TRUE
<1>1. CASE StopsAtOnce(e)
    BY <1>1 DEF Stopping, Entry
<1>2. CASE ~StopsAtOnce(e)
    BY <1>2 DEF Stopping, Entry
<1> QED
    BY <1>1, <1>2

(* What a cleanup does, up to its awaits.                                  *)
LEMMA CleanupFacts ==
    ASSUME TypeOK, MadeInv, NEW W \in SUBSET workers, NEW by \in Callers,
           CleanupWorkers(W, by)
    PROVE  /\ EntriesStay
           /\ lease' \in [Tenants -> Lease \cup {Nothing}]
           /\ waiters' \in [WorkerIds -> SUBSET Callers]
           /\ finishing' \in SUBSET (WorkerIds \X Callers)
           /\ \A w \in WorkerIds : w \notin W => waiters'[w] = waiters[w]
           /\ \A w \in W : IF StopsAtOnce(entry[w])
                           THEN waiters'[w] = waiters[w]
                           ELSE waiters'[w] = waiters[w] \cup {by}
           /\ \A w \in WorkerIds, d \in Callers :
                 <<w, d>> \in finishing' <=>
                     \/ <<w, d>> \in finishing
                     \/ w \in W /\ d = by /\ StopsAtOnce(entry[w])
<1>1. \A w \in W : w \in WorkerIds /\ entry[w] \in Entry
    BY DEF MadeInv, TypeOK
<1>2. entry' = [w \in WorkerIds |-> IF w \in W THEN Stopping(entry[w]) ELSE entry[w]]
    BY DEF CleanupWorkers
<1>3. \A w \in W : /\ Stopping(entry[w]) \in Entry
                   /\ Stopping(entry[w]).tenant = entry[w].tenant
                   /\ Stopping(entry[w]).port = entry[w].port
    BY <1>1, StoppingFacts
<1>4. EntriesStay
    <2>1. entry' \in [WorkerIds -> Entry \cup {Nothing}]
        BY <1>2, <1>3 DEF TypeOK
    <2>2. \A w \in WorkerIds : entry[w] = Nothing => entry'[w] = Nothing
        BY <1>1, <1>2, NoObjectAssumption
    <2>3. \A w \in WorkerIds : entry[w] # Nothing => /\ entry'[w] \in Entry
                                                      /\ entry'[w].tenant = entry[w].tenant
                                                      /\ entry'[w].port = entry[w].port
        BY <1>2, <1>3 DEF TypeOK
    <2> QED
        BY <2>1, <2>2, <2>3 DEF EntriesStay
<1>5. lease' \in [Tenants -> Lease \cup {Nothing}]
    BY DEF CleanupWorkers, Revoked, TypeOK
<1>6. waiters' = [w \in WorkerIds |-> IF w \in W /\ ~StopsAtOnce(entry[w])
                                      THEN waiters[w] \cup {by} ELSE waiters[w]]
    BY DEF CleanupWorkers
<1>7. /\ waiters' \in [WorkerIds -> SUBSET Callers]
      /\ \A w \in WorkerIds : w \notin W => waiters'[w] = waiters[w]
      /\ \A w \in W : IF StopsAtOnce(entry[w])
                      THEN waiters'[w] = waiters[w]
                      ELSE waiters'[w] = waiters[w] \cup {by}
    BY <1>1, <1>6 DEF TypeOK
<1>8. finishing' = finishing \cup {<<w, by>> : w \in {x \in W : StopsAtOnce(entry[x])}}
    BY DEF CleanupWorkers
<1>9. finishing' \in SUBSET (WorkerIds \X Callers)
    BY <1>1, <1>8 DEF TypeOK
<1>10. \A w \in WorkerIds, d \in Callers :
           <<w, d>> \in finishing' <=>
               \/ <<w, d>> \in finishing
               \/ w \in W /\ d = by /\ StopsAtOnce(entry[w])
    BY <1>8
<1> QED
    BY <1>4, <1>5, <1>7, <1>9, <1>10

(* A cleanup that no call waits for: of a timer, of stopWorker, of shutdown.*)
LEMMA CleanupInv ==
    ASSUME PoolInv, HistoryStays, NEW W \in SUBSET workers, NEW by \in {Nothing, ShutdownCall},
           CleanupWorkers(W, by), UNCHANGED <<workers, mapping, ports, call>>,
           shutting' \in BOOLEAN, awaited' \in SUBSET WorkerIds
    PROVE  PoolInv'
<1>1. TypeOK /\ MadeInv /\ CallsInv
    BY DEF PoolInv
<1>2. by \in Callers
    BY DEF Callers
<1>3. /\ EntriesStay
      /\ lease' \in [Tenants -> Lease \cup {Nothing}]
      /\ waiters' \in [WorkerIds -> SUBSET Callers]
      /\ finishing' \in SUBSET (WorkerIds \X Callers)
      /\ \A w \in WorkerIds : w \notin W => waiters'[w] = waiters[w]
      /\ \A w \in W : IF StopsAtOnce(entry[w])
                      THEN waiters'[w] = waiters[w]
                      ELSE waiters'[w] = waiters[w] \cup {by}
      /\ \A w \in WorkerIds, d \in Callers :
            <<w, d>> \in finishing' <=>
                \/ <<w, d>> \in finishing
                \/ w \in W /\ d = by /\ StopsAtOnce(entry[w])
    BY <1>1, <1>2, CleanupFacts
<1>4. \A w \in W : w \in WorkerIds /\ entry[w] # Nothing
    BY <1>1 DEF MadeInv, TypeOK
<1>5. /\ \A w \in WorkerIds : waiters'[w] # {} => entry[w] # Nothing
      /\ \A w \in WorkerIds, d \in Callers : <<w, d>> \in finishing' => entry[w] # Nothing
    BY <1>1, <1>3, <1>4 DEF MadeInv
<1>6. \A r \in Calls, w \in WorkerIds : /\ r \in waiters'[w] <=> r \in waiters[w]
                                        /\ <<w, r>> \in finishing' <=> <<w, r>> \in finishing
    <2>1. \A r \in Calls : r \in Callers /\ r # by
        BY CallersAssumption DEF Callers
    <2> QED
        BY <1>3, <2>1
<1>7. \A w \in WorkerIds : entry[w] # Nothing => entry'[w] # Nothing
    BY <1>3, NoObjectAssumption DEF EntriesStay
<1>8. CallsInv'
    BY <1>1, <1>6, <1>7 DEF CallsInv, Awaits
<1>9. call' \in [Calls -> CallRecord]
    BY <1>1 DEF TypeOK, CallRecord
<1> QED
    BY <1>3, <1>5, <1>8, <1>9, StaysInv

(* acquireForTenant cleans a worker up that is not running.                *)
LEMMA CleanupForCallInv ==
    ASSUME PoolInv, HistoryStays, NEW r \in Calls, NEW t \in Tenants, NEW c \in Controllers,
           NEW w \in workers, call[r].pc = "idle", CleanupWorkers({w}, r),
           call' = [call EXCEPT ![r] =
               [NoCall EXCEPT !.pc = "stopping", !.tenant = t, !.controller = c]],
           UNCHANGED <<workers, mapping, ports, shutting, awaited>>
    PROVE  PoolInv'
<1>1. TypeOK /\ MadeInv /\ CallsInv
    BY DEF PoolInv
<1>2. r \in Callers /\ {w} \in SUBSET workers
    BY DEF Callers
<1>3. /\ EntriesStay
      /\ lease' \in [Tenants -> Lease \cup {Nothing}]
      /\ waiters' \in [WorkerIds -> SUBSET Callers]
      /\ finishing' \in SUBSET (WorkerIds \X Callers)
      /\ \A v \in WorkerIds : v \notin {w} => waiters'[v] = waiters[v]
      /\ \A v \in {w} : IF StopsAtOnce(entry[v])
                        THEN waiters'[v] = waiters[v]
                        ELSE waiters'[v] = waiters[v] \cup {r}
      /\ \A v \in WorkerIds, d \in Callers :
            <<v, d>> \in finishing' <=>
                \/ <<v, d>> \in finishing
                \/ v \in {w} /\ d = r /\ StopsAtOnce(entry[v])
    BY <1>1, <1>2, CleanupFacts
<1>4. w \in WorkerIds /\ entry[w] # Nothing
    BY <1>1 DEF MadeInv, TypeOK
<1>5. /\ \A v \in WorkerIds : waiters'[v] # {} => entry[v] # Nothing
      /\ \A v \in WorkerIds, d \in Callers : <<v, d>> \in finishing' => entry[v] # Nothing
    BY <1>1, <1>3, <1>4 DEF MadeInv
<1> DEFINE a == [NoCall EXCEPT !.pc = "stopping", !.tenant = t, !.controller = c]
<1>6. /\ a \in CallRecord /\ a.pc = "stopping" /\ a.tenant = t /\ a.controller = c
    BY DEF NoCall, CallRecord
<1>7. call \in [Calls -> CallRecord]
    BY <1>1 DEF TypeOK, CallRecord
<1> HIDE DEF a
<1>8. call' \in [Calls -> CallRecord] /\ call' = [call EXCEPT ![r] = a]
    BY <1>6, <1>7 DEF a
<1>9. \A v \in WorkerIds : entry[v] # Nothing => entry'[v] # Nothing
    BY <1>3, NoObjectAssumption DEF EntriesStay
<1>10. \A v \in WorkerIds : ~Awaits(r, v)
    BY <1>1 DEF CallsInv
<1>11. \A v \in WorkerIds : /\ r \in waiters'[v] <=> v = w /\ ~StopsAtOnce(entry[w])
                            /\ <<v, r>> \in finishing' <=> v = w /\ StopsAtOnce(entry[w])
    BY <1>2, <1>3, <1>4, <1>10 DEF Awaits
<1>12. \A q \in Calls, v \in WorkerIds :
           q # r => /\ q \in waiters'[v] <=> q \in waiters[v]
                    /\ <<v, q>> \in finishing' <=> <<v, q>> \in finishing
    <2>1. \A q \in Calls : q \in Callers
        BY DEF Callers
    <2> QED
        BY <1>3, <2>1
<1>13. CallsInv'
    <2> SUFFICES ASSUME NEW q \in Calls
                 PROVE  /\ call'[q].pc # "idle" =>
                              call'[q].tenant \in Tenants /\ call'[q].controller \in Controllers
                        /\ call'[q].pc = "probing" => call'[q].port \in Ports
                        /\ call'[q].pc \in {"mkdir", "polling"} =>
                              call'[q].worker \in WorkerIds /\ entry'[call'[q].worker] # Nothing
                        /\ \A v \in WorkerIds : Awaits(q, v)' =>
                              /\ call'[q].pc = "stopping"
                              /\ ~(q \in waiters'[v] /\ <<v, q>> \in finishing')
                              /\ \A u \in WorkerIds : Awaits(q, u)' => u = v
        BY DEF CallsInv
    <2>1. CASE q = r
        BY <1>6, <1>7, <1>8, <1>11, <2>1 DEF Awaits
    <2>2. CASE q # r
        <3>1. call'[q] = call[q]
            BY <1>7, <1>8, <2>2
        <3>2. \A v \in WorkerIds : Awaits(q, v)' <=> Awaits(q, v)
            BY <1>12, <2>2 DEF Awaits
        <3> QED
            BY <1>1, <1>9, <1>12, <2>2, <3>1, <3>2 DEF CallsInv
    <2> QED
        BY <2>1, <2>2
<1>14. \A q \in Calls : call[q].pc = "probing" => call'[q] = call[q]
    BY <1>7, <1>8
<1>15. shutting' \in BOOLEAN /\ awaited' \in SUBSET WorkerIds
    BY <1>1 DEF TypeOK
<1> QED
    BY <1>3, <1>5, <1>8, <1>13, <1>14, <1>15, StaysInv

(* A call that waits for no cleanup takes a step of its own.               *)
LEMMA OneCallInv ==
    ASSUME TypeOK, CallsInv, NEW r \in Calls, NEW a \in CallRecord, call[r].pc # "stopping",
           call' = [call EXCEPT ![r] = a], UNCHANGED <<waiters, finishing>>,
           a.pc # "idle" => a.tenant \in Tenants /\ a.controller \in Controllers,
           a.pc = "probing" => a.port \in Ports,
           a.pc \in {"mkdir", "polling"} => a.worker \in WorkerIds /\ entry'[a.worker] # Nothing,
           \A w \in WorkerIds : entry[w] # Nothing => entry'[w] # Nothing
    PROVE  call' \in [Calls -> CallRecord] /\ CallsInv'
<1>1. call \in [Calls -> CallRecord]
    BY DEF TypeOK, CallRecord
<1>2. call' \in [Calls -> CallRecord]
    BY <1>1
<1>3. \A w \in WorkerIds : ~Awaits(r, w)
    BY DEF CallsInv
<1>4. \A q \in Calls, w \in WorkerIds : Awaits(q, w)' <=> Awaits(q, w)
    BY DEF Awaits
<1>5. ASSUME NEW q \in Calls
      PROVE  /\ call'[q].pc # "idle" =>
                   call'[q].tenant \in Tenants /\ call'[q].controller \in Controllers
             /\ call'[q].pc = "probing" => call'[q].port \in Ports
             /\ call'[q].pc \in {"mkdir", "polling"} =>
                   call'[q].worker \in WorkerIds /\ entry'[call'[q].worker] # Nothing
             /\ \A v \in WorkerIds : Awaits(q, v)' =>
                   /\ call'[q].pc = "stopping"
                   /\ ~(q \in waiters'[v] /\ <<v, q>> \in finishing')
                   /\ \A u \in WorkerIds : Awaits(q, u)' => u = v
    <2>1. CASE q = r
        BY <1>1, <1>3, <1>4, <2>1
    <2>2. CASE q # r
        <3>1. call'[q] = call[q]
            BY <1>1, <2>2
        <3> QED
            BY <1>4, <3>1 DEF CallsInv
    <2> QED
        BY <2>1, <2>2
<1> QED
    BY <1>2, <1>5 DEF CallsInv

(* ... and changes no more than entries and leases.                        *)
LEMMA CallStepInv ==
    ASSUME PoolInv, HistoryStays, NEW r \in Calls, NEW a \in CallRecord,
           call[r].pc \notin {"stopping", "probing"},
           call' = [call EXCEPT ![r] = a], EntriesStay,
           lease' \in [Tenants -> Lease \cup {Nothing}],
           UNCHANGED <<workers, mapping, ports, waiters, finishing, shutting, awaited>>,
           a.pc # "idle" => a.tenant \in Tenants /\ a.controller \in Controllers,
           a.pc # "probing",
           a.pc \in {"mkdir", "polling"} => a.worker \in WorkerIds /\ entry[a.worker] # Nothing
    PROVE  PoolInv'
<1>1. TypeOK /\ MadeInv /\ CallsInv
    BY DEF PoolInv
<1>2. \A w \in WorkerIds : entry[w] # Nothing => entry'[w] # Nothing
    BY NoObjectAssumption DEF EntriesStay
<1>3. call' \in [Calls -> CallRecord] /\ CallsInv'
    BY <1>1, <1>2, OneCallInv
<1>4. \A q \in Calls : call[q].pc = "probing" => call'[q] = call[q]
    BY <1>1 DEF TypeOK
<1>5. /\ shutting' \in BOOLEAN /\ awaited' \in SUBSET WorkerIds
      /\ waiters' \in [WorkerIds -> SUBSET Callers]
      /\ finishing' \in SUBSET (WorkerIds \X Callers)
    BY <1>1 DEF TypeOK
<1>6. /\ \A w \in WorkerIds : waiters'[w] # {} => entry[w] # Nothing
      /\ \A w \in WorkerIds, by \in Callers : <<w, by>> \in finishing' => entry[w] # Nothing
    BY <1>1 DEF MadeInv
<1> QED
    BY <1>3, <1>4, <1>5, <1>6, StaysInv

(* A call that is not under way is idle.                                   *)
LEMMA NoCallFacts == NoCall \in CallRecord /\ NoCall.pc = "idle"
BY DEF NoCall, CallRecord

(* A lease that is granted is one.                                         *)
LEMMA GrantedType ==
    ASSUME TypeOK, NEW t \in Tenants, NEW c \in Controllers, NEW w \in WorkerIds
    PROVE  Granted(t, c, w) \in [Tenants -> Lease \cup {Nothing}]
<1>1. lease \in [Tenants -> Lease \cup {Nothing}]
    BY DEF TypeOK
<1>2. CASE lease[t] # Nothing /\ lease[t].controller = c
    <2>1. [lease[t] EXCEPT !.over = FALSE] \in Lease
        BY <1>1, <1>2 DEF Lease
    <2>2. Granted(t, c, w) = [lease EXCEPT ![t] = [lease[t] EXCEPT !.over = FALSE]]
        BY <1>2 DEF Granted
    <2> QED
        BY <1>1, <2>1, <2>2
<1>3. CASE ~(lease[t] # Nothing /\ lease[t].controller = c)
    <2>1. [controller |-> c, worker |-> w, status |-> "active", over |-> FALSE] \in Lease
        BY DEF Lease
    <2>2. Granted(t, c, w) = [lease EXCEPT ![t] = [controller |-> c, worker |-> w,
                                                   status |-> "active", over |-> FALSE]]
        BY <1>3 DEF Granted
    <2> QED
        BY <1>1, <2>1, <2>2
<1> QED
    BY <1>2, <1>3

(* A worker that is used loses its idle timer, and nothing else.           *)
LEMMA UsedStays ==
    ASSUME TypeOK, NEW w \in WorkerIds, entry[w] # Nothing, entry' = Used(w)
    PROVE  EntriesStay
<1> DEFINE e == [entry[w] EXCEPT !.idle = FALSE]
<1>1. entry[w] \in Entry
    BY DEF TypeOK
<1>2. e \in Entry /\ e.tenant = entry[w].tenant /\ e.port = entry[w].port
    BY <1>1 DEF Entry
<1>3. entry' = [entry EXCEPT ![w] = e]
    BY DEF Used
<1> HIDE DEF e
<1> QED
    BY <1>2, <1>3, OneEntry

(* acquireForTenant keeps the invariant, whichever way it goes.            *)
LEMMA AcquireInv ==
    ASSUME PoolInv, HistoryStays, NEW r \in Calls, NEW t \in Tenants, NEW c \in Controllers,
           AcquireForTenant(r, t, c)
    PROVE  PoolInv'
<1> DEFINE w == mapping[t]
<1>1. TypeOK /\ MadeInv /\ CallsInv
    BY DEF PoolInv
<1>2. /\ call[r].pc = "idle"
      /\ UNCHANGED <<workers, mapping, ports, shutting, awaited>>
    BY DEF AcquireForTenant
<1>3. CASE /\ w \in workers
           /\ lease' = Granted(t, c, w)
           /\ entry' = Used(w)
           /\ UNCHANGED <<call, waiters, finishing, crossed>>
    <2>1. w \in WorkerIds /\ entry[w] # Nothing
        BY <1>1, <1>3 DEF TypeOK, MadeInv
    <2>2. EntriesStay
        BY <1>1, <1>3, <2>1, UsedStays
    <2>3. lease' \in [Tenants -> Lease \cup {Nothing}]
        BY <1>1, <1>3, <2>1, GrantedType
    <2> QED
        BY <1>2, <1>3, <2>2, <2>3, QuietInv
<1>4. CASE /\ w \in workers
           /\ CleanupWorkers({w}, r)
           /\ call' = [call EXCEPT ![r] =
                  [NoCall EXCEPT !.pc = "stopping", !.tenant = t, !.controller = c]]
    BY <1>2, <1>4, CleanupForCallInv
<1>5. CASE /\ call' = [call EXCEPT ![r] =
                  [NoCall EXCEPT !.pc = "create", !.tenant = t, !.controller = c]]
           /\ UNCHANGED <<lease, entry, waiters, finishing>>
    <2> DEFINE a == [NoCall EXCEPT !.pc = "create", !.tenant = t, !.controller = c]
    <2>1. a \in CallRecord /\ a.pc = "create" /\ a.tenant = t /\ a.controller = c
        BY DEF NoCall, CallRecord
    <2>2. call' = [call EXCEPT ![r] = a]
        BY <1>5
    <2> HIDE DEF a
    <2>3. EntriesStay /\ lease' \in [Tenants -> Lease \cup {Nothing}]
        BY <1>1, <1>5 DEF EntriesStay, TypeOK
    <2> QED
        BY <1>2, <1>5, <2>1, <2>2, <2>3, CallStepInv
<1> QED
    BY <1>3, <1>4, <1>5 DEF AcquireForTenant

(* A set of ports that is not empty has a lowest port.                     *)
LEMMA LowestPort ==
    ASSUME NEW S \in SUBSET Nat, S # {}
    PROVE  Lowest(S) \in S
<1> DEFINE R == {ss \in Nat \X Nat : ss[1] < ss[2]}
<1>1. IsWellFoundedOn(R, Nat)
    BY NatLessThanWellFounded DEF OpToRel
<1> HIDE DEF R
<1>2. PICK p \in S : \A q \in S : ~(<<q, p>> \in R)
    BY <1>1, WFMin
<1>3. ASSUME NEW q \in S
      PROVE  p <= q
    <2>1. p \in Nat /\ q \in Nat
        OBVIOUS
    <2>2. ~(q < p)
        BY <1>2, <2>1, <<q, p>> \in Nat \X Nat, <<q, p>>[1] = q, <<q, p>>[2] = p DEF R
    <2> QED
        BY <2>1, <2>2
<1> QED
    BY <1>3 DEF Lowest

(* The ports that are free are ports, and are not reserved.                *)
LEMMA FreePortFacts ==
    ASSUME NEW from \in Nat, FreePorts(from) # {}
    PROVE  Lowest(FreePorts(from)) \in Ports
<1>1. FreePorts(from) \in SUBSET Nat /\ FreePorts(from) \subseteq Ports
    BY PortsAssumption DEF FreePorts, Ports
<1> QED
    BY <1>1, LowestPort

(* createWorker keeps the invariant: a port that is reserved is probed.    *)
LEMMA CreateInv ==
    ASSUME PoolInv, HistoryStays, NEW r \in Calls, CreateWorker(r)
    PROVE  PoolInv'
<1>1. TypeOK /\ MadeInv /\ CallsInv
    BY DEF PoolInv
<1>2. /\ call[r].pc = "create"
      /\ UNCHANGED <<workers, mapping, lease, entry, waiters, finishing, shutting, awaited>>
    BY DEF CreateWorker
<1>3. EntriesStay /\ lease' \in [Tenants -> Lease \cup {Nothing}]
    BY <1>1, <1>2 DEF EntriesStay, TypeOK
<1>4. CASE LimitReached \/ FreePorts(MinPort) = {}
    <2>1. call' = [call EXCEPT ![r] = NoCall] /\ ports' = ports
        BY <1>4 DEF CreateWorker
    <2> QED
        BY <1>2, <1>3, <2>1, NoCallFacts, CallStepInv
<1>5. CASE ~(LimitReached \/ FreePorts(MinPort) = {})
    <2> DEFINE p == Lowest(FreePorts(MinPort))
               a == [call[r] EXCEPT !.pc = "probing", !.port = p]
    <2>1. p \in Ports
        BY <1>5, FreePortFacts, PortsAssumption
    <2> HIDE DEF p
    <2>2. call' = [call EXCEPT ![r] = a] /\ ports' = ports \cup {p}
        BY <1>5 DEF CreateWorker, p
    <2>3. call[r] \in CallRecord /\ call[r].tenant \in Tenants /\ call[r].controller \in Controllers
        BY <1>1, <1>2 DEF TypeOK, CallRecord, CallsInv
    <2>4. /\ a \in CallRecord /\ a.pc = "probing" /\ a.port = p
          /\ a.tenant = call[r].tenant /\ a.controller = call[r].controller
        BY <2>1, <2>3 DEF CallRecord
    <2> HIDE DEF a
    <2>5. call' \in [Calls -> CallRecord] /\ CallsInv'
        BY <1>1, <1>2, <2>1, <2>2, <2>3, <2>4, OneCallInv
    <2>6. TypeOK'
        BY <1>1, <1>2, <2>1, <2>2, <2>5 DEF TypeOK, CallRecord, HistoryStays
    <2>7. MadeInv' /\ MappingIsKnown'
        BY <1>2 DEF PoolInv, MadeInv, MappingIsKnown
    <2>8. call'[r] = a /\ \A q \in Calls : q # r => call'[q] = call[q]
        BY <1>1, <2>2 DEF TypeOK
    <2>9. ReservedPortsAreOwned'
        <3> SUFFICES ASSUME NEW x \in ports'
                     PROVE  \/ \E w \in workers : entry[w].port = x
                            \/ \E q \in Calls : call'[q].pc = "probing" /\ call'[q].port = x
                            \/ x \in lost'
            BY <1>2 DEF ReservedPortsAreOwned
        <3>1. CASE x = p
            BY <2>4, <2>8, <3>1
        <3>2. CASE x # p
            <4>1. x \in ports
                BY <2>2, <3>2
            <4>2. \A q \in Calls : call[q].pc = "probing" => q # r
                BY <1>2
            <4> QED
                BY <2>8, <4>1, <4>2 DEF PoolInv, ReservedPortsAreOwned, HistoryStays
        <3> QED
            BY <3>1, <3>2
    <2> QED
        BY <2>5, <2>6, <2>7, <2>9 DEF PoolInv
<1> QED
    BY <1>4, <1>5

(* A port that is taken is given back, and the next one reserved.          *)
LEMMA PortTakenInv ==
    ASSUME PoolInv, HistoryStays, NEW r \in Calls, PortTaken(r)
    PROVE  PoolInv'
<1> DEFINE p == call[r].port
           left == FreePorts(p + 1)
<1>1. TypeOK /\ MadeInv /\ CallsInv
    BY DEF PoolInv
<1>2. /\ call[r].pc = "probing"
      /\ UNCHANGED <<workers, mapping, lease, entry, waiters, finishing, shutting, awaited>>
    BY DEF PortTaken
<1>3. /\ call[r] \in CallRecord /\ call[r].tenant \in Tenants
      /\ call[r].controller \in Controllers /\ p \in Ports /\ p + 1 \in Nat
    BY <1>1, <1>2, PortsAssumption DEF TypeOK, CallRecord, CallsInv, Ports
<1>4. PICK a \in CallRecord :
          /\ call' = [call EXCEPT ![r] = a]
          /\ ports' \subseteq Ports
          /\ \/ a.pc = "idle" /\ ports' = ports \ {p}
             \/ /\ a.pc = "probing" /\ a.port \in Ports
                /\ a.tenant = call[r].tenant /\ a.controller = call[r].controller
                /\ ports' = (ports \ {p}) \cup {a.port}
    <2>1. CASE left = {}
        <3>1. call' = [call EXCEPT ![r] = NoCall] /\ ports' = ports \ {p}
            BY <2>1 DEF PortTaken
        <3> QED
            BY <1>1, <3>1, NoCallFacts DEF TypeOK
    <2>2. CASE left # {}
        <3> DEFINE n == Lowest(left)
                   a == [call[r] EXCEPT !.port = n]
        <3>1. n \in Ports
            BY <1>3, <2>2, FreePortFacts
        <3> HIDE DEF n
        <3>2. call' = [call EXCEPT ![r] = a] /\ ports' = (ports \ {p}) \cup {n}
            BY <2>2 DEF PortTaken, n
        <3>3. /\ a \in CallRecord /\ a.pc = "probing" /\ a.port = n
              /\ a.tenant = call[r].tenant /\ a.controller = call[r].controller
            BY <1>2, <1>3, <3>1 DEF CallRecord
        <3>4. ports' \subseteq Ports
            BY <1>1, <3>1, <3>2 DEF TypeOK
        <3> HIDE DEF a
        <3> QED
            BY <3>1, <3>2, <3>3, <3>4
    <2> QED
        BY <2>1, <2>2
<1>5. call' \in [Calls -> CallRecord] /\ CallsInv'
    BY <1>1, <1>2, <1>3, <1>4, OneCallInv
<1>6. TypeOK'
    BY <1>1, <1>2, <1>4, <1>5 DEF TypeOK, CallRecord, HistoryStays
<1>7. MadeInv' /\ MappingIsKnown'
    BY <1>2 DEF PoolInv, MadeInv, MappingIsKnown
<1>8. call'[r] = a /\ \A q \in Calls : q # r => call'[q] = call[q]
    BY <1>1, <1>4 DEF TypeOK
<1>9. ReservedPortsAreOwned'
    <2> SUFFICES ASSUME NEW x \in ports'
                 PROVE  \/ \E w \in workers : entry[w].port = x
                        \/ \E q \in Calls : call'[q].pc = "probing" /\ call'[q].port = x
                        \/ x \in lost'
        BY <1>2 DEF ReservedPortsAreOwned
    <2>1. CASE a.pc = "probing" /\ x = a.port
        BY <1>8, <2>1
    <2>2. CASE x \in ports /\ x # p
        <3>1. \A q \in Calls : call[q].port = x => q # r
            BY <2>2
        <3> QED
            BY <1>8, <2>2, <3>1 DEF PoolInv, ReservedPortsAreOwned, HistoryStays
    <2> QED
        BY <1>4, <2>1, <2>2
<1> QED
    BY <1>5, <1>6, <1>7, <1>9 DEF PoolInv

(* A worker that is new takes the port over from its call.                 *)
LEMMA PortAvailableInv ==
    ASSUME PoolInv, HistoryStays, NEW r \in Calls, NEW w \in WorkerIds, PortAvailable(r, w)
    PROVE  PoolInv'
<1> DEFINE t == call[r].tenant
           p == call[r].port
           a == [call[r] EXCEPT !.pc = "mkdir", !.worker = w]
           e == NewEntry(t, p)
<1>1. /\ TypeOK /\ MadeInv /\ CallsInv /\ MappingIsKnown /\ ReservedPortsAreOwned
      /\ call \in [Calls -> CallRecord]
    BY DEF PoolInv, TypeOK, CallRecord
<1>2. /\ call[r].pc = "probing" /\ entry[w] = Nothing
      /\ entry' = [entry EXCEPT ![w] = e]
      /\ workers' = workers \cup {w} /\ mapping' = [mapping EXCEPT ![t] = w]
      /\ call' = [call EXCEPT ![r] = a]
      /\ UNCHANGED <<ports, lease, waiters, finishing, shutting, awaited>>
    BY DEF PortAvailable
<1>3. t \in Tenants /\ p \in Ports /\ call[r].controller \in Controllers
    BY <1>1, <1>2 DEF CallsInv
<1>4. e \in Entry /\ e.tenant = t /\ e.port = p
    BY <1>3 DEF Entry, NewEntry
<1>5. /\ a \in CallRecord /\ a.pc = "mkdir" /\ a.worker = w
      /\ a.tenant = t /\ a.controller = call[r].controller
    BY <1>1 DEF CallRecord
<1> HIDE DEF a, e
<1>6. /\ entry' \in [WorkerIds -> Entry \cup {Nothing}] /\ entry'[w] = e
      /\ \A v \in WorkerIds : entry[v] # Nothing => entry'[v] = entry[v]
    BY <1>1, <1>2, <1>4 DEF TypeOK
<1>7. entry'[w] # Nothing
    BY <1>4, <1>6, NoObjectAssumption
<1>8. call' \in [Calls -> CallRecord] /\ CallsInv'
    BY <1>1, <1>2, <1>3, <1>5, <1>6, <1>7, OneCallInv
<1>9. TypeOK'
    BY <1>1, <1>2, <1>3, <1>6, <1>8 DEF TypeOK, CallRecord, HistoryStays
<1>10. MadeInv'
    BY <1>1, <1>2, <1>6, <1>7 DEF MadeInv, TypeOK
<1>11. MappingIsKnown'
    <2> SUFFICES ASSUME NEW u \in Tenants, mapping'[u] # Nothing
                 PROVE  mapping'[u] \in workers' /\ entry'[mapping'[u]].tenant = u
        BY DEF MappingIsKnown
    <2>1. CASE u = t
        BY <1>1, <1>2, <1>3, <1>4, <1>6, <2>1 DEF TypeOK
    <2>2. CASE u # t
        <3>1. mapping'[u] = mapping[u]
            BY <1>1, <1>2, <2>2 DEF TypeOK
        <3>2. mapping[u] \in workers /\ entry[mapping[u]].tenant = u
            BY <1>1, <3>1 DEF MappingIsKnown
        <3>3. entry'[mapping[u]] = entry[mapping[u]]
            BY <1>1, <1>6, <3>2 DEF MadeInv, TypeOK
        <3> QED
            BY <1>2, <3>1, <3>2, <3>3
    <2> QED
        BY <2>1, <2>2
<1>12. ReservedPortsAreOwned'
    <2> SUFFICES ASSUME NEW x \in ports
                 PROVE  \/ \E v \in workers' : entry'[v].port = x
                        \/ \E q \in Calls : call'[q].pc = "probing" /\ call'[q].port = x
                        \/ x \in lost'
        BY <1>2 DEF ReservedPortsAreOwned
    <2>1. CASE \E v \in workers : entry[v].port = x
        BY <1>1, <1>2, <1>6, <2>1 DEF MadeInv, TypeOK
    <2>2. CASE \E q \in Calls : call[q].pc = "probing" /\ call[q].port = x
        <3>1. PICK q \in Calls : call[q].pc = "probing" /\ call[q].port = x
            BY <2>2
        <3>2. CASE q = r
            BY <1>2, <1>4, <1>6, <3>1, <3>2
        <3>3. CASE q # r
            BY <1>1, <1>2, <3>1, <3>3
        <3> QED
            BY <3>2, <3>3
    <2> QED
        BY <1>1, <2>1, <2>2 DEF ReservedPortsAreOwned, HistoryStays
<1> QED
    BY <1>8, <1>9, <1>10, <1>11, <1>12 DEF PoolInv

(* The port of a worker that cannot be made stays reserved, and is lost.   *)
LEMMA ChromeNotFoundInv ==
    ASSUME PoolInv, HistoryStays, NEW r \in Calls, ChromeNotFound(r)
    PROVE  PoolInv'
<1>1. TypeOK /\ MadeInv /\ CallsInv
    BY DEF PoolInv
<1>2. /\ call[r].pc = "probing" /\ lost' = lost \cup {call[r].port}
      /\ call' = [call EXCEPT ![r] = NoCall]
      /\ UNCHANGED <<workers, mapping, ports, lease, entry, waiters, finishing, shutting, awaited>>
    BY DEF ChromeNotFound
<1>3. call' \in [Calls -> CallRecord] /\ CallsInv'
    BY <1>1, <1>2, NoCallFacts, OneCallInv
<1>4. TypeOK'
    BY <1>1, <1>2, <1>3 DEF TypeOK, CallRecord, HistoryStays
<1>5. MadeInv' /\ MappingIsKnown'
    BY <1>2 DEF PoolInv, MadeInv, MappingIsKnown
<1>6. \A q \in Calls : q # r => call'[q] = call[q]
    BY <1>1, <1>2 DEF TypeOK
<1>7. ReservedPortsAreOwned'
    BY <1>2, <1>6 DEF PoolInv, ReservedPortsAreOwned
<1> QED
    BY <1>3, <1>4, <1>5, <1>7 DEF PoolInv

(* Chrome is spawned, or is not: the call goes on to the polling.          *)
LEMMA SpawnInv ==
    ASSUME PoolInv, HistoryStays, NEW r \in Calls, Spawn(r) \/ SpawnError(r)
    PROVE  PoolInv'
<1> DEFINE w == call[r].worker
           a == [call[r] EXCEPT !.pc = "polling"]
           e1 == [entry[w] EXCEPT !.attached = TRUE, !.chrome = "launching"]
           e2 == [entry[w] EXCEPT !.process = "crashed", !.chrome = "gone"]
<1>1. TypeOK /\ MadeInv /\ CallsInv /\ call \in [Calls -> CallRecord]
    BY DEF PoolInv, TypeOK, CallRecord
<1>2. /\ call[r].pc = "mkdir"
      /\ \/ entry' = [entry EXCEPT ![w] = e1]
         \/ entry' = [entry EXCEPT ![w] = e2]
      /\ call' = [call EXCEPT ![r] = a]
      /\ UNCHANGED <<workers, mapping, ports, lease, waiters, finishing, shutting, awaited>>
    BY DEF Spawn, SpawnError
<1>3. w \in WorkerIds /\ entry[w] # Nothing /\ entry[w] \in Entry
    BY <1>1, <1>2 DEF CallsInv, TypeOK
<1>4. e1 \in Entry /\ e1.tenant = entry[w].tenant /\ e1.port = entry[w].port
    BY <1>3 DEF Entry
<1>5. e2 \in Entry /\ e2.tenant = entry[w].tenant /\ e2.port = entry[w].port
    BY <1>3 DEF Entry
<1>6. /\ a \in CallRecord /\ a.pc = "polling" /\ a.worker = w
      /\ a.tenant = call[r].tenant /\ a.controller = call[r].controller
    BY <1>1 DEF CallRecord
<1> HIDE DEF a, e1, e2
<1>7. EntriesStay
    BY <1>1, <1>2, <1>3, <1>4, <1>5, OneEntry
<1>8. lease' \in [Tenants -> Lease \cup {Nothing}]
    BY <1>1, <1>2 DEF TypeOK
<1>9. call[r].tenant \in Tenants /\ call[r].controller \in Controllers
    BY <1>1, <1>2 DEF CallsInv
<1> QED
    BY <1>2, <1>3, <1>6, <1>7, <1>8, <1>9, CallStepInv

(* What a start that succeeds does to its entry.                           *)
LEMMA StartedFacts ==
    ASSUME NEW e \in Entry
    PROVE  /\ Started(e) \in Entry
           /\ Started(e).tenant = e.tenant /\ Started(e).port = e.port
           /\ Started(e).state = "running" /\ Started(e).process = "running"
           /\ Started(e).attached = e.attached /\ Started(e).chrome = e.chrome
           /\ Started(e).killed = e.killed /\ Started(e).idle = e.idle
BY DEF Started, Entry

(* A worker that has started is leased to the caller, if it can be.        *)
LEMMA StartSucceedsInv ==
    ASSUME PoolInv, HistoryStays, NEW r \in Calls, StartSucceeds(r)
    PROVE  PoolInv'
<1> DEFINE w == call[r].worker
           t == call[r].tenant
           c == call[r].controller
<1>1. TypeOK /\ MadeInv /\ CallsInv
    BY DEF PoolInv
<1>2. /\ call[r].pc = "polling"
      /\ entry' = [entry EXCEPT ![w] = Started(entry[w])]
      /\ lease' = IF Grants(t, c) THEN Granted(t, c, w) ELSE lease
      /\ call' = [call EXCEPT ![r] = NoCall]
      /\ UNCHANGED <<workers, mapping, ports, waiters, finishing, shutting, awaited>>
    BY DEF StartSucceeds
<1>3. /\ w \in WorkerIds /\ entry[w] # Nothing /\ entry[w] \in Entry
      /\ t \in Tenants /\ c \in Controllers
    BY <1>1, <1>2 DEF CallsInv, TypeOK
<1>4. EntriesStay
    <2>1. /\ Started(entry[w]) \in Entry
          /\ Started(entry[w]).tenant = entry[w].tenant
          /\ Started(entry[w]).port = entry[w].port
        BY <1>3, StartedFacts
    <2> QED
        BY <1>1, <1>2, <1>3, <2>1, OneEntry
<1>5. lease' \in [Tenants -> Lease \cup {Nothing}]
    <2>1. Granted(t, c, w) \in [Tenants -> Lease \cup {Nothing}]
        BY <1>1, <1>3, GrantedType
    <2> QED
        BY <1>1, <1>2, <2>1 DEF TypeOK
<1> QED
    BY <1>2, <1>4, <1>5, NoCallFacts, CallStepInv

(* A worker that leaves the pool takes its port and its mapping along, and *)
(* leaves those of the other workers.                                      *)
LEMMA LeavesInv ==
    ASSUME TypeOK, MadeInv, MappingIsKnown, ReservedPortsAreOwned, HistoryStays,
           NEW w \in WorkerIds, entry[w] # Nothing, EntriesStay,
           workers' = Unlisted(w), mapping' = Unmapped(entry[w].tenant),
           ports' = Released(entry[w].port),
           \A r \in Calls : call[r].pc = "probing" => call'[r] = call[r]
    PROVE  /\ workers' \subseteq WorkerIds /\ ports' \subseteq Ports
           /\ mapping' \in [Tenants -> WorkerIds \cup {Nothing}]
           /\ \A v \in workers' : entry'[v] # Nothing
           /\ MappingIsKnown' /\ ReservedPortsAreOwned'
<1>1. entry[w] \in Entry /\ entry[w].tenant \in Tenants
    BY DEF TypeOK, Entry
<1>2. /\ workers' = workers \ {w} /\ ports' = ports \ {entry[w].port}
      /\ mapping' = [mapping EXCEPT ![entry[w].tenant] = Nothing]
    BY DEF Unlisted, Released, Unmapped
<1>3. /\ workers' \subseteq WorkerIds /\ ports' \subseteq Ports
      /\ mapping' \in [Tenants -> WorkerIds \cup {Nothing}]
    BY <1>1, <1>2 DEF TypeOK
<1>4. \A v \in WorkerIds : entry[v] # Nothing => /\ entry'[v] # Nothing
                                                  /\ entry'[v].tenant = entry[v].tenant
                                                  /\ entry'[v].port = entry[v].port
    BY NoObjectAssumption DEF EntriesStay
<1>5. \A v \in workers : v \in WorkerIds /\ entry[v] # Nothing
    BY DEF MadeInv, TypeOK
<1>6. MappingIsKnown'
    <2> SUFFICES ASSUME NEW u \in Tenants, mapping'[u] # Nothing
                 PROVE  mapping'[u] \in workers' /\ entry'[mapping'[u]].tenant = u
        BY DEF MappingIsKnown
    <2>1. u # entry[w].tenant /\ mapping'[u] = mapping[u]
        BY <1>1, <1>2 DEF TypeOK
    <2>2. mapping[u] \in workers /\ entry[mapping[u]].tenant = u
        BY <2>1 DEF MappingIsKnown
    <2>3. mapping[u] # w
        BY <2>1, <2>2
    <2> QED
        BY <1>2, <1>4, <1>5, <2>1, <2>2, <2>3
<1>7. ReservedPortsAreOwned'
    <2> SUFFICES ASSUME NEW x \in ports, x # entry[w].port
                 PROVE  \/ \E v \in workers' : entry'[v].port = x
                        \/ \E q \in Calls : call'[q].pc = "probing" /\ call'[q].port = x
                        \/ x \in lost'
        BY <1>2 DEF ReservedPortsAreOwned
    <2>1. CASE \E v \in workers : entry[v].port = x
        <3>1. PICK v \in workers : entry[v].port = x
            BY <2>1
        <3>2. v \in workers' /\ entry'[v].port = x
            BY <1>2, <1>4, <1>5, <3>1
        <3> QED
            BY <3>2
    <2>2. CASE \E q \in Calls : call[q].pc = "probing" /\ call[q].port = x
        BY <2>2
    <2> QED
        BY <2>1, <2>2 DEF ReservedPortsAreOwned, HistoryStays
<1>8. \A v \in workers' : entry'[v] # Nothing
    BY <1>2, <1>4, <1>5
<1> QED
    BY <1>3, <1>6, <1>7, <1>8

(* A start that fails takes its worker back.                               *)
LEMMA NotStartedFacts ==
    ASSUME NEW e \in Entry
    PROVE  /\ NotStarted(e) \in Entry
           /\ NotStarted(e).tenant = e.tenant /\ NotStarted(e).port = e.port
           /\ NotStarted(e).attached = FALSE
           /\ NotStarted(e).chrome = IF e.attached THEN "gone" ELSE e.chrome
           /\ NotStarted(e).killed = e.killed
           /\ NotStarted(e).idle = e.idle
<1>1. CASE e.attached
    <2>1. NotStarted(e) = [e EXCEPT !.process = "crashed", !.attached = FALSE, !.chrome = "gone"]
        BY <1>1 DEF NotStarted
    <2> QED
        BY <1>1, <2>1 DEF Entry
<1>2. CASE ~e.attached
    <2>1. NotStarted(e) = [e EXCEPT !.process = "crashed", !.attached = FALSE, !.chrome = @]
        BY <1>2 DEF NotStarted
    <2> QED
        BY <1>2, <2>1 DEF Entry
<1> QED
    BY <1>1, <1>2

(* A start that fails keeps the invariant.                                 *)
LEMMA StartFailsInv ==
    ASSUME PoolInv, HistoryStays, NEW r \in Calls, StartFails(r)
    PROVE  PoolInv'
<1> DEFINE w == call[r].worker
<1>1. TypeOK /\ MadeInv /\ CallsInv /\ MappingIsKnown /\ ReservedPortsAreOwned
    BY DEF PoolInv
<1>2. /\ call[r].pc \in {"mkdir", "polling"}
      /\ entry' = [entry EXCEPT ![w] = NotStarted(entry[w])]
      /\ waiters' = [waiters EXCEPT ![w] = {}]
      /\ workers' = Unlisted(w) /\ mapping' = Unmapped(entry[w].tenant)
      /\ ports' = Released(entry[w].port)
      /\ call' = [call EXCEPT ![r] = NoCall]
      /\ UNCHANGED <<lease, finishing, shutting, awaited>>
    BY DEF StartFails
<1>3. w \in WorkerIds /\ entry[w] # Nothing /\ entry[w] \in Entry
    BY <1>1, <1>2 DEF CallsInv, TypeOK
<1>4. EntriesStay
    <2>1. /\ NotStarted(entry[w]) \in Entry
          /\ NotStarted(entry[w]).tenant = entry[w].tenant
          /\ NotStarted(entry[w]).port = entry[w].port
        BY <1>3, NotStartedFacts
    <2> QED
        BY <1>1, <1>2, <1>3, <2>1, OneEntry
<1>5. call \in [Calls -> CallRecord] /\ call' \in [Calls -> CallRecord]
    BY <1>1, <1>2, NoCallFacts DEF TypeOK, CallRecord
<1>6. \A q \in Calls : call[q].pc = "probing" => call'[q] = call[q]
    BY <1>2, <1>5
<1>7. /\ workers' \subseteq WorkerIds /\ ports' \subseteq Ports
      /\ mapping' \in [Tenants -> WorkerIds \cup {Nothing}]
      /\ \A v \in workers' : entry'[v] # Nothing
      /\ MappingIsKnown' /\ ReservedPortsAreOwned'
    BY <1>1, <1>2, <1>3, <1>4, <1>6, LeavesInv
<1>8. /\ waiters' \in [WorkerIds -> SUBSET Callers]
      /\ \A v \in WorkerIds : waiters'[v] \subseteq waiters[v]
    BY <1>1, <1>2 DEF TypeOK
<1>9. TypeOK'
    BY <1>1, <1>2, <1>4, <1>5, <1>7, <1>8 DEF TypeOK, CallRecord, HistoryStays, EntriesStay
<1>10. \A v \in WorkerIds : entry[v] # Nothing => entry'[v] # Nothing
    BY <1>4, NoObjectAssumption DEF EntriesStay
<1>11. MadeInv'
    BY <1>1, <1>2, <1>7, <1>8, <1>10 DEF MadeInv
<1>12. CallsInv'
    <2>1. \A q \in Calls, v \in WorkerIds : Awaits(q, v)' => Awaits(q, v)
        BY <1>2, <1>8 DEF Awaits
    <2>2. \A q \in Calls, v \in WorkerIds : q \in waiters'[v] => q \in waiters[v]
        BY <1>8
    <2> SUFFICES ASSUME NEW q \in Calls
                 PROVE  /\ call'[q].pc # "idle" =>
                              call'[q].tenant \in Tenants /\ call'[q].controller \in Controllers
                        /\ call'[q].pc = "probing" => call'[q].port \in Ports
                        /\ call'[q].pc \in {"mkdir", "polling"} =>
                              call'[q].worker \in WorkerIds /\ entry'[call'[q].worker] # Nothing
                        /\ \A v \in WorkerIds : Awaits(q, v)' =>
                              /\ call'[q].pc = "stopping"
                              /\ ~(q \in waiters'[v] /\ <<v, q>> \in finishing')
                              /\ \A u \in WorkerIds : Awaits(q, u)' => u = v
        BY DEF CallsInv
    <2>3. CASE q = r
        <3>1. call'[q] = NoCall
            BY <1>2, <1>5, <2>3
        <3>2. \A v \in WorkerIds : ~Awaits(q, v)
            BY <1>1, <1>2, <2>3 DEF CallsInv
        <3> QED
            BY <2>1, <3>1, <3>2, NoCallFacts
    <2>4. CASE q # r
        <3>1. call'[q] = call[q]
            BY <1>2, <1>5, <2>4
        <3> QED
            BY <1>1, <1>2, <1>10, <2>1, <2>2, <3>1 DEF CallsInv
    <2> QED
        BY <2>3, <2>4
<1> QED
    BY <1>1, <1>7, <1>9, <1>11, <1>12 DEF PoolInv

(* A cleanup that ends takes its worker out, and lets its call go on.      *)
LEMMA FinishCleanupInv ==
    ASSUME PoolInv, HistoryStays, NEW w \in WorkerIds, NEW by \in Callers, FinishCleanup(w, by)
    PROVE  PoolInv'
<1> DEFINE e == [entry[w] EXCEPT !.state = "stopped"]
           a == [call[by] EXCEPT !.pc = "create"]
<1>1. TypeOK /\ MadeInv /\ CallsInv /\ MappingIsKnown /\ ReservedPortsAreOwned
    BY DEF PoolInv
<1>2. /\ <<w, by>> \in finishing
      /\ ports' = Released(entry[w].port) /\ workers' = Unlisted(w)
      /\ mapping' = Unmapped(entry[w].tenant)
      /\ entry' = [entry EXCEPT ![w] = e]
      /\ finishing' = finishing \ {<<w, by>>}
      /\ call' = IF by \in Calls THEN [call EXCEPT ![by] = a] ELSE call
      /\ awaited' = IF by = ShutdownCall THEN awaited \ {w} ELSE awaited
      /\ UNCHANGED <<lease, waiters, shutting>>
    BY DEF FinishCleanup
<1>3. entry[w] # Nothing /\ entry[w] \in Entry
    BY <1>1, <1>2 DEF MadeInv, TypeOK
<1>4. EntriesStay
    <2>1. e \in Entry /\ e.tenant = entry[w].tenant /\ e.port = entry[w].port
        BY <1>3 DEF Entry
    <2> HIDE DEF e
    <2> QED
        BY <1>1, <1>2, <1>3, <2>1, OneEntry
<1>5. call \in [Calls -> CallRecord]
    BY <1>1 DEF TypeOK, CallRecord
<1>6. ASSUME by \in Calls
      PROVE  /\ Awaits(by, w) /\ call[by].pc = "stopping"
             /\ a \in CallRecord /\ a.pc = "create"
             /\ a.tenant \in Tenants /\ a.controller \in Controllers
    <2>1. Awaits(by, w) /\ call[by].pc = "stopping"
        BY <1>1, <1>2, <1>6 DEF Awaits, CallsInv
    <2>2. call[by].tenant \in Tenants /\ call[by].controller \in Controllers
        BY <1>1, <1>6, <2>1 DEF CallsInv
    <2> QED
        BY <1>5, <1>6, <2>1, <2>2 DEF CallRecord
<1>7. /\ call' \in [Calls -> CallRecord]
      /\ \A q \in Calls : call'[q] = IF q = by THEN a ELSE call[q]
    BY <1>2, <1>5, <1>6
<1> HIDE DEF e, a
<1>8. \A q \in Calls : call[q].pc = "probing" => call'[q] = call[q]
    BY <1>6, <1>7
<1>9. /\ workers' \subseteq WorkerIds /\ ports' \subseteq Ports
      /\ mapping' \in [Tenants -> WorkerIds \cup {Nothing}]
      /\ \A v \in workers' : entry'[v] # Nothing
      /\ MappingIsKnown' /\ ReservedPortsAreOwned'
    BY <1>1, <1>2, <1>3, <1>4, <1>8, LeavesInv
<1>10. TypeOK'
    BY <1>1, <1>2, <1>4, <1>7, <1>9 DEF TypeOK, CallRecord, HistoryStays, EntriesStay
<1>11. \A v \in WorkerIds : entry[v] # Nothing => entry'[v] # Nothing
    BY <1>4, NoObjectAssumption DEF EntriesStay
<1>12. MadeInv'
    BY <1>1, <1>2, <1>9, <1>11 DEF MadeInv
<1>13. CallsInv'
    <2>1. \A q \in Calls, v \in WorkerIds :
              q # by => (<<v, q>> \in finishing' <=> <<v, q>> \in finishing)
        BY <1>2
    <2>2. ASSUME by \in Calls, NEW v \in WorkerIds
          PROVE  ~Awaits(by, v)'
        <3>1. by \notin waiters[w] /\ (Awaits(by, v) => v = w)
            BY <1>1, <1>2, <1>6, <2>2 DEF CallsInv
        <3> QED
            BY <1>2, <3>1 DEF Awaits
    <2> SUFFICES ASSUME NEW q \in Calls
                 PROVE  /\ call'[q].pc # "idle" =>
                              call'[q].tenant \in Tenants /\ call'[q].controller \in Controllers
                        /\ call'[q].pc = "probing" => call'[q].port \in Ports
                        /\ call'[q].pc \in {"mkdir", "polling"} =>
                              call'[q].worker \in WorkerIds /\ entry'[call'[q].worker] # Nothing
                        /\ \A v \in WorkerIds : Awaits(q, v)' =>
                              /\ call'[q].pc = "stopping"
                              /\ ~(q \in waiters'[v] /\ <<v, q>> \in finishing')
                              /\ \A u \in WorkerIds : Awaits(q, u)' => u = v
        BY DEF CallsInv
    <2>3. CASE q = by
        BY <1>6, <1>7, <2>2, <2>3
    <2>4. CASE q # by
        <3>1. call'[q] = call[q]
            BY <1>7, <2>4
        <3> QED
            BY <1>1, <1>2, <1>11, <2>1, <2>4, <3>1 DEF CallsInv, Awaits
    <2> QED
        BY <2>3, <2>4
<1> QED
    BY <1>9, <1>10, <1>12, <1>13 DEF PoolInv

(* What the exit of a Chrome does to its entry.                            *)
LEMMA ExitEntry ==
    ASSUME TypeOK, NEW w \in WorkerIds, Exit(w)
    PROVE  /\ entry[w] # Nothing
           /\ \E e \in Entry :
                 /\ entry' = [entry EXCEPT ![w] = e]
                 /\ e.tenant = entry[w].tenant /\ e.port = entry[w].port
                 /\ e.attached = FALSE /\ e.chrome = "gone" /\ e.killed = entry[w].killed
                 /\ e.idle => entry[w].idle
                 /\ e.hard => entry[w].hard
                 /\ e.state = entry[w].state \/ e.state = "crashed"
                 /\ \/ e.process = entry[w].process /\ ~entry[w].attached
                    \/ e.process = "stopped" /\ entry[w].process = "stopping"
                    \/ e.process = "stopping" /\ w \in workers
                    \/ e.process = "crashed" /\ w \notin workers
<1> DEFINE e == entry[w]
           asked == e.process = "stopping"
           p == IF asked THEN "stopped" ELSE IF w \in workers THEN "stopping" ELSE "crashed"
           a0 == [e EXCEPT !.attached = FALSE, !.chrome = "gone", !.process = p]
           a1 == [a0 EXCEPT !.state = "crashed", !.idle = FALSE, !.hard = FALSE]
           a2 == [e EXCEPT !.chrome = "gone"]
<1>1. e # Nothing /\ e \in Entry
    BY DEF Exit, Alive, TypeOK
<1>2. p \in {"stopped", "stopping", "crashed"}
    OBVIOUS
<1>3. IF e.attached
      THEN entry' = [entry EXCEPT ![w] = IF w \in workers THEN a1 ELSE a0]
      ELSE entry' = [entry EXCEPT ![w] = a2]
    BY DEF Exit
<1>4. /\ p = "stopped" => asked
      /\ p = "stopping" => w \in workers
      /\ p = "crashed" => w \notin workers
    OBVIOUS
<1> HIDE DEF p
<1>5. /\ a0 \in Entry /\ a0.process = p /\ a0.attached = FALSE /\ a0.chrome = "gone"
      /\ a0.tenant = e.tenant /\ a0.port = e.port /\ a0.killed = e.killed
      /\ a0.idle = e.idle /\ a0.hard = e.hard /\ a0.state = e.state
    BY <1>1, <1>2 DEF Entry
<1>6. /\ a1 \in Entry /\ a1.process = p /\ a1.attached = FALSE /\ a1.chrome = "gone"
      /\ a1.tenant = e.tenant /\ a1.port = e.port /\ a1.killed = e.killed
      /\ a1.idle = FALSE /\ a1.hard = FALSE /\ a1.state = "crashed"
    BY <1>1, <1>2 DEF Entry
<1>7. /\ a2 \in Entry /\ a2.process = e.process /\ a2.attached = e.attached /\ a2.chrome = "gone"
      /\ a2.tenant = e.tenant /\ a2.port = e.port /\ a2.killed = e.killed
      /\ a2.idle = e.idle /\ a2.hard = e.hard /\ a2.state = e.state
    BY <1>1 DEF Entry
<1> HIDE DEF a0, a1, a2
<1>8. CASE e.attached /\ w \in workers
    BY <1>1, <1>2, <1>3, <1>4, <1>6, <1>8
<1>9. CASE e.attached /\ w \notin workers
    BY <1>1, <1>2, <1>3, <1>4, <1>5, <1>9
<1>10. CASE ~e.attached
    <2>1. e.attached \in BOOLEAN
        BY <1>1 DEF Entry
    <2> QED
        BY <1>1, <1>3, <1>7, <1>10, <2>1
<1> QED
    BY <1>8, <1>9, <1>10

(* The exit of a Chrome keeps the invariant: who waited for it goes on.    *)
LEMMA ExitInv ==
    ASSUME PoolInv, HistoryStays, NEW w \in WorkerIds, Exit(w)
    PROVE  PoolInv'
<1>1. TypeOK /\ MadeInv /\ CallsInv
    BY DEF PoolInv
<1>2. EntriesStay /\ entry[w] # Nothing
    BY <1>1, ExitEntry, OneEntry
<1>3. /\ finishing = {} /\ UNCHANGED <<workers, mapping, ports, call, shutting, awaited>>
    BY DEF Exit, Quiet
<1>4. lease' \in [Tenants -> Lease \cup {Nothing}]
    BY <1>1 DEF Exit, Revoked, TypeOK
<1>5. CASE ~entry[w].attached
    <2>1. UNCHANGED <<waiters, finishing>>
        BY <1>5 DEF Exit
    <2> QED
        BY <1>2, <1>3, <1>4, <2>1, QuietInv
<1>6. CASE entry[w].attached
    <2>1. /\ waiters' = [waiters EXCEPT ![w] = {}]
          /\ finishing' = {<<w, by>> : by \in waiters[w]}
                             \cup (IF w \in workers /\ entry[w].process = "stopping"
                                   THEN {<<w, Nothing>>} ELSE {})
        BY <1>6 DEF Exit
    <2>2. waiters \in [WorkerIds -> SUBSET Callers] /\ Nothing \in Callers
        BY <1>1 DEF TypeOK, Callers
    <2>3. waiters' \in [WorkerIds -> SUBSET Callers] /\ finishing' \in SUBSET (WorkerIds \X Callers)
        BY <2>1, <2>2
    <2>4. \A q \in Calls, v \in WorkerIds :
              /\ q \in waiters'[v] <=> v # w /\ q \in waiters[v]
              /\ <<v, q>> \in finishing' <=> v = w /\ q \in waiters[v]
        BY <2>1, <2>2, CallersAssumption
    <2>5. \A v \in WorkerIds : entry[v] # Nothing => entry'[v] # Nothing
        BY <1>2, NoObjectAssumption DEF EntriesStay
    <2>6. CallsInv'
        BY <1>1, <1>3, <2>4, <2>5 DEF CallsInv, Awaits
    <2>7. /\ \A v \in WorkerIds : waiters'[v] # {} => entry[v] # Nothing
          /\ \A v \in WorkerIds, by \in Callers : <<v, by>> \in finishing' => entry[v] # Nothing
        BY <1>1, <1>2, <2>1, <2>2 DEF MadeInv
    <2>8. call' \in [Calls -> CallRecord] /\ shutting' \in BOOLEAN /\ awaited' \in SUBSET WorkerIds
        BY <1>1, <1>3 DEF TypeOK, CallRecord
    <2> QED
        BY <1>2, <1>3, <1>4, <2>3, <2>6, <2>7, <2>8, StaysInv
<1> QED
    BY <1>5, <1>6

(* A lease that is marked, or whose end comes, is a lease still.           *)
LEMMA MarkedLease ==
    ASSUME TypeOK, NEW t \in Tenants, lease[t] # Nothing,
           \/ lease' = [lease EXCEPT ![t].status = "expired"]
           \/ lease' = [lease EXCEPT ![t].over = TRUE]
    PROVE  lease' \in [Tenants -> Lease \cup {Nothing}]
<1>1. lease \in [Tenants -> Lease \cup {Nothing}] /\ lease[t] \in Lease
    BY DEF TypeOK
<1>2. /\ [lease[t] EXCEPT !.status = "expired"] \in Lease
      /\ [lease[t] EXCEPT !.over = TRUE] \in Lease
    BY <1>1 DEF Lease
<1>3. \/ lease' = [lease EXCEPT ![t] = [lease[t] EXCEPT !.status = "expired"]]
      \/ lease' = [lease EXCEPT ![t] = [lease[t] EXCEPT !.over = TRUE]]
    OBVIOUS
<1> QED
    BY <1>1, <1>2, <1>3

(* The idle timer is all that starts when it does.                         *)
LEMMA IdleStays ==
    ASSUME TypeOK, MadeInv, NEW w, IdleTimerStarts(w)
    PROVE  EntriesStay
<1>1. CASE w \in workers
    <2> DEFINE e == [entry[w] EXCEPT !.idle = TRUE]
    <2>1. w \in WorkerIds /\ entry[w] # Nothing /\ entry[w] \in Entry
        BY <1>1 DEF TypeOK, MadeInv
    <2>2. e \in Entry /\ e.tenant = entry[w].tenant /\ e.port = entry[w].port
        BY <2>1 DEF Entry
    <2>3. entry' = [entry EXCEPT ![w] = e]
        BY <1>1 DEF IdleTimerStarts
    <2> HIDE DEF e
    <2> QED
        BY <2>1, <2>2, <2>3, OneEntry
<1>2. CASE w \notin workers
    BY <1>2 DEF IdleTimerStarts, EntriesStay, TypeOK
<1> QED
    BY <1>1, <1>2

(* A timer or a request that stops a worker keeps the invariant.           *)
LEMMA CleanupIfKnownInv ==
    ASSUME PoolInv, HistoryStays, NEW w \in WorkerIds, entry[w] # Nothing, CleanupIfKnown(w)
    PROVE  PoolInv'
<1>1. TypeOK
    BY DEF PoolInv
<1>2. UNCHANGED <<workers, mapping, ports, call, shutting, awaited>>
    BY DEF CleanupIfKnown
<1>3. CASE w \in workers
    <2>1. CleanupWorkers({w}, Nothing) /\ {w} \in SUBSET workers
        BY <1>3 DEF CleanupIfKnown
    <2>2. shutting' \in BOOLEAN /\ awaited' \in SUBSET WorkerIds
        BY <1>1, <1>2 DEF TypeOK
    <2> QED
        BY <1>2, <2>1, <2>2, CleanupInv
<1>4. CASE w \notin workers
    <2> DEFINE e == [entry[w] EXCEPT !.idle = FALSE, !.hard = FALSE]
    <2>1. entry[w] \in Entry
        BY <1>1 DEF TypeOK
    <2>2. e \in Entry /\ e.tenant = entry[w].tenant /\ e.port = entry[w].port
        BY <2>1 DEF Entry
    <2>3. entry' = [entry EXCEPT ![w] = e] /\ UNCHANGED <<lease, waiters, finishing>>
        BY <1>4 DEF CleanupIfKnown
    <2> HIDE DEF e
    <2>4. EntriesStay /\ lease' \in [Tenants -> Lease \cup {Nothing}]
        BY <1>1, <2>2, <2>3, OneEntry DEF TypeOK
    <2> QED
        BY <1>2, <2>3, <2>4, QuietInv
<1> QED
    BY <1>3, <1>4

(* The tenants that have crossed are tenants.                              *)
LEMMA CrossedType ==
    ASSUME TypeOK, MadeInv, NEW W \in SUBSET workers
    PROVE  Crossed(W) \in SUBSET Tenants
<1>1. \A w \in W : entry[w] \in Entry
    BY DEF TypeOK, MadeInv
<1>2. \A w \in W : entry[w].tenant \in Tenants
    BY <1>1 DEF Entry
<1> QED
    BY <1>2 DEF Crossed, TypeOK

LEMMA OverlappingType ==
    ASSUME NEW t \in Tenants
    PROVE  Overlapping(t) \in SUBSET Tenants
BY DEF Overlapping

(* No step forgets a port that is lost: only a search for a free port that *)
(* finds it takes it off, and finds it released.                           *)
LEMMA HistoryStep ==
    ASSUME TypeOK, MadeInv, CallsInv, Next
    PROVE  HistoryStays
<1>1. CASE UNCHANGED history
    BY <1>1 DEF history, HistoryStays, TypeOK
<1>2. ASSUME NEW r \in Calls, NEW t \in Tenants, NEW c \in Controllers, AcquireForTenant(r, t, c)
      PROVE  HistoryStays
    <2> DEFINE w == mapping[t]
    <2>1. w \in workers => Crossed({w}) \in SUBSET Tenants
        BY CrossedType
    <2>2. Overlapping(t) \in SUBSET Tenants
        BY OverlappingType
    <2>3. lost' = lost
        BY <1>2 DEF AcquireForTenant
    <2>4. \/ crossed' = crossed
          \/ w \in workers /\ crossed' = Crossed({w}) \cup Overlapping(t)
          \/ crossed' = crossed \cup Overlapping(t)
        BY <1>2 DEF AcquireForTenant
    <2> QED
        BY <2>1, <2>2, <2>3, <2>4 DEF HistoryStays, TypeOK
<1>3. ASSUME NEW r \in Calls, CreateWorker(r) \/ PortTaken(r) \/ ChromeNotFound(r)
      PROVE  HistoryStays
    <2>1. crossed' = crossed
        BY <1>3 DEF CreateWorker, PortTaken, ChromeNotFound
    <2>2. CASE lost' = lost \cap ports
        BY <2>1, <2>2 DEF HistoryStays, TypeOK
    <2>3. CASE ChromeNotFound(r)
        <3>1. call[r].port \in Ports
            BY <2>3 DEF ChromeNotFound, CallsInv
        <3> QED
            BY <2>1, <2>3, <3>1 DEF ChromeNotFound, HistoryStays, TypeOK
    <2> QED
        BY <1>3, <2>2, <2>3 DEF CreateWorker, PortTaken
<1>4. ASSUME NEW w \in WorkerIds, CleanupIfKnown(w)
      PROVE  HistoryStays
    <2>1. lost' = lost
        BY <1>4 DEF CleanupIfKnown
    <2>2. CASE w \in workers
        BY <1>4, <2>1, <2>2, CrossedType DEF CleanupIfKnown, HistoryStays, TypeOK
    <2>3. CASE w \notin workers
        BY <1>4, <2>1, <2>3 DEF CleanupIfKnown, HistoryStays, TypeOK
    <2> QED
        BY <2>2, <2>3
<1>5. ASSUME Shutdown
      PROVE  HistoryStays
    BY <1>5, CrossedType DEF Shutdown, HistoryStays, TypeOK
<1>6. ASSUME NEW t \in Tenants, StopWorker(t)
      PROVE  HistoryStays
    BY <1>4, <1>6 DEF StopWorker, TypeOK
<1>7. ASSUME NEW r \in Calls, Spawn(r) \/ SpawnError(r) \/ StartSucceeds(r) \/ StartFails(r)
      PROVE  HistoryStays
    BY <1>1, <1>7 DEF Spawn, SpawnError, StartSucceeds, StartFails
<1>8. ASSUME NEW w \in WorkerIds, Listen(w) \/ Exit(w) \/ TimerFires(w)
      PROVE  HistoryStays
    BY <1>1, <1>4, <1>8 DEF Listen, Exit, TimerFires
<1>9. ASSUME NEW t \in Tenants,
             ReleaseLease(t) \/ RefreshLease(t) \/ MarkExpired(t) \/ LeaseRunsOut(t) \/ Sweep(t)
      PROVE  HistoryStays
    BY <1>1, <1>9 DEF ReleaseLease, RefreshLease, MarkExpired, LeaseRunsOut, Sweep
<1>10. ASSUME NEW w \in WorkerIds, NEW by \in Callers, FinishCleanup(w, by)
       PROVE  HistoryStays
    BY <1>1, <1>10 DEF FinishCleanup
<1>11. ASSUME NEW r \in Calls, NEW w \in WorkerIds, PortAvailable(r, w)
       PROVE  HistoryStays
    BY <1>1, <1>11 DEF PortAvailable
<1> QED
    BY <1>2, <1>3, <1>5, <1>6, <1>7, <1>8, <1>9, <1>10, <1>11 DEF Next

(* Every step of the pool keeps the invariant.                             *)
LEMMA PoolStepInv == PoolInv /\ [Next]_vars => PoolInv'
<1> SUFFICES ASSUME PoolInv, [Next]_vars
             PROVE  PoolInv'
    OBVIOUS
<1>0. TypeOK /\ MadeInv /\ CallsInv /\ MappingIsKnown /\ ReservedPortsAreOwned
    BY DEF PoolInv
<1>a. CASE UNCHANGED vars
    BY <1>0, <1>a DEF vars, PoolInv, TypeOK, MadeInv, CallsInv, Awaits, MappingIsKnown,
                      ReservedPortsAreOwned
<1> SUFFICES ASSUME Next
             PROVE  PoolInv'
    BY <1>a
<1>1. HistoryStays
    BY <1>0, HistoryStep
<1>2. ASSUME NEW t \in Tenants, StopWorker(t)
      PROVE  PoolInv'
    <2>1. mapping[t] \in WorkerIds /\ entry[mapping[t]] # Nothing
        BY <1>0, <1>2 DEF StopWorker, TypeOK, MadeInv
    <2> QED
        BY <1>1, <1>2, <2>1, CleanupIfKnownInv DEF StopWorker
<1>3. ASSUME NEW t \in Tenants, ReleaseLease(t)
      PROVE  PoolInv'
    <2>1. /\ lease' = Revoked({t}) /\ IdleTimerStarts(mapping[t])
          /\ UNCHANGED <<workers, mapping, ports, call, waiters, finishing, shutting, awaited>>
        BY <1>3 DEF ReleaseLease
    <2>2. EntriesStay
        BY <1>0, <2>1, IdleStays
    <2>3. lease' \in [Tenants -> Lease \cup {Nothing}]
        BY <1>0, <2>1 DEF Revoked, TypeOK
    <2> QED
        BY <2>1, <2>2, <2>3, <1>1, QuietInv
<1>4. ASSUME NEW t \in Tenants, RefreshLease(t)
      PROVE  PoolInv'
    <2>1. /\ mapping[t] \in workers /\ entry' = Used(mapping[t]) /\ lease' = lease
          /\ UNCHANGED <<workers, mapping, ports, call, waiters, finishing, shutting, awaited>>
        BY <1>4 DEF RefreshLease
    <2>2. mapping[t] \in WorkerIds /\ entry[mapping[t]] # Nothing
        BY <1>0, <2>1 DEF TypeOK, MadeInv
    <2>3. EntriesStay /\ lease' \in [Tenants -> Lease \cup {Nothing}]
        BY <1>0, <2>1, <2>2, UsedStays DEF TypeOK
    <2> QED
        BY <2>1, <2>3, <1>1, QuietInv
<1>5. ASSUME Shutdown
      PROVE  PoolInv'
    <2>1. /\ CleanupWorkers(workers, ShutdownCall) /\ UNCHANGED <<workers, mapping, ports, call>>
          /\ shutting' \in BOOLEAN /\ awaited' \in SUBSET WorkerIds
        BY <1>0, <1>5 DEF Shutdown, TypeOK
    <2>2. workers \in SUBSET workers /\ ShutdownCall \in {Nothing, ShutdownCall}
        OBVIOUS
    <2> QED
        BY <1>1, <2>1, <2>2, CleanupInv
<1>6. ASSUME NEW w \in WorkerIds, Listen(w)
      PROVE  PoolInv'
    <2> DEFINE e == [entry[w] EXCEPT !.chrome = "listening"]
    <2>1. /\ entry[w] # Nothing /\ entry' = [entry EXCEPT ![w] = e]
          /\ UNCHANGED <<workers, mapping, ports, lease, call, waiters, finishing, shutting,
                         awaited>>
        BY <1>6 DEF Listen
    <2>2. entry[w] \in Entry
        BY <1>0, <2>1 DEF TypeOK
    <2>3. e \in Entry /\ e.tenant = entry[w].tenant /\ e.port = entry[w].port
        BY <2>2 DEF Entry
    <2> HIDE DEF e
    <2>4. EntriesStay /\ lease' \in [Tenants -> Lease \cup {Nothing}]
        BY <1>0, <2>1, <2>3, OneEntry DEF TypeOK
    <2> QED
        BY <2>1, <2>4, <1>1, QuietInv
<1>7. ASSUME NEW w \in WorkerIds, TimerFires(w)
      PROVE  PoolInv'
    BY <1>1, <1>7, CleanupIfKnownInv DEF TimerFires
<1>8. ASSUME NEW t \in Tenants, MarkExpired(t) \/ LeaseRunsOut(t)
      PROVE  PoolInv'
    <2>1. /\ lease[t] # Nothing
          /\ \/ lease' = [lease EXCEPT ![t].status = "expired"]
             \/ lease' = [lease EXCEPT ![t].over = TRUE]
          /\ UNCHANGED <<workers, mapping, ports, entry, call, waiters, finishing, shutting,
                         awaited>>
        BY <1>8 DEF MarkExpired, LeaseRunsOut
    <2>2. lease' \in [Tenants -> Lease \cup {Nothing}]
        BY <1>0, <2>1, MarkedLease
    <2>3. EntriesStay
        BY <1>0, <2>1 DEF EntriesStay, TypeOK
    <2> QED
        BY <2>1, <2>2, <2>3, <1>1, QuietInv
<1>9. ASSUME NEW t \in Tenants, Sweep(t)
      PROVE  PoolInv'
    <2>1. /\ lease' = Revoked({t}) /\ IdleTimerStarts(lease[t].worker)
          /\ UNCHANGED <<workers, mapping, ports, call, waiters, finishing, shutting, awaited>>
        BY <1>9 DEF Sweep
    <2>2. EntriesStay
        BY <1>0, <2>1, IdleStays
    <2>3. lease' \in [Tenants -> Lease \cup {Nothing}]
        BY <1>0, <2>1 DEF Revoked, TypeOK
    <2> QED
        BY <2>1, <2>2, <2>3, <1>1, QuietInv
<1>10. ASSUME NEW r \in Calls, NEW t \in Tenants, NEW c \in Controllers, AcquireForTenant(r, t, c)
       PROVE  PoolInv'
    BY <1>1, <1>10, AcquireInv
<1>11. ASSUME NEW w \in WorkerIds, NEW by \in Callers, FinishCleanup(w, by)
       PROVE  PoolInv'
    BY <1>1, <1>11, FinishCleanupInv
<1>12. ASSUME NEW r \in Calls, CreateWorker(r) \/ PortTaken(r) \/ ChromeNotFound(r)
       PROVE  PoolInv'
    BY <1>1, <1>12, CreateInv, PortTakenInv, ChromeNotFoundInv
<1>13. ASSUME NEW r \in Calls, Spawn(r) \/ SpawnError(r) \/ StartSucceeds(r) \/ StartFails(r)
       PROVE  PoolInv'
    BY <1>1, <1>13, SpawnInv, StartSucceedsInv, StartFailsInv
<1>14. ASSUME NEW r \in Calls, NEW w \in WorkerIds, PortAvailable(r, w)
       PROVE  PoolInv'
    BY <1>1, <1>14, PortAvailableInv
<1>15. ASSUME NEW w \in WorkerIds, Exit(w)
       PROVE  PoolInv'
    BY <1>1, <1>15, ExitInv
<1> QED
    BY <1>2, <1>3, <1>4, <1>5, <1>6, <1>7, <1>8, <1>9, <1>10, <1>11, <1>12, <1>13, <1>14, <1>15
       DEF Next

(* The invariant holds at the start, in an empty pool.                     *)
LEMMA PoolInitInv == Init => PoolInv
<1> SUFFICES ASSUME Init
             PROVE  PoolInv
    OBVIOUS
<1>1. \A r \in Calls : call[r] = NoCall
    BY DEF Init
<1>2. \A w \in WorkerIds : waiters[w] = {} /\ entry[w] = Nothing
    BY DEF Init
<1>3. TypeOK
    <2>1. call \in [Calls -> CallRecord]
        BY NoCallFacts DEF Init
    <2>2. /\ mapping \in [Tenants -> WorkerIds \cup {Nothing}]
          /\ lease \in [Tenants -> Lease \cup {Nothing}]
          /\ entry \in [WorkerIds -> Entry \cup {Nothing}]
          /\ waiters \in [WorkerIds -> SUBSET Callers]
        BY DEF Init
    <2>3. /\ workers \subseteq WorkerIds /\ ports \subseteq Ports
          /\ finishing \subseteq WorkerIds \X Callers /\ awaited \subseteq WorkerIds
          /\ shutting \in BOOLEAN /\ lost \subseteq Ports /\ crossed \subseteq Tenants
        BY DEF Init
    <2> QED
        BY <2>1, <2>2, <2>3 DEF TypeOK, CallRecord
<1>4. MadeInv
    BY <1>2 DEF Init, MadeInv
<1>5. CallsInv
    BY <1>1, <1>2, NoCallFacts DEF Init, CallsInv, Awaits
<1>6. MappingIsKnown /\ ReservedPortsAreOwned
    BY DEF Init, MappingIsKnown, ReservedPortsAreOwned
<1> QED
    BY <1>3, <1>4, <1>5, <1>6 DEF PoolInv

(* The invariant holds in every state.                                     *)
LEMMA PoolAlways == Spec => []PoolInv
BY PoolInitInv, PoolStepInv, PTL DEF Spec

-----------------------------------------------------------------------------
(* Each variable of the pool has its values: no step of a cleanup, a start *)
(* or a timer reads or writes an entry or a lease that is not there.       *)
THEOREM TypeCorrect == Spec => []TypeOK
<1>1. PoolInv => TypeOK
    BY DEF PoolInv
<1> QED
    BY <1>1, PoolAlways, PTL

(* However cleanups, crashes, starts and requests overlap, the mapping of a*)
(* tenant leads to a worker of the pool, and of that tenant.               *)
THEOREM MappingKnown == Spec => []MappingIsKnown
<1>1. PoolInv => MappingIsKnown
    BY DEF PoolInv
<1> QED
    BY <1>1, PoolAlways, PTL

(* However they overlap, no port stays reserved without a worker of the    *)
(* pool, or a call that is probing it, but one for which no Chrome was     *)
(* found: that failure is the only way to lose a port.                     *)
THEOREM PortsOwned == Spec => []ReservedPortsAreOwned
<1>1. PoolInv => ReservedPortsAreOwned
    BY DEF PoolInv
<1> QED
    BY <1>1, PoolAlways, PTL

=============================================================================
