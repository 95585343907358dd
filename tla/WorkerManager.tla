--------------------------- MODULE WorkerManager ---------------------------
(***************************************************************************)
(* The worker pool of src/src/worker: WorkerManager, its ChromeWorker-     *)
(* Process objects, its PortAllocator, and the leases of LeaseManager with *)
(* time reduced to "the end has come".                                     *)
(*                                                                         *)
(* The program is one thread; a method runs to its next await.  The awaits *)
(* of acquireForTenant are the values of pc: the stop of a worker that is  *)
(* not running, the probe of a port, mkdir, and the polling of the         *)
(* debugging endpoint.  A promise that is resolved already, or by the event*)
(* at hand, continues before any other event is served: these continuations*)
(* are finishing and the calls at "create", and every action that stands   *)
(* for an event waits until they are done (Quiet).                         *)
(*                                                                         *)
(* Requests and timers overlap in any way.  What the pool promises of one  *)
(* tenant it keeps until two of them cross: crossed is the history of the  *)
(* tenants this has happened to.                                           *)
(***************************************************************************)
EXTENDS Naturals, FiniteSets

CONSTANTS
    Tenants,        \* tenantId values
    Controllers,    \* controllerId values
    Calls,          \* bound: calls of acquireForTenant in flight
    WorkerIds,      \* bound: workers made in a behaviour
    MinPort, MaxPort,   \* config.portRange
    MaxWorkers,     \* config.maxWorkers
    ForeignPorts,   \* ports that other programs listen on
    Nothing,        \* undefined: no worker, lease, entry or caller
    ShutdownCall    \* the caller of the cleanups that shutdown awaits

Ports == MinPort .. MaxPort

ASSUME PortsAssumption == MinPort \in Nat /\ MaxPort \in Nat
ASSUME CallersAssumption == Nothing \notin Calls /\ ShutdownCall \notin Calls
ASSUME LimitAssumption == MaxWorkers \in Nat
ASSUME FlightAssumption == IsFiniteSet(Calls) /\ Calls # {}
ASSUME NothingAssumption == Nothing \notin Tenants \cup WorkerIds \cup Ports

VARIABLES
    workers,    \* this.workers: the ids in the map
    mapping,    \* this.tenantToWorker
    ports,      \* portAllocator.allocatedPorts
    lease,      \* leaseManager.leases
    entry,      \* the WorkerEntry objects, in the map or not
    call,       \* the calls of acquireForTenant
    waiters,    \* who waits in process.stop() for the exit of a worker
    finishing,  \* the cleanups whose stop() has returned: <<worker, caller>>
    shutting,   \* _isShuttingDown
    awaited,    \* the workers whose cleanup shutdown() waits for
    lost,       \* history: ports reserved when no Chrome was found
    crossed     \* history: tenants of which two requests have crossed

vars == <<workers, mapping, ports, lease, entry, call, waiters, finishing,
          shutting, awaited, lost, crossed>>

history == <<lost, crossed>>

Callers == Calls \cup {Nothing, ShutdownCall}

Entry ==
    [tenant : Tenants, port : Ports,
     state : {"starting", "running", "crashed", "stopped"},  \* descriptor.state
     process : {"starting", "running", "stopping", "crashed", "stopped"}, \* _state
     attached : BOOLEAN,        \* process # null, and its listeners with it
     chrome : {"none", "launching", "listening", "gone"},    \* the OS process
     killed : BOOLEAN,          \* it was sent SIGTERM, and SIGKILL after 5 s
     idle : BOOLEAN,            \* the idle timer is set
     hard : BOOLEAN]            \* the hard TTL timer is set

Lease ==
    [controller : Controllers, worker : WorkerIds,
     status : {"active", "expired"},
     over : BOOLEAN]            \* expiresAt <= Date.now()

ASSUME NoObjectAssumption == Nothing \notin Entry /\ Nothing \notin Lease

NoCall == [pc |-> "idle", tenant |-> Nothing, controller |-> Nothing,
           port |-> Nothing, worker |-> Nothing]

Alive(w) == entry[w] # Nothing /\ entry[w].chrome \in {"launching", "listening"}

(* No continuation is left to run: the next event can be served.           *)
Quiet == finishing = {} /\ \A r \in Calls : call[r].pc # "create"

Init ==
    /\ workers = {}
    /\ mapping = [t \in Tenants |-> Nothing]
    /\ ports = {}
    /\ lease = [t \in Tenants |-> Nothing]
    /\ entry = [w \in WorkerIds |-> Nothing]
    /\ call = [r \in Calls |-> NoCall]
    /\ waiters = [w \in WorkerIds |-> {}]
    /\ finishing = {}
    /\ shutting = FALSE
    /\ awaited = {}
    /\ lost = {}
    /\ crossed = {}

-----------------------------------------------------------------------------
(* A worker leaves the pool: its entry, the mapping of its tenant, whatever*)
(* worker that leads to by then, and the reservation of its port.          *)
Unlisted_NotAtAll(w) == workers
Unlisted(w) == workers \ {w}

Unmapped_NotAtAll(t) == mapping
Unmapped(t) == [mapping EXCEPT ![t] = Nothing]

Released_NotAtAll(p) == ports
Released(p) == ports \ {p}

(* cleanupWorker, up to its await of process.stop(), for the workers of W  *)
(* that are in the map.  stop() returns at once without a process, or when *)
(* a stop is under way or over; otherwise it sends SIGTERM, then SIGKILL,  *)
(* and waits for the exit.                                                 *)
StopsAtOnce(e) == ~e.attached \/ e.process \in {"stopping", "stopped"}

Stopping(e) ==
    IF StopsAtOnce(e)
    THEN [e EXCEPT !.idle = FALSE, !.hard = FALSE]
    ELSE [e EXCEPT !.idle = FALSE, !.hard = FALSE,
                   !.process = "stopping", !.killed = TRUE]

Revoked(T) == [t \in Tenants |-> IF t \in T THEN Nothing ELSE lease[t]]

(* Another cleanup of the worker is awaited, or a call is starting it.     *)
Crosses(w) ==
    \/ waiters[w] # {}
    \/ \E r \in Calls : call[r].pc \in {"mkdir", "polling"} /\ call[r].worker = w

Crossed(W) == crossed \cup {entry[w].tenant : w \in {x \in W : Crosses(x)}}

CleanupWorkers(W, by) ==
    /\ entry' = [w \in WorkerIds |-> IF w \in W THEN Stopping(entry[w]) ELSE entry[w]]
    /\ lease' = Revoked({entry[w].tenant : w \in W})
    /\ waiters' = [w \in WorkerIds |->
          IF w \in W /\ ~StopsAtOnce(entry[w]) THEN waiters[w] \cup {by} ELSE waiters[w]]
    /\ finishing' = finishing \cup {<<w, by>> : w \in {x \in W : StopsAtOnce(entry[x])}}

(* The rest of cleanupWorker; a call that waited for it goes on.           *)
FinishCleanup(w, by) ==
    /\ <<w, by>> \in finishing
    /\ ports' = Released(entry[w].port)
    /\ workers' = Unlisted(w)
    /\ mapping' = Unmapped(entry[w].tenant)
    /\ entry' = [entry EXCEPT ![w].state = "stopped"]
    /\ finishing' = finishing \ {<<w, by>>}
    /\ call' = IF by \in Calls THEN [call EXCEPT ![by].pc = "create"] ELSE call
    /\ awaited' = IF by = ShutdownCall THEN awaited \ {w} ELSE awaited
    /\ UNCHANGED <<lease, waiters, shutting, history>>

-----------------------------------------------------------------------------
(* leaseManager.acquire: granted to the controller that has the entry, and *)
(* to anyone if there is none or it is not active or over.                 *)
Grants(t, c) ==
    lease[t] # Nothing =>
        lease[t].controller = c \/ lease[t].status # "active" \/ lease[t].over

Granted(t, c, w) ==
    IF lease[t] # Nothing /\ lease[t].controller = c
    THEN [lease EXCEPT ![t].over = FALSE]
    ELSE [lease EXCEPT ![t] = [controller |-> c, worker |-> w,
                               status |-> "active", over |-> FALSE]]

(* resetIdleTimer.                                                         *)
Used_TimerRuns(w) == entry

Used(w) == [entry EXCEPT ![w].idle = FALSE]

(* acquireForTenant, up to its first await: a running worker is leased, or *)
(* refused; one that is not running is cleaned up; without one the call    *)
(* goes on to createWorker.                                                *)
Overlapping(t) == IF \E r \in Calls : call[r].tenant = t THEN {t} ELSE {}

AcquireForTenant(r, t, c) ==
    LET w == mapping[t]
    IN  /\ Quiet
        /\ call[r].pc = "idle"
        /\ ~shutting
        /\ \/ /\ w \in workers
              /\ entry[w].state = "running"
              /\ Grants(t, c)
              /\ lease' = Granted(t, c, w)
              /\ entry' = Used(w)
              /\ UNCHANGED <<call, waiters, finishing, crossed>>
           \/ /\ w \in workers
              /\ entry[w].state # "running"
              /\ CleanupWorkers({w}, r)
              /\ crossed' = Crossed({w}) \cup Overlapping(t)
              /\ call' = [call EXCEPT ![r] =
                     [NoCall EXCEPT !.pc = "stopping", !.tenant = t, !.controller = c]]
           \/ /\ w \notin workers
              /\ call' = [call EXCEPT ![r] =
                     [NoCall EXCEPT !.pc = "create", !.tenant = t, !.controller = c]]
              /\ crossed' = crossed \cup Overlapping(t)
              /\ UNCHANGED <<lease, entry, waiters, finishing>>
        /\ UNCHANGED <<workers, mapping, ports, shutting, awaited, lost>>

(* allocateVerified reserves the lowest free port from a given one on.     *)

FreePorts_PastTheRange(from) == {p \in MinPort .. MaxPort + 1 : p >= from /\ p \notin ports}

FreePorts(from) == {p \in Ports : p >= from /\ p \notin ports}

Lowest(S) == CHOOSE p \in S : \A q \in S : p <= q

LimitReached_OffByOne == Cardinality(workers) > MaxWorkers

LimitReached == Cardinality(workers) >= MaxWorkers

(* createWorker, up to the probe of the first port: the limit is checked   *)
(* here, the worker is counted only after the probe.                       *)
CreateWorker(r) ==
    /\ finishing = {}
    /\ call[r].pc = "create"
    /\ IF LimitReached \/ FreePorts(MinPort) = {}
       THEN /\ call' = [call EXCEPT ![r] = NoCall]
            /\ UNCHANGED ports
       ELSE LET p == Lowest(FreePorts(MinPort))
            IN  /\ call' = [call EXCEPT ![r].pc = "probing", ![r].port = p]
                /\ ports' = ports \cup {p}
    /\ lost' = lost \cap ports
    /\ UNCHANGED <<workers, mapping, lease, entry, waiters, finishing, shutting, awaited, crossed>>

(* isPortAvailable answers.  A free port gets the worker: the entry and    *)
(* the mapping are set and start() runs to its mkdir.  A taken one is given*)
(* back and the search goes on behind it.                                  *)
Listening(p) == p \in ForeignPorts \/ \E w \in WorkerIds :
                    entry[w] # Nothing /\ entry[w].chrome = "listening" /\ entry[w].port = p

PortTaken(r) ==
    LET p == call[r].port
        left == FreePorts(p + 1)
    IN  /\ Quiet
        /\ call[r].pc = "probing"
        /\ Listening(p)
        /\ IF left = {}
           THEN /\ call' = [call EXCEPT ![r] = NoCall]
                /\ ports' = ports \ {p}
           ELSE /\ call' = [call EXCEPT ![r].port = Lowest(left)]
                /\ ports' = (ports \ {p}) \cup {Lowest(left)}
        /\ lost' = lost \cap ports
        /\ UNCHANGED <<workers, mapping, lease, entry, waiters, finishing, shutting, awaited, crossed>>

NewEntry(t, p) ==
    [tenant |-> t, port |-> p, state |-> "starting", process |-> "starting",
     attached |-> FALSE, chrome |-> "none", killed |-> FALSE,
     idle |-> FALSE, hard |-> FALSE]

PortAvailable(r, w) ==
    LET t == call[r].tenant
        p == call[r].port
    IN  /\ Quiet
        /\ call[r].pc = "probing"
        /\ ~Listening(p)
        /\ entry[w] = Nothing
        /\ entry' = [entry EXCEPT ![w] = NewEntry(t, p)]
        /\ workers' = workers \cup {w}
        /\ mapping' = [mapping EXCEPT ![t] = w]
        /\ call' = [call EXCEPT ![r].pc = "mkdir", ![r].worker = w]
        /\ UNCHANGED <<ports, lease, waiters, finishing, shutting, awaited, history>>

(* The constructor of the process throws, outside of any try block: there  *)
(* is no Chrome, and nobody gives the port back.                           *)
ChromeNotFound(r) ==
    /\ Quiet
    /\ call[r].pc = "probing"
    /\ ~Listening(call[r].port)
    /\ lost' = lost \cup {call[r].port}
    /\ call' = [call EXCEPT ![r] = NoCall]
    /\ UNCHANGED <<workers, mapping, ports, lease, entry, waiters, finishing, shutting,
                   awaited, crossed>>

(* start() after mkdir: Chrome is spawned, whatever was done to the worker *)
(* in the meantime; or the spawn fails, whose error event comes at once.   *)
Spawn(r) ==
    /\ Quiet
    /\ call[r].pc = "mkdir"
    /\ entry' = [entry EXCEPT ![call[r].worker].attached = TRUE,
                              ![call[r].worker].chrome = "launching"]
    /\ call' = [call EXCEPT ![r].pc = "polling"]
    /\ UNCHANGED <<workers, mapping, ports, lease, waiters, finishing, shutting, awaited, history>>

SpawnError(r) ==
    /\ Quiet
    /\ call[r].pc = "mkdir"
    /\ entry' = [entry EXCEPT ![call[r].worker].process = "crashed",
                              ![call[r].worker].chrome = "gone"]
    /\ call' = [call EXCEPT ![r].pc = "polling"]
    /\ UNCHANGED <<workers, mapping, ports, lease, waiters, finishing, shutting, awaited, history>>

(* start() returns when a Chrome answers on the port, whichever it is, and *)
(* createWorker and acquireForTenant run to their ends.  With the worker   *)
(* gone from the map the call fails, after the lease was taken.            *)
Answers(p) == \E w \in WorkerIds :
    entry[w] # Nothing /\ entry[w].chrome = "listening" /\ entry[w].port = p

Started_NoHardTtl(e) == [e EXCEPT !.process = "running", !.state = "running"]

Started(e) == [e EXCEPT !.process = "running", !.state = "running", !.hard = TRUE]

StartSucceeds(r) ==
    LET w == call[r].worker
        t == call[r].tenant
        c == call[r].controller
    IN  /\ Quiet
        /\ call[r].pc = "polling"
        /\ Answers(entry[w].port)
        /\ entry' = [entry EXCEPT ![w] = Started(@)]
        /\ lease' = IF Grants(t, c) THEN Granted(t, c, w) ELSE lease
        /\ call' = [call EXCEPT ![r] = NoCall]
        /\ UNCHANGED <<workers, mapping, ports, waiters, finishing, shutting, awaited, history>>

(* mkdir fails, or nothing answers in time: start() kills its process with *)
(* SIGKILL and drops all listeners on it, those of a stop() that waits for *)
(* the exit too; createWorker takes back the entry, the mapping, the port. *)
NotStarted_NoKill(e) == [e EXCEPT !.process = "crashed", !.attached = FALSE]

NotStarted(e) ==
    [e EXCEPT !.process = "crashed", !.attached = FALSE,
              !.chrome = IF e.attached THEN "gone" ELSE @]

StartFails(r) ==
    LET w == call[r].worker
        e == entry[w]
    IN  /\ Quiet
        /\ call[r].pc \in {"mkdir", "polling"}
        /\ entry' = [entry EXCEPT ![w] = NotStarted(@)]
        /\ waiters' = [waiters EXCEPT ![w] = {}]
        /\ workers' = Unlisted(w)
        /\ mapping' = Unmapped(e.tenant)
        /\ ports' = Released(e.port)
        /\ call' = [call EXCEPT ![r] = NoCall]
        /\ UNCHANGED <<lease, finishing, shutting, awaited, history>>

-----------------------------------------------------------------------------
(* The Chrome of w starts to listen on its port, if nobody else does.      *)
Listen(w) ==
    /\ Quiet
    /\ entry[w] # Nothing
    /\ entry[w].chrome = "launching"
    /\ ~Listening(entry[w].port)
    /\ entry' = [entry EXCEPT ![w].chrome = "listening"]
    /\ UNCHANGED <<workers, mapping, ports, lease, call, waiters, finishing, shutting, awaited, history>>

(* Chrome exits, by itself or because it was killed.  While its listeners  *)
(* are attached the process object turns to stopped or crashed; then the   *)
(* manager, for a worker in its map, reports a crash, revokes the lease and*)
(* calls cleanupWorker; then the listeners are dropped, and those that wait*)
(* for the exit go on.  The stop() in that cleanupWorker returns at once   *)
(* after a stop; after a crash it waits for an exit event that is over.    *)
Exit(w) ==
    LET e == entry[w]
        known == w \in workers
        asked == e.process = "stopping"
        after == [e EXCEPT !.attached = FALSE, !.chrome = "gone",
                           !.process = IF asked THEN "stopped"
                                       ELSE IF known THEN "stopping" ELSE "crashed"]
    IN  /\ Quiet
        /\ Alive(w)
        /\ IF e.attached
           THEN /\ entry' = [entry EXCEPT ![w] =
                       IF known THEN [after EXCEPT !.state = "crashed",
                                                   !.idle = FALSE, !.hard = FALSE]
                                ELSE after]
                /\ lease' = IF known THEN Revoked({e.tenant}) ELSE lease
                /\ finishing' = {<<w, by>> : by \in waiters[w]}
                                  \cup (IF known /\ asked THEN {<<w, Nothing>>} ELSE {})
                /\ waiters' = [waiters EXCEPT ![w] = {}]
           ELSE /\ entry' = [entry EXCEPT ![w].chrome = "gone"]
                /\ UNCHANGED <<lease, finishing, waiters>>
        /\ UNCHANGED <<workers, mapping, ports, call, shutting, awaited, history>>

-----------------------------------------------------------------------------
(* cleanupWorker from outside acquireForTenant; without an entry in the map*)
(* it does nothing.                                                        *)
CleanupIfKnown(w) ==
    /\ IF w \in workers
       THEN CleanupWorkers({w}, Nothing) /\ crossed' = Crossed({w})
       ELSE /\ entry' = [entry EXCEPT ![w].idle = FALSE, ![w].hard = FALSE]
            /\ UNCHANGED <<lease, waiters, finishing, crossed>>
    /\ UNCHANGED <<workers, mapping, ports, call, shutting, awaited, lost>>

TimerFires(w) ==
    /\ Quiet
    /\ entry[w] # Nothing
    /\ entry[w].idle \/ entry[w].hard
    /\ CleanupIfKnown(w)

StopWorker(t) ==
    /\ Quiet
    /\ mapping[t] \in workers
    /\ CleanupIfKnown(mapping[t])

Shutdown ==
    /\ Quiet
    /\ ~shutting
    /\ shutting' = TRUE
    /\ awaited' = workers
    /\ CleanupWorkers(workers, ShutdownCall)
    /\ crossed' = Crossed(workers)
    /\ UNCHANGED <<workers, mapping, ports, call, lost>>

(* releaseLease starts the idle timer of the tenant's worker, refreshLease *)
(* stops it; lease and worker are looked up separately.                    *)
IdleTimerStarts(w) ==
    entry' = IF w \in workers THEN [entry EXCEPT ![w].idle = TRUE] ELSE entry

ReleaseLease(t) ==
    /\ Quiet
    /\ lease[t] # Nothing
    /\ lease' = Revoked({t})
    /\ IdleTimerStarts(mapping[t])
    /\ UNCHANGED <<workers, mapping, ports, call, waiters, finishing, shutting, awaited, history>>

RefreshLease(t) ==
    /\ Quiet
    /\ lease[t] # Nothing
    /\ lease[t].status = "active"
    /\ ~lease[t].over
    /\ mapping[t] \in workers
    /\ entry' = Used(mapping[t])
    /\ UNCHANGED <<workers, mapping, ports, lease, call, waiters, finishing, shutting, awaited, history>>

(* refreshLease and hasActiveLease mark a lease whose end has come.        *)
MarkExpired(t) ==
    /\ Quiet
    /\ lease[t] # Nothing
    /\ lease[t].over
    /\ lease' = [lease EXCEPT ![t].status = "expired"]
    /\ UNCHANGED <<workers, mapping, ports, entry, call, waiters, finishing, shutting, awaited, history>>

LeaseRunsOut(t) ==
    /\ Quiet
    /\ lease[t] # Nothing
    /\ lease' = [lease EXCEPT ![t].over = TRUE]
    /\ UNCHANGED <<workers, mapping, ports, entry, call, waiters, finishing, shutting, awaited, history>>

(* The sweep of the lease manager: an active lease that is over goes, and  *)
(* the idle timer of its worker starts.                                    *)
Sweep(t) ==
    /\ Quiet
    /\ ~shutting
    /\ lease[t] # Nothing
    /\ lease[t].over
    /\ lease[t].status = "active"
    /\ lease' = Revoked({t})
    /\ IdleTimerStarts(lease[t].worker)
    /\ UNCHANGED <<workers, mapping, ports, call, waiters, finishing, shutting, awaited, history>>

Next ==
    \/ \E r \in Calls, t \in Tenants, c \in Controllers : AcquireForTenant(r, t, c)
    \/ \E w \in WorkerIds, by \in Callers : FinishCleanup(w, by)
    \/ \E r \in Calls :
          CreateWorker(r) \/ PortTaken(r) \/ ChromeNotFound(r) \/ Spawn(r) \/ SpawnError(r)
             \/ StartSucceeds(r) \/ StartFails(r)
    \/ \E r \in Calls, w \in WorkerIds : PortAvailable(r, w)
    \/ \E w \in WorkerIds : Listen(w) \/ Exit(w) \/ TimerFires(w)
    \/ \E t \in Tenants :
          StopWorker(t) \/ ReleaseLease(t) \/ RefreshLease(t)
             \/ MarkExpired(t) \/ LeaseRunsOut(t) \/ Sweep(t)
    \/ Shutdown

(* What runs by itself: continuations, timers, probes, starts (which end by *)
(* the startup timeout at the latest), and the exit of a killed Chrome.    *)
(* The event loop serves every event that stays due; the event is disabled *)
(* only while a continuation runs, hence strong fairness.                  *)
Fairness ==
    /\ \A w \in WorkerIds, by \in Callers : WF_vars(FinishCleanup(w, by))
    /\ \A r \in Calls :
          /\ WF_vars(CreateWorker(r))
          /\ SF_vars(PortTaken(r) \/ ChromeNotFound(r) \/ \E w \in WorkerIds : PortAvailable(r, w))
          /\ SF_vars(Spawn(r) \/ SpawnError(r))
          /\ SF_vars(StartSucceeds(r) \/ StartFails(r))
    /\ \A w \in WorkerIds : SF_vars(TimerFires(w)) /\ SF_vars(Exit(w) /\ entry[w].killed)

Spec == Init /\ [][Next]_vars /\ Fairness

-----------------------------------------------------------------------------
(* The shape of the state.                                                 *)
TypeOK ==
    /\ workers \subseteq WorkerIds
    /\ mapping \in [Tenants -> WorkerIds \cup {Nothing}]
    /\ ports \subseteq Ports
    /\ lease \in [Tenants -> Lease \cup {Nothing}]
    /\ entry \in [WorkerIds -> Entry \cup {Nothing}]
    /\ call \in [Calls ->
          [pc : {"idle", "create", "stopping", "probing", "mkdir", "polling"},
           tenant : Tenants \cup {Nothing}, controller : Controllers \cup {Nothing},
           port : Ports \cup {Nothing}, worker : WorkerIds \cup {Nothing}]]
    /\ waiters \in [WorkerIds -> SUBSET Callers]
    /\ finishing \subseteq WorkerIds \X Callers
    /\ shutting \in BOOLEAN
    /\ awaited \subseteq WorkerIds
    /\ lost \subseteq Ports
    /\ crossed \subseteq Tenants

(* The tenant's entry in tenantToWorker never leads to a worker that has   *)
(* left the pool, nor to another tenant's, in whatever order the cleanups, *)
(* the failed starts and the new workers of the tenant come.               *)
MappingIsKnown ==
    \A t \in Tenants : mapping[t] # Nothing =>
        mapping[t] \in workers /\ entry[mapping[t]].tenant = t

(* A reserved port is one of a worker in the pool, or is being probed for  *)
(* one: with requests that overlap in any way no path out of createWorker  *)
(* or cleanupWorker loses a port, but that on which no Chrome is found.    *)
ReservedPortsAreOwned ==
    \A p \in ports :
        \/ \E w \in workers : entry[w].port = p
        \/ \E r \in Calls : call[r].pc = "probing" /\ call[r].port = p
        \/ p \in lost

(* hardTtlMs: a running worker of the pool does not run for ever.          *)
RunningEnds ==
    \A w \in WorkerIds :
        (w \in workers /\ entry[w].state = "running")
            ~> (w \notin workers \/ entry[w].state # "running")

-----------------------------------------------------------------------------
(* "Creates a new worker if one doesn't exist for the tenant": no two      *)
(* workers of a tenant are in the pool, whatever stops and crashes, and    *)
(* whatever is done for others, until two requests for it cross.           *)
OneWorkerPerTenant ==
    \A v, w \in workers : entry[v].tenant = entry[w].tenant =>
        v = w \/ entry[v].tenant \in crossed

(* maxWorkers: the limit is tested before the probe of a port and the      *)
(* worker counted after it.  The pool and the acquisitions that are about  *)
(* to add to it exceed the limit, but by less than there are calls.        *)
Probing == {r \in Calls : call[r].pc = "probing"}

LimitIsKept ==
    Cardinality(workers) + Cardinality(Probing) < MaxWorkers + Cardinality(Calls)

(* An active lease is a lease on a worker of the pool, and while it lasts  *)
(* the idle timer ("Time after which an idle worker is stopped") does not  *)
(* run for that worker.                                                    *)
LeasedIsKept ==
    \A t \in Tenants \ crossed :
        lease[t] # Nothing /\ lease[t].status = "active" =>
            /\ lease[t].worker \in workers
            /\ ~lease[t].over => ~entry[lease[t].worker].idle

(* A Chrome that runs belongs to a worker of the pool, or was killed.      *)
NoOrphans ==
    \A w \in WorkerIds : Alive(w) =>
        w \in workers \/ entry[w].killed \/ entry[w].tenant \in crossed

-----------------------------------------------------------------------------
(* What the code says of these, and does not do.                           *)

(* "Creates a new worker if one doesn't exist for the tenant": no tenant   *)
(* ever has two.                                                           *)
OnlyOneWorker == \A v, w \in workers : entry[v].tenant = entry[w].tenant => v = w

(* "Maximum number of concurrent workers": the pool is never larger.       *)
NeverOverLimit == Cardinality(workers) <= MaxWorkers

(* "Clean up on failure": a port that is reserved is used or probed.       *)
FailureReleasesPort == lost = {}

(* "Kill orphaned process before cleanup to prevent process leak": a Chrome*)
(* that runs belongs to a worker of the pool, or was killed.               *)
NeverOrphaned == \A w \in WorkerIds : Alive(w) => w \in workers \/ entry[w].killed

(* "Worker exists but not running - clean it up": a lease is granted on a  *)
(* worker that runs, not on one that is being stopped.                     *)
LeasedIsNotStopped ==
    \A t \in Tenants : lease[t] # Nothing /\ lease[t].status = "active" /\ ~lease[t].over =>
        entry[lease[t].worker].process # "stopping"

(* "Shutdown the WorkerManager and all workers": when the last cleanup that*)
(* shutdown() awaits has ended, no worker is left in the pool.             *)
ShutdownIsComplete ==
    shutting /\ awaited = {} => workers = {}

(* The handler of a crash cleans the worker up: it leaves the pool.        *)
CrashedLeavesPool ==
    \A w \in WorkerIds :
        (w \in workers /\ entry[w].state = "crashed") ~> w \notin workers

=============================================================================
