---------------------------- MODULE LeaseManager ----------------------------
(***************************************************************************)
(* The lease table of src/src/worker/lease-manager.ts: leases with a time  *)
(* to live, the checks that age them, and the sweep that removes them.     *)
(*                                                                         *)
(* Every method is synchronous, so one call is one action; what interleaves*)
(* is the calls of several controllers, the sweep and time.  leaseId,      *)
(* workerId and acquiredAt are left out (WorkerManager.tla has the worker  *)
(* of a lease).  Two variables are not in the code: told is what each      *)
(* controller was last answered, made and announced count the leases       *)
(* created and the ends reported by callback.                              *)
(***************************************************************************)
EXTENDS Naturals

CONSTANTS
    Tenants,        \* tenantId values
    Controllers,    \* controllerId values
    Ttls,           \* the times to live asked for, defaultTtlMs among them
    Horizon,        \* bound on time
    LeaseBound,     \* bound on the leases made for one tenant
    NoLease,        \* a tenant without an entry in the map
    Nobody          \* no controller

Statuses == {"active", "expired"}

Lease == [controller : Controllers, expiresAt : Nat, status : Statuses]

ASSUME TtlsAssumption == Ttls \subseteq Nat
ASSUME NoLeaseAssumption == NoLease \notin Lease
ASSUME NobodyAssumption == Nobody \notin Controllers

VARIABLES
    now,            \* Date.now()
    leases,         \* this.leases; a revoked lease has left the map
    sweeping,       \* cleanupIntervalId # null
    told,           \* told[t][c]: until when a success answered to c was to
                    \* last, and the status of the lease it was for
    made,           \* the leases created, per tenant
    announced       \* the calls of onLeaseExpired and onLeaseRevoked, per tenant

vars == <<now, leases, sweeping, told, made, announced>>

Has(t)    == leases[t] # NoLease
Lapsed(t) == leases[t].expiresAt <= now
Active(t) == leases[t].status = "active"

(* isLeaseHeldBy, the one check that changes nothing.                      *)
IsLeaseHeldBy(t, c) ==
    Has(t) /\ ~Lapsed(t) /\ Active(t) /\ leases[t].controller = c

NotTold == [until |-> 0, status |-> "active"]

Init ==
    /\ now = 0
    /\ leases = [t \in Tenants |-> NoLease]
    /\ sweeping \in BOOLEAN
    /\ told = [t \in Tenants |-> [c \in Controllers |-> NotTold]]
    /\ made = [t \in Tenants |-> 0]
    /\ announced = [t \in Tenants |-> 0]

-----------------------------------------------------------------------------
(* refreshLease moves the end and nothing else: the status stays.          *)
RefreshLease(t, ttl) ==
    /\ leases' = [leases EXCEPT ![t].expiresAt = now + ttl]
    /\ told' = [told EXCEPT ![t][leases[t].controller] =
                    [until |-> now + ttl, status |-> leases[t].status]]

(* The leases of T leave the map.                                          *)
Drop(T) == leases' = [t \in Tenants |-> IF t \in T THEN NoLease ELSE leases[t]]

(* The controllers of C no longer rely on what they were told of T: they   *)
(* gave the lease up, or somebody in charge of all of them withdrew it.    *)
Forget(T, C) ==
    told' = [t \in Tenants |-> [c \in Controllers |->
                IF t \in T /\ c \in C THEN NotTold ELSE told[t][c]]]

(* acquire by the controller that already has the entry.                   *)
AcquireAgain(t, c, ttl) ==
    /\ Has(t)
    /\ leases[t].controller = c
    /\ RefreshLease(t, ttl)
    /\ UNCHANGED <<now, sweeping, made, announced>>

(* The controller c finds no entry, or one it may replace.                 *)
MayReplace_HeldToo(t, c) == Has(t) => leases[t].controller # c

MayReplace(t, c) ==
    Has(t) => leases[t].controller # c /\ (~Active(t) \/ Lapsed(t))

(* acquire by a controller that gets a new lease.  An entry it replaces    *)
(* goes without a callback, and its holder learns nothing.                 *)
AcquireNew(t, c, ttl) ==
    /\ MayReplace(t, c)
    /\ made[t] < LeaseBound
    /\ leases' = [leases EXCEPT ![t] =
           [controller |-> c, expiresAt |-> now + ttl, status |-> "active"]]
    /\ told' = [told EXCEPT ![t][c] = [until |-> now + ttl, status |-> "active"]]
    /\ made' = [made EXCEPT ![t] = @ + 1]
    /\ UNCHANGED <<now, sweeping, announced>>

Acquire(t, c, ttl) == AcquireAgain(t, c, ttl) \/ AcquireNew(t, c, ttl)

(* release; c = Nobody is a call without a controller id.                  *)
Release_NoOwnerCheck(t, c) ==
    /\ Has(t)
    /\ Drop({t})
    /\ Forget({t}, IF c = Nobody THEN Controllers ELSE {c})
    /\ UNCHANGED <<now, sweeping, made, announced>>

Release(t, c) ==
    /\ Has(t)
    /\ c \in {Nobody, leases[t].controller}
    /\ Drop({t})
    /\ Forget({t}, IF c = Nobody THEN Controllers ELSE {c})
    /\ UNCHANGED <<now, sweeping, made, announced>>

(* refresh, by anyone: it throws unless the lease is active and not lapsed,*)
(* and marks a lapsed one without removing it.                             *)
Refresh(t, ttl) ==
    /\ Has(t)
    /\ Active(t)
    /\ IF Lapsed(t)
       THEN /\ leases' = [leases EXCEPT ![t].status = "expired"]
            /\ UNCHANGED told
       ELSE RefreshLease(t, ttl)
    /\ UNCHANGED <<now, sweeping, made, announced>>

Revoke_KeepsEntry(t) ==
    /\ Has(t)
    /\ leases' = [leases EXCEPT ![t].status = "revoked"]
    /\ Forget({t}, Controllers)
    /\ announced' = [announced EXCEPT ![t] = @ + 1]
    /\ UNCHANGED <<now, sweeping, made>>

Revoke(t) ==
    /\ Has(t)
    /\ Drop({t})
    /\ Forget({t}, Controllers)
    /\ announced' = [announced EXCEPT ![t] = @ + 1]
    /\ UNCHANGED <<now, sweeping, made>>

(* hasLease answers FALSE for a lapsed lease, and marks it as refresh does.*)
HasLease(t) ==
    /\ Has(t)
    /\ Lapsed(t)
    /\ leases' = [leases EXCEPT ![t].status = "expired"]
    /\ UNCHANGED <<now, sweeping, told, made, announced>>

(* cleanupExpired, from the interval or called: it passes over the leases  *)
(* that are marked already.                                                *)
Swept_MarkedOnly == {t \in Tenants : Has(t) /\ ~Active(t) /\ Lapsed(t)}

Swept == {t \in Tenants : Has(t) /\ Active(t) /\ Lapsed(t)}

CleanupExpired_KeepsEntry ==
    /\ sweeping
    /\ announced' = [t \in Tenants |->
                        announced[t] + (IF t \in Swept THEN 1 ELSE 0)]
    /\ UNCHANGED <<now, leases, told, sweeping, made>>

CleanupExpired ==
    /\ sweeping
    /\ Drop(Swept)
    /\ announced' = [t \in Tenants |->
                        announced[t] + (IF t \in Swept THEN 1 ELSE 0)]
    /\ UNCHANGED <<now, told, sweeping, made>>

(* clear and stop.                                                         *)
Clear ==
    /\ Drop(Tenants)
    /\ Forget(Tenants, Controllers)
    /\ UNCHANGED <<now, sweeping, made, announced>>

Stop ==
    /\ sweeping
    /\ sweeping' = FALSE
    /\ UNCHANGED <<now, leases, told, made, announced>>

Tick ==
    /\ now < Horizon
    /\ now' = now + 1
    /\ UNCHANGED <<leases, sweeping, told, made, announced>>

Next ==
    \/ \E t \in Tenants, c \in Controllers, ttl \in Ttls : Acquire(t, c, ttl)
    \/ \E t \in Tenants, c \in Controllers \cup {Nobody} : Release(t, c)
    \/ \E t \in Tenants, ttl \in Ttls : Refresh(t, ttl)
    \/ \E t \in Tenants : Revoke(t) \/ HasLease(t)
    \/ CleanupExpired
    \/ Clear
    \/ Stop
    \/ Tick

(* The interval fires as long as it is set.                                *)
Spec == Init /\ [][Next]_vars /\ WF_vars(CleanupExpired)

-----------------------------------------------------------------------------
(* The shape of the state.                                                 *)
TypeOK ==
    /\ now \in Nat
    /\ leases \in [Tenants -> Lease \cup {NoLease}]
    /\ sweeping \in BOOLEAN
    /\ told \in [Tenants -> [Controllers -> [until : Nat, status : Statuses]]]
    /\ made \in [Tenants -> Nat]
    /\ announced \in [Tenants -> Nat]

(* A controller that acquire or refresh answered with success on an active *)
(* lease holds it, by the manager's own check, exactly until the moment it *)
(* was told: nobody else's call, no check and no sweep takes it away       *)
(* earlier, and none makes it last longer.                                 *)
GrantsAreKept ==
    \A t \in Tenants, c \in Controllers :
        (told[t][c].status = "active" /\ told[t][c].until > now) <=> IsLeaseHeldBy(t, c)

(* The end of a lease is announced at most once, whichever of the sweep    *)
(* and a revocation comes first, and never while it is in the map.         *)
AnnouncedAtMostOnce ==
    \A t \in Tenants :
        announced[t] + (IF Has(t) THEN 1 ELSE 0) <= made[t]

(* No two controllers think at once that they hold the same tenant, as     *)
(* long as both were answered from an active lease.                        *)
FirmGrantsAreExclusive ==
    \A t \in Tenants : \A c, d \in Controllers :
        /\ told[t][c].status = "active" /\ told[t][c].until > now
        /\ told[t][d].status = "active" /\ told[t][d].until > now
        => c = d

(* No two controllers that were answered with success, from any lease,     *)
(* think at once that they hold the same tenant: "exclusive leases ... Each*)
(* tenant can hold at most one lease at a time".                           *)
GrantsAreExclusive ==
    \A t \in Tenants : \A c, d \in Controllers :
        told[t][c].until > now /\ told[t][d].until > now => c = d

(* "Clean up expired leases": while the interval runs, an entry whose time *)
(* has come, and that no check has marked as expired before the sweep saw  *)
(* it, leaves the map, or is extended, or replaced, in the end.            *)
UnmarkedIsCleanedUp ==
    \A t \in Tenants :
        (Has(t) /\ Active(t) /\ Lapsed(t))
            ~> (~sweeping \/ ~Has(t) \/ ~Active(t) \/ ~Lapsed(t))

-----------------------------------------------------------------------------
(* Why GrantsAreKept holds: an active lease is what its controller was     *)
(* told, and every other answer that was firm is over.                     *)
Had(t, c) == Has(t) /\ Active(t) /\ leases[t].controller = c

KeptOf(t, c) ==
    /\ Had(t, c) => /\ told[t][c].status = "active"
                    /\ told[t][c].until = leases[t].expiresAt
    /\ ~Had(t, c) /\ told[t][c].status = "active" => told[t][c].until <= now

Kept == \A t \in Tenants, c \in Controllers : KeptOf(t, c)

(* By the manager's own check, a tenant's lease is an exclusive lease.     *)
HolderOf(t) ==
    IF \E c \in Controllers : IsLeaseHeldBy(t, c) THEN leases[t].controller ELSE Nobody

UntilOf(t) == IF HolderOf(t) = Nobody THEN 0 ELSE leases[t].expiresAt

Abstract == INSTANCE ExclusiveLease WITH
    Resources <- Tenants, Holders <- Controllers, Nobody <- Nobody,
    clock  <- now,
    holder <- [t \in Tenants |-> HolderOf(t)],
    until  <- [t \in Tenants |-> UntilOf(t)]

(* The lease table implements ExclusiveLease: a tenant passes from one     *)
(* controller to another only through a state in which nobody holds it.    *)
IsExclusiveLease == Abstract!Spec

=============================================================================
