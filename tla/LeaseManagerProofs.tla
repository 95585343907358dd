------------------------- MODULE LeaseManagerProofs -------------------------
(***************************************************************************)
(* Type correctness of LeaseManager, the promise that a grant is kept for  *)
(* its time, its exclusiveness, the accounting of announced ends, and that *)
(* the table implements ExclusiveLease, for every set of tenants,          *)
(* controllers and times to live.                                          *)
(***************************************************************************)
EXTENDS LeaseManager, TLAPS

(* Records of the two shapes, as the provers need them.                    *)
LEMMA LeaseFacts ==
    ASSUME NEW l \in Lease
    PROVE  /\ l # NoLease
           /\ l.controller \in Controllers
           /\ l.expiresAt \in Nat
           /\ l.status \in Statuses
    BY NoLeaseAssumption DEF Lease

(* Every call keeps the shape of the state.                                *)
LEMMA TypeStep == TypeOK /\ [Next]_vars => TypeOK'
<1> SUFFICES ASSUME TypeOK, [Next]_vars PROVE TypeOK'
    OBVIOUS
<1> USE TtlsAssumption DEF TypeOK
<1>1. ASSUME NEW t \in Tenants, NEW ttl \in Ttls, Has(t), RefreshLease(t, ttl)
      PROVE  /\ leases' \in [Tenants -> Lease \cup {NoLease}]
             /\ told' \in [Tenants -> [Controllers -> [until : Nat, status : Statuses]]]
    <2>1. leases[t] \in Lease
        BY <1>1 DEF Has
    <2>2. now + ttl \in Nat
        OBVIOUS
    <2>3. [leases[t] EXCEPT !.expiresAt = now + ttl] \in Lease
        BY <2>1, <2>2 DEF Lease
    <2>4. leases' = [leases EXCEPT ![t] = [leases[t] EXCEPT !.expiresAt = now + ttl]]
        BY <1>1 DEF RefreshLease
    <2>5. leases[t].status \in Statuses
        BY <2>1, LeaseFacts
    <2>6. leases[t].controller \in Controllers
        BY <2>1, LeaseFacts
    <2> QED
        BY <1>1, <2>2, <2>3, <2>4, <2>5, <2>6 DEF RefreshLease
<1>2. \A T \in SUBSET Tenants : Drop(T) => leases' \in [Tenants -> Lease \cup {NoLease}]
    BY DEF Drop
<1>14. \A T, C : Forget(T, C) =>
          told' \in [Tenants -> [Controllers -> [until : Nat, status : Statuses]]]
    BY DEF Forget, NotTold, Statuses
<1>3. ASSUME NEW t \in Tenants, Has(t),
             leases' = [leases EXCEPT ![t].status = "expired"]
      PROVE  leases' \in [Tenants -> Lease \cup {NoLease}]
    <2>1. leases[t] \in Lease
        BY <1>3 DEF Has
    <2>2. [leases[t] EXCEPT !.status = "expired"] \in Lease
        BY <2>1 DEF Lease, Statuses
    <2> QED
        BY <1>3, <2>2
<1>4. ASSUME NEW t \in Tenants, NEW c \in Controllers, NEW ttl \in Ttls, Acquire(t, c, ttl)
      PROVE  TypeOK'
    <2>1. CASE AcquireAgain(t, c, ttl)
        BY <2>1, <1>1 DEF AcquireAgain
    <2>2. CASE AcquireNew(t, c, ttl)
        <3>1. now + ttl \in Nat
            OBVIOUS
        <3>2. [controller |-> c, expiresAt |-> now + ttl, status |-> "active"] \in Lease
            BY <3>1 DEF Lease, Statuses
        <3> QED
            BY <2>2, <3>1, <3>2 DEF AcquireNew, Statuses
    <2> QED
        BY <1>4, <2>1, <2>2 DEF Acquire
<1>5. ASSUME NEW t \in Tenants, NEW c \in Controllers \cup {Nobody}, Release(t, c)
      PROVE  TypeOK'
    BY <1>5, <1>2, <1>14 DEF Release
<1>6. ASSUME NEW t \in Tenants, NEW ttl \in Ttls, Refresh(t, ttl)
      PROVE  TypeOK'
    BY <1>6, <1>1, <1>3 DEF Refresh
<1>7. ASSUME NEW t \in Tenants, Revoke(t)
      PROVE  TypeOK'
    BY <1>7, <1>2, <1>14 DEF Revoke
<1>8. ASSUME NEW t \in Tenants, HasLease(t)
      PROVE  TypeOK'
    BY <1>8, <1>3 DEF HasLease
<1>9. CASE CleanupExpired
    BY <1>9, <1>2 DEF CleanupExpired, Swept
<1>10. CASE Clear
    BY <1>10, <1>2, <1>14 DEF Clear
<1>11. CASE Stop
    BY <1>11 DEF Stop
<1>12. CASE Tick
    BY <1>12 DEF Tick
<1>13. CASE UNCHANGED vars
    BY <1>13 DEF vars
<1> QED
    BY <1>4, <1>5, <1>6, <1>7, <1>8, <1>9, <1>10, <1>11, <1>12, <1>13 DEF Next

(* The first state has the shape.                                          *)
LEMMA TypeInit == Init => TypeOK
    BY DEF Init, TypeOK, NotTold, Statuses

(* The shape of the state, for every run.                                  *)
THEOREM TypeCorrect == Spec => []TypeOK
    BY TypeInit, TypeStep, PTL DEF Spec

-----------------------------------------------------------------------------
(* The inductive invariant.                                                *)
IInv == TypeOK /\ Kept

(* At first nobody was told anything and there are no leases.              *)
LEMMA KeptInit == Init => Kept
    BY DEF Init, Kept, KeptOf, Had, Has, NotTold

(* Extending a lease tells its controller exactly the new end; it is firm  *)
(* only if the lease is active.                                            *)
LEMMA RefreshKeeps ==
    ASSUME IInv, NEW t \in Tenants, NEW ttl \in Ttls, Has(t),
           RefreshLease(t, ttl), UNCHANGED now
    PROVE  Kept'
<1> DEFINE s == leases[t]
<1>1. s \in Lease
    BY DEF IInv, TypeOK, Has
<1>2. /\ leases'[t] = [s EXCEPT !.expiresAt = now + ttl]
      /\ \A u \in Tenants \ {t} : leases'[u] = leases[u] /\ told'[u] = told[u]
      /\ told'[t][s.controller] = [until |-> now + ttl, status |-> s.status]
      /\ \A c \in Controllers \ {s.controller} : told'[t][c] = told[t][c]
    BY <1>1, LeaseFacts DEF IInv, TypeOK, RefreshLease
<1>3. /\ leases'[t].controller = s.controller
      /\ leases'[t].status = s.status
      /\ leases'[t].expiresAt = now + ttl
      /\ leases'[t] \in Lease
    <2>1. [s EXCEPT !.expiresAt = now + ttl] =
              [controller |-> s.controller, expiresAt |-> now + ttl, status |-> s.status]
        BY <1>1 DEF Lease
    <2>2. now + ttl \in Nat
        BY TtlsAssumption DEF IInv, TypeOK
    <2> QED
        BY <1>1, <1>2, <2>1, <2>2, LeaseFacts DEF Lease
<1>4. (Has(t) /\ Active(t))' <=> (Has(t) /\ Active(t))
    BY <1>1, <1>3, LeaseFacts DEF Has, Active
<1>5. ASSUME NEW u \in Tenants, NEW c \in Controllers
      PROVE  KeptOf(u, c)'
    <2>0. KeptOf(u, c)
        BY DEF IInv, Kept
    <2>1. CASE u # t
        BY <2>0, <2>1, <1>2 DEF KeptOf, Had, Has, Active
    <2>2. CASE u = t /\ c # s.controller
        BY <2>0, <2>2, <1>2, <1>3 DEF KeptOf, Had, Has, Active
    <2>3. CASE u = t /\ c = s.controller
        BY <2>3, <1>2, <1>3, <1>4 DEF KeptOf, Had, Active
    <2> QED
        BY <2>1, <2>2, <2>3
<1> QED
    BY <1>5 DEF Kept

(* Dropping leases is no loss for a controller that gave its own up, or    *)
(* whose time has come.                                                    *)
LEMMA DropKeeps ==
    ASSUME IInv, NEW T \in SUBSET Tenants, Drop(T), UNCHANGED now,
           \A t \in Tenants, c \in Controllers :
               \/ told'[t][c] = NotTold /\ t \in T
               \/ told'[t][c] = told[t][c] /\ (t \in T /\ Had(t, c) => Lapsed(t))
    PROVE  Kept'
<1> SUFFICES ASSUME NEW t \in Tenants, NEW c \in Controllers
             PROVE  KeptOf(t, c)'
    BY DEF Kept
<1>0. KeptOf(t, c) /\ now \in Nat
    BY DEF IInv, Kept, TypeOK
<1>1. CASE t \notin T
    BY <1>0, <1>1 DEF Drop, KeptOf, Had, Has, Active
<1>2. CASE t \in T
    <2>1. ~Had(t, c)'
        BY <1>2 DEF Drop, Had, Has
    <2>2. CASE told'[t][c] = NotTold
        BY <1>0, <2>1, <2>2 DEF KeptOf, NotTold
    <2>3. CASE told'[t][c] = told[t][c] /\ (Had(t, c) => Lapsed(t))
        BY <1>0, <2>1, <2>3 DEF KeptOf, Lapsed
    <2> QED
        BY <1>2, <2>2, <2>3
<1> QED
    BY <1>1, <1>2

(* Marking a lapsed lease takes nothing from its controller: its time has  *)
(* come.                                                                   *)
LEMMA MarkKeeps ==
    ASSUME IInv, NEW t \in Tenants, Has(t), Lapsed(t),
           leases' = [leases EXCEPT ![t].status = "expired"],
           UNCHANGED <<now, told>>
    PROVE  Kept'
<1>1. leases[t] \in Lease
    BY DEF IInv, TypeOK, Has
<1>2. /\ leases'[t] = [leases[t] EXCEPT !.status = "expired"]
      /\ \A u \in Tenants \ {t} : leases'[u] = leases[u]
    BY DEF IInv, TypeOK
<1>3. leases'[t].status = "expired" 
    BY <1>1, <1>2 DEF Lease
<1>4. ASSUME NEW u \in Tenants, NEW c \in Controllers
      PROVE  KeptOf(u, c)'
    <2>0. KeptOf(u, c)
        BY DEF IInv, Kept
    <2>1. CASE u # t
        BY <2>0, <2>1, <1>2 DEF KeptOf, Had, Has, Active
    <2>2. CASE u = t
        <3>1. ~Had(t, c)'
            BY <1>3 DEF Active, Had
        <3>2. told[t][c].status = "active" => told[t][c].until <= now
            BY <2>0, <2>2 DEF KeptOf, Lapsed
        <3> QED
            BY <2>2, <3>1, <3>2 DEF KeptOf
    <2> QED
        BY <2>1, <2>2
<1> QED
    BY <1>4 DEF Kept

(* Every call keeps the bond between what was told and what is leased.     *)
LEMMA KeptStep == IInv /\ [Next]_vars => Kept'
<1> SUFFICES ASSUME IInv, [Next]_vars PROVE Kept'
    OBVIOUS
<1>1. ASSUME NEW t \in Tenants, NEW c \in Controllers, NEW ttl \in Ttls, Acquire(t, c, ttl)
      PROVE  Kept'
    <2>1. CASE AcquireAgain(t, c, ttl)
        BY <2>1, RefreshKeeps DEF AcquireAgain
    <2>2. CASE AcquireNew(t, c, ttl)
        <3>1. /\ leases'[t] = [controller |-> c, expiresAt |-> now + ttl, status |-> "active"]
              /\ \A u \in Tenants \ {t} : leases'[u] = leases[u] /\ told'[u] = told[u]
              /\ told'[t][c] = [until |-> now + ttl, status |-> "active"]
              /\ \A d \in Controllers \ {c} : told'[t][d] = told[t][d]
              /\ now' = now
            BY <2>2 DEF AcquireNew, IInv, TypeOK
        <3>2. \A d \in Controllers \ {c} :
                  told[t][d].status = "active" => told[t][d].until <= now
            <4> TAKE d \in Controllers \ {c}
            <4>1. KeptOf(t, d)
                BY DEF IInv, Kept
            <4>2. Had(t, d) => Lapsed(t)
                BY <2>2 DEF AcquireNew, MayReplace, Had
            <4> QED
                BY <4>1, <4>2 DEF KeptOf, Lapsed
        <3>3. ASSUME NEW u \in Tenants, NEW d \in Controllers
              PROVE  KeptOf(u, d)'
            <4>1. CASE u # t
                BY <4>1, <3>1 DEF IInv, Kept, KeptOf, Had, Has, Active
            <4>2. CASE u = t /\ d # c
                BY <4>2, <3>1, <3>2 DEF KeptOf, Had
            <4>3. CASE u = t /\ d = c
                <5>1. leases'[t] \in Lease
                    BY <3>1, TypeStep DEF IInv, TypeOK, Lease, Statuses
                <5>2. Had(t, c)'
                    BY <5>1, <3>1, LeaseFacts DEF Had, Has, Active
                <5> QED
                    BY <4>3, <3>1, <5>2 DEF KeptOf
            <4> QED
                BY <4>1, <4>2, <4>3
        <3> QED
            BY <3>3 DEF Kept
    <2> QED
        BY <1>1, <2>1, <2>2 DEF Acquire
<1>2. ASSUME NEW t \in Tenants, NEW c \in Controllers \cup {Nobody}, Release(t, c)
      PROVE  Kept'
    <2>1. {t} \in SUBSET Tenants
        OBVIOUS
    <2>2. ASSUME NEW u \in Tenants, NEW d \in Controllers
          PROVE  \/ told'[u][d] = NotTold /\ u \in {t}
                 \/ told'[u][d] = told[u][d] /\ (u \in {t} /\ Had(u, d) => Lapsed(u))
        BY <1>2 DEF Release, Forget, Had
    <2> QED
        BY <1>2, <2>1, <2>2, DropKeeps DEF Release
<1>3. ASSUME NEW t \in Tenants, NEW ttl \in Ttls, Refresh(t, ttl)
      PROVE  Kept'
    <2>1. CASE Lapsed(t)
        BY <1>3, <2>1, MarkKeeps DEF Refresh
    <2>2. CASE ~Lapsed(t)
        BY <1>3, <2>2, RefreshKeeps DEF Refresh
    <2> QED
        BY <2>1, <2>2
<1>4. ASSUME NEW t \in Tenants, Revoke(t)
      PROVE  Kept'
    BY <1>4, DropKeeps DEF Revoke, Forget
<1>5. ASSUME NEW t \in Tenants, HasLease(t)
      PROVE  Kept'
    BY <1>5, MarkKeeps DEF HasLease
<1>6. CASE CleanupExpired
    BY <1>6, DropKeeps DEF CleanupExpired, Swept, Had
<1>7. CASE Clear
    BY <1>7, DropKeeps DEF Clear, Forget
<1>8. CASE Stop
    BY <1>8 DEF Stop, IInv, Kept, KeptOf, Had, Has, Active
<1>9. CASE Tick
    BY <1>9 DEF Tick, IInv, TypeOK, Kept, KeptOf, Had, Has, Active
<1>10. CASE UNCHANGED vars
    BY <1>10 DEF vars, IInv, Kept, KeptOf, Had, Has, Active
<1> QED
    BY <1>1, <1>2, <1>3, <1>4, <1>5, <1>6, <1>7, <1>8, <1>9, <1>10 DEF Next

(* With that bond, isLeaseHeldBy answers what the controller was told.     *)
LEMMA KeptImplies == IInv => GrantsAreKept
<1> SUFFICES ASSUME IInv, NEW t \in Tenants, NEW c \in Controllers
             PROVE  (told[t][c].status = "active" /\ told[t][c].until > now) <=> IsLeaseHeldBy(t, c)
    BY DEF GrantsAreKept
<1>1. now \in Nat /\ told[t][c].until \in Nat
    BY DEF IInv, TypeOK
<1>2. KeptOf(t, c)
    BY DEF IInv, Kept
<1>3. IsLeaseHeldBy(t, c) <=> Had(t, c) /\ ~Lapsed(t)
    BY DEF IsLeaseHeldBy, Had
<1>4. CASE Had(t, c)
    <2>1. leases[t].expiresAt \in Nat
        BY <1>4, LeaseFacts DEF IInv, TypeOK, Had, Has
    <2>2. ~Lapsed(t) <=> leases[t].expiresAt > now
        BY <1>1, <2>1 DEF Lapsed
    <2> QED
        BY <1>2, <1>3, <1>4, <2>2 DEF KeptOf
<1>5. CASE ~Had(t, c)
    BY <1>1, <1>2, <1>3, <1>5 DEF KeptOf
<1> QED
    BY <1>4, <1>5

(* The inductive invariant holds in every state.                           *)
LEMMA IInvAlways == Spec => []IInv
<1>1. Init => IInv
    BY TypeInit, KeptInit DEF IInv
<1>2. IInv /\ [Next]_vars => IInv'
    BY TypeStep, KeptStep DEF IInv
<1> QED
    BY <1>1, <1>2, PTL DEF Spec

(* What each controller was firmly told is what isLeaseHeldBy answers, at  *)
(* every moment.                                                           *)
THEOREM GrantsKept == Spec => []GrantsAreKept
    BY IInvAlways, KeptImplies, PTL

(* Two firm grants never overlap.                                          *)
THEOREM FirmGrantsExclusive == Spec => []FirmGrantsAreExclusive
<1>1. GrantsAreKept => FirmGrantsAreExclusive
    BY DEF GrantsAreKept, FirmGrantsAreExclusive, IsLeaseHeldBy
<1> QED
    BY <1>1, GrantsKept, PTL

-----------------------------------------------------------------------------
(* Only a new lease adds to what may be announced, and a lease that leaves *)
(* the map was counted while it was there.                                 *)
LEMMA AnnouncedStep ==
    TypeOK /\ AnnouncedAtMostOnce /\ [Next]_vars => AnnouncedAtMostOnce'
<1> DEFINE Owed(t) == announced[t] + (IF Has(t) THEN 1 ELSE 0) <= made[t]
<1> SUFFICES ASSUME TypeOK, AnnouncedAtMostOnce, [Next]_vars, NEW u \in Tenants
             PROVE  Owed(u)'
    BY DEF AnnouncedAtMostOnce
<1>0. Owed(u) /\ announced[u] \in Nat /\ made[u] \in Nat
    BY DEF AnnouncedAtMostOnce, TypeOK
<1>1. ASSUME NEW t \in Tenants, NEW ttl \in Ttls, Has(t), RefreshLease(t, ttl),
             UNCHANGED <<made, announced>>
      PROVE  Owed(u)'
    BY <1>0, <1>1 DEF RefreshLease, Has, TypeOK
<1>2. ASSUME NEW T \in SUBSET Tenants, Drop(T), made' = made,
             announced'[u] \in Nat,
             announced'[u] <= announced[u] + (IF Has(u) /\ u \in T THEN 1 ELSE 0)
      PROVE  Owed(u)'
    BY <1>0, <1>2 DEF Drop, Has
<1>3. ASSUME NEW t \in Tenants, Has(t),
             leases' = [leases EXCEPT ![t].status = "expired"],
             UNCHANGED <<made, announced>>
      PROVE  Owed(u)'
    BY <1>0, <1>3 DEF Has, TypeOK
<1>4. ASSUME NEW t \in Tenants, NEW c \in Controllers, NEW ttl \in Ttls, Acquire(t, c, ttl)
      PROVE  Owed(u)'
    <2>1. CASE AcquireAgain(t, c, ttl)
        BY <2>1, <1>1 DEF AcquireAgain
    <2>2. CASE AcquireNew(t, c, ttl) /\ u = t
        BY <1>0, <2>2 DEF AcquireNew, TypeOK
    <2>3. CASE AcquireNew(t, c, ttl) /\ u # t
        BY <1>0, <2>3 DEF AcquireNew, TypeOK, Has
    <2> QED
        BY <1>4, <2>1, <2>2, <2>3 DEF Acquire
<1>5. ASSUME NEW t \in Tenants, NEW c \in Controllers \cup {Nobody}, Release(t, c)
      PROVE  Owed(u)'
    BY <1>0, <1>2, <1>5 DEF Release
<1>6. ASSUME NEW t \in Tenants, NEW ttl \in Ttls, Refresh(t, ttl)
      PROVE  Owed(u)'
    BY <1>1, <1>3, <1>6 DEF Refresh
<1>7. ASSUME NEW t \in Tenants, Revoke(t)
      PROVE  Owed(u)'
    BY <1>0, <1>2, <1>7 DEF Revoke, TypeOK
<1>8. ASSUME NEW t \in Tenants, HasLease(t)
      PROVE  Owed(u)'
    BY <1>3, <1>8 DEF HasLease
<1>9. CASE CleanupExpired
    BY <1>0, <1>2, <1>9 DEF CleanupExpired, Swept
<1>10. CASE Clear
    BY <1>0, <1>2, <1>10 DEF Clear
<1>11. CASE Stop \/ Tick \/ UNCHANGED vars
    BY <1>0, <1>11 DEF Stop, Tick, vars, Has
<1> QED
    BY <1>4, <1>5, <1>6, <1>7, <1>8, <1>9, <1>10, <1>11 DEF Next

(* No lease's end is announced twice, nor while the lease is in the map.   *)
THEOREM AnnouncedOnce == Spec => []AnnouncedAtMostOnce
<1>1. Init => AnnouncedAtMostOnce
    <2> SUFFICES ASSUME Init, NEW t \in Tenants
                 PROVE  announced[t] + (IF Has(t) THEN 1 ELSE 0) <= made[t]
        BY DEF AnnouncedAtMostOnce
    <2>1. announced[t] = 0 /\ made[t] = 0 /\ ~Has(t)
        BY DEF Init, Has
    <2> QED
        BY <2>1
<1> QED
    BY <1>1, TypeInit, TypeStep, AnnouncedStep, PTL DEF Spec

-----------------------------------------------------------------------------
(* The lease table implements ExclusiveLease.  A tenant is held as long as *)
(* its lease is live, and by the controller of the lease.                  *)
Live(t) == Has(t) /\ ~Lapsed(t) /\ Active(t)

(* The mapping, by the entry of the tenant alone; before a step and after. *)
LEMMA MappedBefore ==
    ASSUME TypeOK, NEW t \in Tenants
    PROVE  /\ HolderOf(t) = IF Live(t) THEN leases[t].controller ELSE Nobody
           /\ UntilOf(t) = IF Live(t) THEN leases[t].expiresAt ELSE 0
           /\ Live(t) => leases[t].controller \in Controllers
<1>1. Live(t) => leases[t].controller \in Controllers
    BY LeaseFacts DEF Live, Has, TypeOK
<1>2. (\E c \in Controllers : IsLeaseHeldBy(t, c)) <=> Live(t)
    BY <1>1 DEF IsLeaseHeldBy, Live
<1>3. HolderOf(t) = IF Live(t) THEN leases[t].controller ELSE Nobody
    BY <1>2 DEF HolderOf
<1> QED
    BY <1>1, <1>3, NobodyAssumption DEF UntilOf

(* The same mapping in the next state.                                     *)
LEMMA MappedAfter ==
    ASSUME TypeOK', NEW t \in Tenants
    PROVE  /\ HolderOf(t)' = IF Live(t)' THEN leases'[t].controller ELSE Nobody
           /\ UntilOf(t)' = IF Live(t)' THEN leases'[t].expiresAt ELSE 0
           /\ Live(t)' => leases'[t].controller \in Controllers
<1>1. Live(t)' => leases'[t].controller \in Controllers
    BY LeaseFacts DEF Live, Has, TypeOK
<1>2. (\E c \in Controllers : IsLeaseHeldBy(t, c)') <=> Live(t)'
    BY <1>1 DEF IsLeaseHeldBy, Live, Has, Lapsed, Active
<1>3. HolderOf(t)' = IF Live(t)' THEN leases'[t].controller ELSE Nobody
    BY <1>2 DEF HolderOf
<1> QED
    BY <1>1, <1>3, NobodyAssumption DEF UntilOf

(* A call about one tenant takes it, extends it or frees it, when it does  *)
(* not put one controller in the place of another.                         *)
LEMMA OneTenant ==
    ASSUME TypeOK, TypeOK', UNCHANGED now, NEW t \in Tenants,
           \A u \in Tenants : u # t => leases'[u] = leases[u],
           Live(t) /\ Live(t)' => leases'[t].controller = leases[t].controller
    PROVE  Abstract!Next
<1> DEFINE H == [u \in Tenants |-> HolderOf(u)]
           U == [u \in Tenants |-> UntilOf(u)]
<1>1. ASSUME NEW u \in Tenants, u # t
      PROVE  HolderOf(u)' = HolderOf(u) /\ UntilOf(u)' = UntilOf(u)
    <2>1. leases'[u] = leases[u] /\ now' = now
        BY <1>1
    <2>2. Live(u)' <=> Live(u)
        BY <2>1 DEF Live, Has, Lapsed, Active
    <2> QED
        BY <2>1, <2>2, MappedBefore, MappedAfter
<1>2. CASE ~Live(t)'
    <2>1. HolderOf(t)' = Nobody /\ UntilOf(t)' = 0
        BY <1>2, MappedAfter
    <2>2. /\ H' = [u \in Tenants |-> IF u \in {t} THEN Nobody ELSE H[u]]
          /\ U' = [u \in Tenants |-> IF u \in {t} THEN 0 ELSE U[u]]
        BY <1>1, <2>1
    <2>3. Abstract!Free({t})
        BY <2>2 DEF Abstract!Free
    <2> QED
        BY <2>3 DEF Abstract!Next
<1>3. ASSUME Live(t)'
      PROVE  /\ HolderOf(t)' = leases'[t].controller
             /\ HolderOf(t)' \in Controllers
             /\ UntilOf(t)' > now
    <2>1. ~Lapsed(t)' /\ Has(t)'
        BY <1>3 DEF Live
    <2>2. leases'[t].expiresAt \in Nat /\ now \in Nat
        BY <2>1, LeaseFacts DEF TypeOK, Has
    <2>3. leases'[t].expiresAt > now
        BY <2>1, <2>2 DEF Lapsed
    <2> QED
        BY <1>3, <2>3, MappedAfter
<1>4. /\ U' = [U EXCEPT ![t] = U'[t]]
      /\ H' = [H EXCEPT ![t] = HolderOf(t)']
    BY <1>1
<1>5. CASE Live(t)' /\ ~Live(t)
    <2>1. H[t] = Nobody
        BY <1>5, MappedBefore
    <2>2. U'[t] > now /\ HolderOf(t)' \in Controllers
        BY <1>3, <1>5
    <2>3. Abstract!Take(t, HolderOf(t)')
        BY <1>4, <2>1, <2>2 DEF Abstract!Take
    <2> QED
        BY <2>2, <2>3 DEF Abstract!Next
<1>6. CASE Live(t)' /\ Live(t)
    <2>1. H[t] # Nobody /\ H[t] = HolderOf(t)'
        BY <1>3, <1>6, MappedBefore, NobodyAssumption
    <2>2. U'[t] > now /\ H' = H
        BY <1>1, <1>3, <1>6, <2>1
    <2>3. Abstract!Extend(t)
        BY <1>4, <2>1, <2>2 DEF Abstract!Extend
    <2> QED
        BY <2>3 DEF Abstract!Next
<1> QED
    BY <1>2, <1>5, <1>6

(* Calls that take leases out of the map free their tenants.               *)
LEMMA ManyTenants ==
    ASSUME TypeOK, TypeOK', UNCHANGED now, NEW T \in SUBSET Tenants, Drop(T)
    PROVE  Abstract!Next
<1> DEFINE H == [u \in Tenants |-> HolderOf(u)]
           U == [u \in Tenants |-> UntilOf(u)]
<1>1. ASSUME NEW u \in Tenants
      PROVE  /\ HolderOf(u)' = IF u \in T THEN Nobody ELSE HolderOf(u)
             /\ UntilOf(u)' = IF u \in T THEN 0 ELSE UntilOf(u)
    <2>1. CASE u \in T
        <3>1. ~Live(u)'
            BY <2>1 DEF Drop, Live, Has
        <3> QED
            BY <2>1, <3>1, MappedAfter
    <2>2. CASE u \notin T
        <3>1. leases'[u] = leases[u] /\ now' = now
            BY <2>2 DEF Drop
        <3>2. Live(u)' <=> Live(u)
            BY <3>1 DEF Live, Has, Lapsed, Active
        <3> QED
            BY <2>2, <3>1, <3>2, MappedBefore, MappedAfter
    <2> QED
        BY <2>1, <2>2
<1>2. Abstract!Free(T)
    BY <1>1 DEF Abstract!Free
<1> QED
    BY <1>2 DEF Abstract!Next

(* Time frees exactly the tenants whose lease ends.                        *)
LEMMA TimePasses ==
    ASSUME TypeOK, TypeOK', Tick
    PROVE  Abstract!Next
<1> DEFINE H == [u \in Tenants |-> HolderOf(u)]
           U == [u \in Tenants |-> UntilOf(u)]
<1>0. now' = now + 1 /\ leases' = leases /\ now \in Nat
    BY DEF Tick, TypeOK
<1>1. ASSUME NEW u \in Tenants
      PROVE  /\ HolderOf(u)' = IF UntilOf(u) <= now' THEN Nobody ELSE HolderOf(u)
             /\ UntilOf(u)' = IF UntilOf(u) <= now' THEN 0 ELSE UntilOf(u)
    <2>1. CASE Live(u)
        <3>1. leases[u].expiresAt \in Nat
            BY <2>1, LeaseFacts DEF Live, Has, TypeOK
        <3>2. Live(u)' <=> ~(leases[u].expiresAt <= now')
            BY <1>0, <2>1 DEF Live, Has, Lapsed, Active
        <3> QED
            BY <1>0, <2>1, <3>1, <3>2, MappedBefore, MappedAfter
    <2>2. CASE ~Live(u)
        <3>1. ~Live(u)'
            <4>1. Has(u) => leases[u].expiresAt \in Nat
                BY LeaseFacts DEF Has, TypeOK
            <4> QED
                BY <1>0, <2>2, <4>1 DEF Live, Has, Lapsed, Active
        <3> QED
            BY <1>0, <2>2, <3>1, MappedBefore, MappedAfter
    <2> QED
        BY <2>1, <2>2
<1>2. Abstract!Pass
    BY <1>0, <1>1 DEF Abstract!Pass
<1> QED
    BY <1>2 DEF Abstract!Next

(* Every step is one of the abstract specification, or none.               *)
LEMMA StepRefines ==
    TypeOK /\ TypeOK' /\ [Next]_vars => [Abstract!Next]_(Abstract!vars)
<1> SUFFICES ASSUME TypeOK, TypeOK', [Next]_vars
             PROVE  [Abstract!Next]_(Abstract!vars)
    OBVIOUS
<1>1. ASSUME NEW t \in Tenants, NEW ttl \in Ttls, Has(t), RefreshLease(t, ttl), UNCHANGED now
      PROVE  Abstract!Next
    <2>1. \A u \in Tenants : u # t => leases'[u] = leases[u]
        BY <1>1 DEF RefreshLease, TypeOK
    <2>2. leases'[t].controller = leases[t].controller
        <3>1. leases[t] \in Lease
            BY <1>1 DEF Has, TypeOK
        <3>2. leases'[t] = [leases[t] EXCEPT !.expiresAt = now + ttl]
            BY <1>1 DEF RefreshLease, TypeOK
        <3> QED
            BY <3>1, <3>2 DEF Lease
    <2> QED
        BY <1>1, <2>1, <2>2, OneTenant
<1>2. ASSUME NEW t \in Tenants, leases' = [leases EXCEPT ![t].status = "expired"],
             Lapsed(t), UNCHANGED now
      PROVE  Abstract!Next
    <2>1. /\ \A u \in Tenants : u # t => leases'[u] = leases[u]
          /\ ~Live(t)
        BY <1>2 DEF Live, TypeOK
    <2> QED
        BY <1>2, <2>1, OneTenant
<1>3. ASSUME NEW t \in Tenants, NEW c \in Controllers, NEW ttl \in Ttls, Acquire(t, c, ttl)
      PROVE  Abstract!Next
    <2>1. CASE AcquireAgain(t, c, ttl)
        BY <1>1, <2>1 DEF AcquireAgain
    <2>2. CASE AcquireNew(t, c, ttl)
        <3>1. /\ \A u \in Tenants : u # t => leases'[u] = leases[u]
              /\ ~Live(t)
              /\ UNCHANGED now
            BY <2>2 DEF AcquireNew, MayReplace, Live, TypeOK
        <3> QED
            BY <3>1, OneTenant
    <2> QED
        BY <1>3, <2>1, <2>2 DEF Acquire
<1>4. ASSUME NEW t \in Tenants, NEW c \in Controllers \cup {Nobody}, Release(t, c)
      PROVE  Abstract!Next
    BY <1>4, ManyTenants DEF Release
<1>5. ASSUME NEW t \in Tenants, NEW ttl \in Ttls, Refresh(t, ttl)
      PROVE  Abstract!Next
    BY <1>1, <1>2, <1>5 DEF Refresh
<1>6. ASSUME NEW t \in Tenants, Revoke(t)
      PROVE  Abstract!Next
    BY <1>6, ManyTenants DEF Revoke
<1>7. ASSUME NEW t \in Tenants, HasLease(t)
      PROVE  Abstract!Next
    BY <1>2, <1>7 DEF HasLease
<1>8. CASE CleanupExpired
    <2>1. Swept \in SUBSET Tenants
        BY DEF Swept
    <2> QED
        BY <1>8, <2>1, ManyTenants DEF CleanupExpired
<1>9. CASE Clear
    BY <1>9, ManyTenants DEF Clear
<1>10. CASE Stop \/ UNCHANGED vars
    <2>1. leases' = leases /\ now' = now
        BY <1>10 DEF Stop, vars
    <2>2. \A u \in Tenants : Live(u)' <=> Live(u)
        BY <2>1 DEF Live, Has, Lapsed, Active
    <2>3. \A u \in Tenants : HolderOf(u)' = HolderOf(u) /\ UntilOf(u)' = UntilOf(u)
        BY <2>1, <2>2, MappedBefore, MappedAfter
    <2>4. UNCHANGED Abstract!vars
        BY <2>1, <2>3 DEF Abstract!vars
    <2> QED
        BY <2>4
<1>11. CASE Tick
    BY <1>11, TimePasses
<1> QED
    BY <1>3, <1>4, <1>5, <1>6, <1>7, <1>8, <1>9, <1>10, <1>11 DEF Next

(* The lease table implements ExclusiveLease: a tenant passes from one     *)
(* controller to another only through a state in which nobody holds it,    *)
(* and is taken from its holder before its time only by being freed.       *)
THEOREM Refinement == Spec => IsExclusiveLease
<1>1. Init => Abstract!Init
    <2> SUFFICES ASSUME Init
                 PROVE  Abstract!Init
        OBVIOUS
    <2>1. \A t \in Tenants : ~Live(t)
        BY DEF Init, Live, Has
    <2>2. \A t \in Tenants : HolderOf(t) = Nobody /\ UntilOf(t) = 0
        BY <2>1, TypeInit, MappedBefore
    <2> QED
        BY <2>2 DEF Init, Abstract!Init
<1> QED
    BY <1>1, TypeCorrect, StepRefines, PTL DEF Spec, IsExclusiveLease, Abstract!Spec

=============================================================================
