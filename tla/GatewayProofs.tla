--------------------------- MODULE GatewayProofs ---------------------------
(***************************************************************************)
(* Proofs about the HTTP sessions of Gateway.tla, for any set of sessions  *)
(* and any limit on them.                                                  *)
(***************************************************************************)
EXTENDS Gateway, TLAPS

(* A session that never began is nowhere, so that its id comes to the      *)
(* gateway once, by its initialize request.                                *)
BeginsOnce ==
    \A s \in Sessions : controller[s] = "none" =>
        /\ s \notin gateway \cup router \cup closing \cup cleaning \cup destroying
        /\ closes[s] = 0

(* The McpServer is open while the gateway has the entry, and while its    *)
(* transport is closed first.                                              *)
OpenWhileKnown == \A s \in gateway \cup cleaning : closes[s] = 0

Inv == TypeOK /\ BeginsOnce /\ OpenWhileKnown /\ ClosedOnce /\ ActiveIsReachable

(* The gateway starts without sessions.                                    *)
LEMMA InitInv == Init => Inv
<1> SUFFICES ASSUME Init
             PROVE  Inv
    OBVIOUS
<1>1. TypeOK
    BY DEF Init, TypeOK
<1>2. BeginsOnce /\ OpenWhileKnown /\ ClosedOnce /\ ActiveIsReachable
    BY DEF Init, BeginsOnce, OpenWhileKnown, ClosedOnce, ActiveIsReachable
<1> QED
    BY <1>1, <1>2 DEF Inv

(* An initialize request of an id that was never used.                     *)
LEMMA InitializeInv ==
    ASSUME Inv, NEW s \in Sessions, Initialize(s)
    PROVE  Inv'
BY DEF Initialize, TimerStarted, Inv, TypeOK, BeginsOnce, OpenWhileKnown, ClosedOnce,
       ActiveIsReachable

(* closeSession, for one session or for all that the gateway has.          *)
LEMMA CloseSessionsInv ==
    ASSUME Inv, NEW S \in SUBSET gateway, CloseSessions(S),
           UNCHANGED <<refused, router, controller, idle, timer, cleaning, destroying>>,
           stopping' \in BOOLEAN
    PROVE  Inv'
<1>1. TypeOK'
    BY DEF CloseSessions, Inv, TypeOK
<1>2. \A s \in Sessions : s \in S => closes[s] = 0 /\ closes'[s] = 1
    BY DEF CloseSessions, Inv, TypeOK, OpenWhileKnown
<1>3. \A s \in Sessions : s \notin S => closes'[s] = closes[s]
    BY DEF CloseSessions, Inv, TypeOK
<1>4. BeginsOnce'
    BY <1>2, <1>3 DEF CloseSessions, Inv, TypeOK, BeginsOnce
<1>5. OpenWhileKnown'
    BY <1>3 DEF CloseSessions, Inv, TypeOK, OpenWhileKnown
<1>6. ClosedOnce'
    BY <1>2, <1>3 DEF Inv, ClosedOnce
<1>7. ActiveIsReachable'
    BY DEF CloseSessions, Inv, TypeOK, ActiveIsReachable
<1> QED
    BY <1>1, <1>4, <1>5, <1>6, <1>7 DEF Inv

(* destroySession, which may take sessions out of both maps only when      *)
(* their controller is not active.                                         *)
LEMMA DestroyedInv ==
    ASSUME Inv, NEW D \in SUBSET router, Destroyed(D), NEW C \in SUBSET Sessions,
           controller' \in [Sessions -> {"none", "active", "closing", "closed"}],
           destroying' \in SUBSET Sessions,
           closing' = closing \ C, UNCHANGED <<refused, closes, stopping>>,
           \A s \in Sessions : controller'[s] = "none" =>
               controller[s] = "none" /\ s \notin destroying',
           \A s \in Sessions : controller'[s] = "active" =>
               controller[s] = "active" /\ s \notin C \cup D
    PROVE  Inv'
<1>1. TypeOK'
    BY DEF Destroyed, Notified, TimerAfter, Inv, TypeOK
<1>2. BeginsOnce'
    BY DEF Destroyed, Notified, Inv, TypeOK, BeginsOnce
<1>3. OpenWhileKnown'
    BY DEF Destroyed, Notified, Inv, TypeOK, OpenWhileKnown
<1>4. ClosedOnce'
    BY DEF Inv, ClosedOnce
<1>5. ActiveIsReachable'
    BY DEF Destroyed, Notified, Inv, TypeOK, ActiveIsReachable
<1> QED
    BY <1>1, <1>2, <1>3, <1>4, <1>5 DEF Inv

(* The beginning of destroySession, up to its await.                       *)
LEMMA DestroyInv ==
    ASSUME Inv, NEW S \in SUBSET Sessions, Destroy(S), NEW C \in SUBSET S,
           closing' = closing \ C, UNCHANGED <<refused, closes, stopping>>
    PROVE  Inv'
<1>1. AtOnce(S) \in SUBSET router
    BY DEF AtOnce
<1>2. controller' \in [Sessions -> {"none", "active", "closing", "closed"}]
    BY DEF Destroy, Inv, TypeOK
<1>3. destroying' \in SUBSET Sessions
    BY DEF Destroy, Awaited, Inv, TypeOK
<1>4. ASSUME NEW s \in Sessions, controller'[s] = "none"
      PROVE  controller[s] = "none" /\ s \notin destroying'
    BY <1>4 DEF Destroy, Awaited, Inv, BeginsOnce
<1>5. ASSUME NEW s \in Sessions, controller'[s] = "active"
      PROVE  controller[s] = "active" /\ s \notin C \cup AtOnce(S)
    BY <1>5 DEF Destroy, Awaited, AtOnce, Inv, ActiveIsReachable
<1> QED
    BY <1>1, <1>2, <1>3, <1>4, <1>5, DestroyedInv DEF Destroy

(* Every step keeps the invariant.                                         *)
LEMMA StepInv == Inv /\ [Next]_vars => Inv'
<1> SUFFICES ASSUME Inv, [Next]_vars
             PROVE  Inv'
    OBVIOUS
<1>1. ASSUME NEW s \in Sessions, Initialize(s)
      PROVE  Inv'
    BY <1>1, InitializeInv
<1>2. ASSUME NEW s \in Sessions, Refuse(s) \/ Touch(s) \/ GoesIdle(s)
      PROVE  Inv'
    BY <1>2 DEF Refuse, Touch, GoesIdle, Inv, TypeOK, BeginsOnce, OpenWhileKnown, ClosedOnce,
               ActiveIsReachable
<1>3. ASSUME NEW s \in Sessions, Delete(s)
      PROVE  Inv'
    <2>1. {s} \in SUBSET gateway /\ CloseSessions({s})
        BY <1>3 DEF Delete
    <2>2. UNCHANGED <<refused, router, controller, idle, timer, cleaning, destroying>>
        BY <1>3 DEF Delete
    <2>3. stopping' \in BOOLEAN
        BY <1>3 DEF Delete, Inv, TypeOK
    <2> QED
        BY <2>1, <2>2, <2>3, CloseSessionsInv
<1>4. ASSUME NEW s \in Sessions, ServerClosed(s)
      PROVE  Inv'
    BY <1>4, DestroyInv DEF ServerClosed
<1>5. ASSUME NEW s \in Sessions, ControllerClosed(s)
      PROVE  Inv'
    <2>1. controller[s] # "none"
        BY <1>5 DEF ControllerClosed, Inv, BeginsOnce
    <2>2. /\ {s} \cap router \in SUBSET router
          /\ controller' \in [Sessions -> {"none", "active", "closing", "closed"}]
          /\ destroying' \in SUBSET Sessions
          /\ closing' = closing \ {}
        BY <1>5 DEF ControllerClosed, Inv, TypeOK
    <2>3. ASSUME NEW q \in Sessions, controller'[q] = "none"
          PROVE  controller[q] = "none" /\ q \notin destroying'
        BY <1>5, <2>3 DEF ControllerClosed, Inv, TypeOK, BeginsOnce
    <2>4. ASSUME NEW q \in Sessions, controller'[q] = "active"
          PROVE  controller[q] = "active" /\ q \notin {} \cup ({s} \cap router)
        BY <1>5, <2>4 DEF ControllerClosed, Inv, TypeOK
    <2>5. Destroyed({s} \cap router) /\ UNCHANGED <<refused, closes, stopping>>
        BY <1>5 DEF ControllerClosed
    <2> QED
        BY <2>2, <2>3, <2>4, <2>5, DestroyedInv
<1>6. ASSUME NEW s \in Sessions, TransportClosed(s)
      PROVE  Inv'
    <2>1. s \notin gateway /\ closes[s] = 0 /\ controller[s] # "none"
        BY <1>6 DEF TransportClosed, Inv, TypeOK, OpenWhileKnown, BeginsOnce
    <2>2. /\ cleaning' = cleaning \ {s} /\ closes' = [closes EXCEPT ![s] = @ + 1]
          /\ UNCHANGED <<gateway, refused, router, controller, idle, timer, closing, destroying,
                         stopping>>
        BY <1>6 DEF TransportClosed
    <2>3. TypeOK' /\ ActiveIsReachable'
        BY <2>2 DEF Inv, TypeOK, ActiveIsReachable
    <2>4. BeginsOnce' /\ ClosedOnce'
        BY <2>1, <2>2 DEF Inv, TypeOK, BeginsOnce, ClosedOnce
    <2>5. OpenWhileKnown'
        BY <2>1, <2>2 DEF Inv, TypeOK, OpenWhileKnown
    <2> QED
        BY <2>3, <2>4, <2>5 DEF Inv
<1>7. CASE EvictIdleSessions
    <2>1. idle \in SUBSET Sessions /\ closing' = closing \ {}
        BY <1>7 DEF EvictIdleSessions, Inv, TypeOK
    <2>2. Destroy(idle) /\ UNCHANGED <<refused, closes, stopping>> /\ {} \in SUBSET idle
        BY <1>7 DEF EvictIdleSessions
    <2> QED
        BY <2>1, <2>2, DestroyInv
<1>8. CASE Shutdown
    BY <1>8, CloseSessionsInv DEF Shutdown
<1>9. CASE UNCHANGED vars
    BY <1>9 DEF vars, Inv, TypeOK, BeginsOnce, OpenWhileKnown, ClosedOnce, ActiveIsReachable
<1> QED
    BY <1>1, <1>2, <1>3, <1>4, <1>5, <1>6, <1>7, <1>8, <1>9 DEF Next

(* The state keeps its shape: an entry of the gateway is never a session   *)
(* that is being closed or cleaned up.                                     *)
THEOREM TypeCorrect == Spec => []TypeOK
<1>1. Inv => TypeOK
    BY DEF Inv
<1> QED
    BY <1>1, InitInv, StepInv, PTL DEF Spec

(* No session with an active browser is lost from the router, nor from the *)
(* gateway before the gateway is about to tell the router.                 *)
THEOREM ActiveReachable == Spec => []ActiveIsReachable
<1>1. Inv => ActiveIsReachable
    BY DEF Inv
<1> QED
    BY <1>1, InitInv, StepInv, PTL DEF Spec

(* The McpServer of a session is closed at most once, in whatever order a  *)
(* DELETE, evictions and a shutdown meet.                                  *)
THEOREM ClosedAtMostOnce == Spec => []ClosedOnce
<1>1. Inv => ClosedOnce
    BY DEF Inv
<1> QED
    BY <1>1, InitInv, StepInv, PTL DEF Spec

-----------------------------------------------------------------------------
(* The two maps agree: the gateway has no entry the router does not have,  *)
(* neither has one whose browser is closed, and the idle check runs as     *)
(* long as there is a session to evict.                                    *)
MapsAgree ==
    /\ gateway \subseteq router
    /\ \A s \in router : controller[s] # "closed"
    /\ router # {} => timer

(* destroySession keeps the maps in agreement.                             *)
LEMMA DestroyedAgrees ==
    ASSUME MapsAgree, NEW D \in SUBSET router, Destroyed(D),
           \A s \in router : controller'[s] = "closed" => s \in D
    PROVE  MapsAgree'
<1>1. gateway' \subseteq router'
    BY DEF Destroyed, Notified, MapsAgree
<1>2. \A s \in router' : controller'[s] # "closed"
    BY DEF Destroyed
<1>3. router' # {} => timer'
    BY DEF Destroyed, TimerAfter, MapsAgree
<1> QED
    BY <1>1, <1>2, <1>3 DEF MapsAgree

(* So does every step.                                                     *)
LEMMA StepAgrees == Inv /\ MapsAgree /\ [Next]_vars => MapsAgree'
<1> SUFFICES ASSUME Inv, MapsAgree, [Next]_vars
             PROVE  MapsAgree'
    OBVIOUS
<1>0. TypeOK
    BY DEF Inv
<1>1. ASSUME NEW S \in SUBSET Sessions, Destroy(S)
      PROVE  MapsAgree'
    <2>1. AtOnce(S) \in SUBSET router
        BY DEF AtOnce
    <2>2. \A s \in router : controller'[s] # "closed"
        BY <1>0, <1>1 DEF Destroy, MapsAgree, TypeOK
    <2> QED
        BY <1>1, <2>1, <2>2, DestroyedAgrees DEF Destroy
<1>2. ASSUME NEW s \in Sessions, Initialize(s)
      PROVE  MapsAgree'
    BY <1>0, <1>2 DEF Initialize, TimerStarted, MapsAgree, TypeOK
<1>3. ASSUME NEW s \in Sessions, Refuse(s) \/ Touch(s) \/ GoesIdle(s) \/ TransportClosed(s)
      PROVE  MapsAgree'
    BY <1>3 DEF Refuse, Touch, GoesIdle, TransportClosed, MapsAgree
<1>4. ASSUME NEW s \in Sessions, Delete(s)
      PROVE  MapsAgree'
    BY <1>4 DEF Delete, CloseSessions, MapsAgree
<1>5. ASSUME NEW s \in Sessions, ServerClosed(s)
      PROVE  MapsAgree'
    <2>1. Destroy({s}) /\ {s} \in SUBSET Sessions
        BY <1>5 DEF ServerClosed
    <2> QED
        BY <1>1, <2>1
<1>6. ASSUME NEW s \in Sessions, ControllerClosed(s)
      PROVE  MapsAgree'
    <2>1. /\ {s} \cap router \in SUBSET router
          /\ Destroyed({s} \cap router)
          /\ \A q \in router : controller'[q] = "closed" => q \in {s} \cap router
        BY <1>0, <1>6 DEF ControllerClosed, MapsAgree, TypeOK
    <2> QED
        BY <2>1, DestroyedAgrees
<1>7. CASE EvictIdleSessions
    <2>1. idle \in SUBSET Sessions /\ Destroy(idle)
        BY <1>0, <1>7 DEF EvictIdleSessions, TypeOK
    <2> QED
        BY <1>1, <2>1
<1>8. CASE Shutdown
    BY <1>8 DEF Shutdown, CloseSessions, MapsAgree
<1>9. CASE UNCHANGED vars
    BY <1>9 DEF vars, MapsAgree
<1> QED
    BY <1>2, <1>3, <1>4, <1>5, <1>6, <1>7, <1>8, <1>9 DEF Next

(* No request reaches a session whose browser is closed, and no session is *)
(* left without the interval that would evict it.                          *)
THEOREM MapsStayInAgreement == Spec => []MapsAgree
<1>1. Init => MapsAgree
    BY DEF Init, MapsAgree
<1> QED
    BY <1>1, InitInv, StepInv, StepAgrees, PTL DEF Spec

=============================================================================
