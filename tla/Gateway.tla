------------------------------ MODULE Gateway ------------------------------
(***************************************************************************)
(* The HTTP sessions of the server: HttpGateway (src/src/gateway/          *)
(* http-gateway.ts) with a transport and an McpServer per session, and     *)
(* SessionRouter (session-router.ts) with a SessionController per session, *)
(* the limit on them and the eviction of idle ones.                        *)
(*                                                                         *)
(* Both keep a map under the same ids, and both ways to end a session start*)
(* at one map and end at the other: a DELETE at the gateway, an eviction at*)
(* the router.  What is awaited in between is the close of the McpServer,  *)
(* of the transport and of the controller; the rest of a method runs in    *)
(* one step.                                                               *)
(***************************************************************************)
EXTENDS Naturals, FiniteSets

CONSTANTS
    Sessions,       \* bound: session ids
    MaxSessions     \* maxSessions

ASSUME MaxAssumption == MaxSessions \in Nat \ {0}

VARIABLES
    gateway,        \* HttpGateway.sessions
    refused,        \* ids for which the router had no place
    router,         \* SessionRouter.sessions
    controller,     \* SessionController._state
    closes,         \* how often a session's McpServer was closed
    idle,           \* the sessions idle for longer than idleTimeoutMs
    timer,          \* idleCheckTimer is set
    closing,        \* closeSession awaits server.close()
    cleaning,       \* cleanupGatewaySession awaits transport.close()
    destroying,     \* destroySession awaits session.close()
    stopping        \* a signal has called shutdown()

vars == <<gateway, refused, router, controller, closes, idle, timer, closing, cleaning,
          destroying, stopping>>

Init ==
    /\ gateway = {}
    /\ refused = {}
    /\ router = {}
    /\ controller = [s \in Sessions |-> "none"]
    /\ closes = [s \in Sessions |-> 0]
    /\ idle = {}
    /\ timer = FALSE
    /\ closing = {}
    /\ cleaning = {}
    /\ destroying = {}
    /\ stopping = FALSE

-----------------------------------------------------------------------------
(* An initialize request: createSession and the entry of the gateway.      *)
TimerStarted_NotAtAll == timer

TimerStarted == TRUE

Initialize(s) ==
    /\ controller[s] = "none"
    /\ s \notin refused
    /\ Cardinality(router) < MaxSessions
    /\ router' = router \cup {s}
    /\ gateway' = gateway \cup {s}
    /\ controller' = [controller EXCEPT ![s] = "active"]
    /\ timer' = TimerStarted
    /\ UNCHANGED <<refused, closes, idle, closing, cleaning, destroying, stopping>>

(* At the limit createSession throws within onsessioninitialized, with the *)
(* id of the session set: the server and the transport, connected before,  *)
(* are not torn down, and there is no entry through which they could be.   *)
Refuse(s) ==
    /\ controller[s] = "none"
    /\ s \notin refused
    /\ Cardinality(router) >= MaxSessions
    /\ refused' = refused \cup {s}
    /\ UNCHANGED <<gateway, router, controller, closes, idle, timer, closing, cleaning,
                   destroying, stopping>>

(* A tool call that resolves a page touches the session, time lets it idle.*)
Touch(s) ==
    /\ s \in idle
    /\ idle' = idle \ {s}
    /\ UNCHANGED <<gateway, refused, router, controller, closes, timer, closing, cleaning,
                   destroying, stopping>>

GoesIdle(s) ==
    /\ s \in router \ idle
    /\ idle' = idle \cup {s}
    /\ UNCHANGED <<gateway, refused, router, controller, closes, timer, closing, cleaning,
                   destroying, stopping>>

-----------------------------------------------------------------------------
(* closeSession: the entry goes before the first await, so that every other*)
(* way to end the session finds none at the gateway.                       *)
CloseSessions_EntryStays(S) ==
    /\ closing' = closing \cup S
    /\ closes' = [s \in Sessions |-> closes[s] + (IF s \in S THEN 1 ELSE 0)]
    /\ UNCHANGED gateway

CloseSessions(S) ==
    /\ gateway' = gateway \ S
    /\ closing' = closing \cup S
    /\ closes' = [s \in Sessions |-> closes[s] + (IF s \in S THEN 1 ELSE 0)]

(* A DELETE closes the transport, whose onclose closes the session.        *)
Delete(s) ==
    /\ s \in gateway
    /\ CloseSessions({s})
    /\ UNCHANGED <<refused, router, controller, idle, timer, cleaning, destroying, stopping>>

(* destroySession for the sessions of S that are in the router: close()    *)
(* returns at once for the controllers that are closing or closed.         *)
AtOnce(S) == {s \in S \cap router : controller[s] # "active"}

Awaited(S) == {s \in S \cap router : controller[s] = "active"}

(* The rest of destroySession, for the sessions of D: they leave the       *)
(* router, the gateway is notified and cleans up what it still has, and    *)
(* without sessions the idle check stops.                                  *)

Notified(D) == D \cap gateway

TimerAfter(D) == timer /\ (D # {} => router \ D # {})

Destroyed(D) ==
    /\ router' = router \ D
    /\ idle' = idle \ D
    /\ gateway' = gateway \ Notified(D)
    /\ cleaning' = cleaning \cup Notified(D)
    /\ timer' = TimerAfter(D)

Destroy(S) ==
    /\ controller' = [s \in Sessions |->
                         IF s \in Awaited(S) THEN "closing" ELSE controller[s]]
    /\ destroying' = destroying \cup Awaited(S)
    /\ Destroyed(AtOnce(S))

(* server.close() has returned: closeSession goes on with destroySession.  *)
ServerClosed_SessionKept(s) ==
    /\ s \in closing
    /\ closing' = closing \ {s}
    /\ UNCHANGED <<gateway, refused, router, controller, closes, idle, timer, cleaning,
                   destroying, stopping>>

ServerClosed(s) ==
    /\ s \in closing
    /\ closing' = closing \ {s}
    /\ Destroy({s})
    /\ UNCHANGED <<refused, closes, stopping>>

ControllerClosed(s) ==
    /\ s \in destroying
    /\ destroying' = destroying \ {s}
    /\ controller' = [controller EXCEPT ![s] = "closed"]
    /\ Destroyed({s} \cap router)
    /\ UNCHANGED <<refused, closes, closing, stopping>>

(* cleanupGatewaySession goes on from the transport to the McpServer.      *)
TransportClosed(s) ==
    /\ s \in cleaning
    /\ cleaning' = cleaning \ {s}
    /\ closes' = [closes EXCEPT ![s] = @ + 1]
    /\ UNCHANGED <<gateway, refused, router, controller, idle, timer, closing, destroying,
                   stopping>>

(* evictIdleSessions, every minute: the sessions are chosen and their      *)
(* destruction begun in one step, those included that another one began.   *)
EvictIdleSessions ==
    /\ timer
    /\ idle # {}
    /\ Destroy(idle)
    /\ UNCHANGED <<refused, closes, closing, stopping>>

(* HttpGateway.shutdown, on a signal.  Requests are served on until it is  *)
(* over; the exit of the process then is left out.                         *)
Shutdown ==
    /\ ~stopping
    /\ stopping' = TRUE
    /\ CloseSessions(gateway)
    /\ UNCHANGED <<refused, router, controller, idle, timer, cleaning, destroying>>

Next ==
    \/ \E s \in Sessions :
          \/ Initialize(s) \/ Refuse(s) \/ Touch(s) \/ GoesIdle(s) \/ Delete(s)
          \/ ServerClosed(s) \/ ControllerClosed(s) \/ TransportClosed(s)
    \/ EvictIdleSessions
    \/ Shutdown

(* The interval fires while it is set, and every close() returns.          *)
Fairness ==
    /\ WF_vars(EvictIdleSessions)
    /\ \A s \in Sessions :
          WF_vars(ServerClosed(s)) /\ WF_vars(ControllerClosed(s)) /\ WF_vars(TransportClosed(s))

Spec == Init /\ [][Next]_vars /\ Fairness

-----------------------------------------------------------------------------
(* The shape of the state; a session being closed or cleaned up has left   *)
(* the gateway.                                                            *)
TypeOK ==
    /\ gateway \subseteq Sessions
    /\ refused \subseteq Sessions
    /\ router \subseteq Sessions
    /\ controller \in [Sessions -> {"none", "active", "closing", "closed"}]
    /\ closes \in [Sessions -> Nat]
    /\ idle \subseteq router
    /\ timer \in BOOLEAN
    /\ closing \subseteq Sessions \ gateway
    /\ cleaning \subseteq Sessions \ gateway
    /\ destroying \subseteq Sessions
    /\ stopping \in BOOLEAN

(* A session whose browser may be in use can be ended: the router knows it,*)
(* and the gateway does or is about to tell the router of its end.         *)
ActiveIsReachable ==
    \A s \in Sessions : controller[s] = "active" =>
        s \in router /\ s \in gateway \cup closing

(* The McpServer of a session is closed at most once, when a DELETE, an    *)
(* eviction and a shutdown end it together, too.                           *)
ClosedOnce == \A s \in Sessions : closes[s] <= 1

(* "clean up the leaked server and transport": a McpServer that is         *)
(* connected is closed one day, since the gateway has it or its closing is *)
(* under way.  Those of the refused sessions are not.                      *)
Connected(s) == closes[s] = 0 /\ (controller[s] # "none" \/ s \in refused)

ServersAreHeld == \A s \in Sessions : Connected(s) => s \in gateway \cup cleaning

(* A session that stays idle is evicted, unless it is used again.          *)
IdleIsEvicted == \A s \in Sessions : s \in idle ~> s \notin idle

(* A session that was deleted gives its place in the router back.          *)
DeletedIsDestroyed == \A s \in Sessions : s \in closing ~> s \notin router

=============================================================================
