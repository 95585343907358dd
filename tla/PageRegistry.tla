---------------------------- MODULE PageRegistry ----------------------------
(***************************************************************************)
(* The pages of a connected browser as SessionManager knows them, and the  *)
(* CDP client of each: PageRegistry and the page operations of             *)
(* src/src/browser/session-manager.ts, PuppeteerCdpClient, and the repair  *)
(* of a dead session in src/src/tools/tool-context.ts.                     *)
(*                                                                         *)
(* Calls interleave at their awaits: for the list of tabs, for a CDP       *)
(* session, for a session or a page to close.  A handle keeps the id it    *)
(* was given when its first client was made, which stands for the UUID.    *)
(***************************************************************************)
EXTENDS Naturals, Sequences, SequencesExt, Values

CONSTANTS
    Tabs,           \* bound: tabs of the browser, each opened once
    RegCalls,       \* bound: page operations in flight
    MaxClients      \* bound: CDP sessions

VARIABLES
    running,        \* SessionManager.browser and context are set
    tabs,           \* the tabs: none, open, closed
    registry,       \* PageRegistry.pages, in the order of the Map
    mru,            \* PageRegistry.mruPageId, 0 for null
    clients,        \* every PuppeteerCdpClient: its page, and its state
    gone,           \* history: ids that left the registry
    unrepaired,     \* history: clients whose repair failed
    regCalls        \* the operations

registryVars == <<running, tabs, registry, mru, clients, gone, unrepaired, regCalls>>

NoRegCall == [op |-> Null, pc |-> "idle", page |-> Null, id |-> 0, cdp |-> 0, todo |-> {}]

RegistryInit ==
    /\ running = TRUE
    /\ tabs = [t \in Tabs |-> "none"]
    /\ registry = <<>>
    /\ mru = 0
    /\ clients = <<>>
    /\ gone = {}
    /\ unrepaired = {}
    /\ regCalls = [c \in RegCalls |-> NoRegCall]

Handles == ToSet(registry)
PageIds == {h.id : h \in Handles}
IndexOf(id) == CHOOSE i \in DOMAIN registry : registry[i].id = id
FindByPage(t) == {h \in Handles : h.page = t}

StepCall(c, pc) == regCalls' = [regCalls EXCEPT ![c].pc = pc]
EndCall(c) == regCalls' = [regCalls EXCEPT ![c] = NoRegCall]

-----------------------------------------------------------------------------
(* PageRegistry.                                                           *)
RegisterPage(t) ==
    LET id == Len(clients) + 1
    IN  /\ registry' = Append(registry, [id |-> id, page |-> t, cdp |-> id])
        /\ mru' = id
        /\ clients' = Append(clients, [page |-> t, state |-> "active"])

(* The Map keeps the place of an entry that is set again.                  *)
ReplacePage_Unchecked(id, handle) ==
    registry' = IF id \in PageIds
                THEN [i \in DOMAIN registry |->
                         IF registry[i].id = id THEN handle ELSE registry[i]]
                ELSE Append(registry, handle)

ReplacePage(id, handle) ==
    registry' = [i \in DOMAIN registry |-> IF registry[i].id = id THEN handle ELSE registry[i]]

RemovePage(id) ==
    /\ registry' = IF id \in PageIds THEN RemoveAt(registry, IndexOf(id)) ELSE registry
    /\ mru' = IF mru # id THEN mru
              ELSE IF registry' = <<>> THEN 0 ELSE registry'[1].id

ClearRegistry ==
    /\ registry' = <<>>
    /\ mru' = 0
    /\ gone' = gone \cup PageIds

-----------------------------------------------------------------------------
(* The browser.                                                            *)
TabOpens ==
    /\ \E t \in Tabs : tabs[t] = "none" /\ tabs' = [tabs EXCEPT ![t] = "open"]
    /\ UNCHANGED <<running, registry, mru, clients, gone, unrepaired, regCalls>>

(* Nothing takes a page that closes by itself out of the registry.         *)
TabCloses ==
    /\ \E t \in Tabs : tabs[t] = "open" /\ tabs' = [tabs EXCEPT ![t] = "closed"]
    /\ UNCHANGED <<running, registry, mru, clients, gone, unrepaired, regCalls>>

(* The disconnect handler; or a navigation whose frame was detached, which *)
(* is taken for a disconnection of the browser: its tabs are still there.  *)
ConnectionLost ==
    /\ running
    /\ running' = FALSE
    /\ tabs' \in {tabs, [t \in Tabs |-> IF tabs[t] = "open" THEN "closed" ELSE tabs[t]]}
    /\ ClearRegistry
    /\ UNCHANGED <<clients, unrepaired, regCalls>>

(* PuppeteerCdpClient.send meets a target that is gone, or an answer that  *)
(* says so.                                                                *)
ClientDies ==
    /\ \E k \in DOMAIN clients :
          /\ clients[k].state = "active"
          /\ clients' = [clients EXCEPT ![k].state = "dead"]
    /\ UNCHANGED <<running, tabs, registry, mru, gone, unrepaired, regCalls>>

(* close is without effect on a client that is not active.                 *)
CloseClient(k) ==
    clients' = IF clients[k].state = "active"
               THEN [clients EXCEPT ![k].state = "closed"]
               ELSE clients

-----------------------------------------------------------------------------
(* resolveExistingPage, by id or the page used last.                       *)
ResolvePage ==
    /\ \E id \in PageIds : mru' = id
    /\ UNCHANGED <<running, tabs, registry, clients, gone, unrepaired, regCalls>>

Starts(c, call) ==
    /\ regCalls[c] = NoRegCall
    /\ running \/ call.op = "close"
    /\ regCalls' = [regCalls EXCEPT ![c] = call]

(* syncPages: the tabs the browser lists are looked up one by one, each at *)
(* the time its turn comes.                                                *)
SyncPages(c) ==
    /\ Starts(c, [NoRegCall EXCEPT !.op = "sync", !.pc = "listing"])
    /\ UNCHANGED <<running, tabs, registry, mru, clients, gone, unrepaired>>

SyncLists(c) ==
    /\ regCalls[c].pc = "listing"
    /\ regCalls' = [regCalls EXCEPT ![c].pc = "looking",
                                    ![c].todo = {t \in Tabs : tabs[t] = "open"}]
    /\ UNCHANGED <<running, tabs, registry, mru, clients, gone, unrepaired>>

SyncLooksUp(c) ==
    /\ regCalls[c].pc = "looking"
    /\ IF regCalls[c].todo = {}
       THEN EndCall(c)
       ELSE \E t \in regCalls[c].todo :
               IF FindByPage(t) # {} \/ tabs[t] = "closed"
               THEN regCalls' = [regCalls EXCEPT ![c].todo = @ \ {t}]
               ELSE regCalls' = [regCalls EXCEPT ![c].todo = @ \ {t}, ![c].page = t,
                                                 ![c].pc = "creating"]
    /\ UNCHANGED <<running, tabs, registry, mru, clients, gone, unrepaired>>

(* createPage.                                                             *)
CreatePage(c) ==
    /\ \E t \in Tabs :
          /\ tabs[t] = "none"
          /\ tabs' = [tabs EXCEPT ![t] = "open"]
          /\ Starts(c, [NoRegCall EXCEPT !.op = "create", !.pc = "creating", !.page = t])
    /\ UNCHANGED <<running, registry, mru, clients, gone, unrepaired>>

(* createCDPSession is answered: the page is registered, and its tracking  *)
(* set up.  A failure, of an open tab too, ends createPage; syncPages goes *)
(* on.                                                                     *)
SessionCreated(c) ==
    LET call == regCalls[c]
        next == IF call.op = "sync" THEN "looking" ELSE "tracking"
    IN  /\ call.pc = "creating"
        /\ call.op \in {"sync", "create"}
        /\ \/ /\ IF call.op = "sync" THEN StepCall(c, "looking") ELSE EndCall(c)
              /\ UNCHANGED <<registry, mru, clients>>
           \/ /\ tabs[call.page] # "closed"
              /\ Len(clients) < MaxClients
              /\ RegisterPage(call.page)
              /\ StepCall(c, next)
        /\ UNCHANGED <<running, tabs, gone, unrepaired>>

(* goto and setupPageTracking; the page stays registered when they fail.   *)
PageTracked(c) ==
    /\ regCalls[c].pc = "tracking"
    /\ EndCall(c)
    /\ UNCHANGED <<running, tabs, registry, mru, clients, gone, unrepaired>>

(* closePage and rebindCdpSession hold the handle they found first.        *)
HoldsHandle(c, op) ==
    /\ \E h \in Handles :
          /\ op = "rebind" => tabs[h.page] # "closed"
          /\ Starts(c, [NoRegCall EXCEPT !.op = op, !.pc = "detaching", !.page = h.page,
                                         !.id = h.id, !.cdp = h.cdp])
    /\ UNCHANGED <<running, tabs, registry, mru, clients, gone, unrepaired>>

Detached(c) ==
    /\ regCalls[c].pc = "detaching"
    /\ CloseClient(regCalls[c].cdp)
    /\ StepCall(c, IF regCalls[c].op = "close" THEN "closing" ELSE "creating")
    /\ UNCHANGED <<running, tabs, registry, mru, gone, unrepaired>>

(* The page leaves the registry, though to close its tab may fail.         *)
PageClosed(c) ==
    LET call == regCalls[c]
    IN  /\ call.pc = "closing"
        /\ tabs' \in {tabs, [tabs EXCEPT ![call.page] = "closed"]}
        /\ RemovePage(call.id)
        /\ gone' = gone \cup {call.id}
        /\ EndCall(c)
        /\ UNCHANGED <<running, clients, unrepaired>>

Rebound_KeepsHandle(c) ==
    /\ regCalls[c].pc = "creating"
    /\ regCalls[c].op = "rebind"
    /\ Len(clients) < MaxClients
    /\ clients' = Append(clients, [page |-> regCalls[c].page, state |-> "active"])
    /\ EndCall(c)
    /\ UNCHANGED <<running, tabs, registry, mru, gone, unrepaired>>

(* rebindCdpSession does not catch the error of createCDPSession, which an *)
(* open tab may meet too: the entry keeps the client that was closed.      *)
Rebound(c) ==
    LET call == regCalls[c]
        k == Len(clients) + 1
    IN  /\ call.pc = "creating"
        /\ call.op = "rebind"
        /\ \/ /\ unrepaired' = unrepaired \cup {call.cdp}
              /\ UNCHANGED <<registry, clients>>
           \/ /\ tabs[call.page] # "closed"
              /\ Len(clients) < MaxClients
              /\ clients' = Append(clients, [page |-> call.page, state |-> "active"])
              /\ ReplacePage(call.id, [id |-> call.id, page |-> call.page, cdp |-> k])
              /\ UNCHANGED unrepaired
        /\ EndCall(c)
        /\ UNCHANGED <<running, tabs, mru, gone>>

RegistryNext ==
    \/ TabOpens \/ TabCloses \/ ConnectionLost \/ ClientDies \/ ResolvePage
    \/ \E c \in RegCalls :
          \/ SyncPages(c) \/ SyncLists(c) \/ SyncLooksUp(c)
          \/ CreatePage(c) \/ SessionCreated(c) \/ PageTracked(c)
          \/ HoldsHandle(c, "close") \/ HoldsHandle(c, "rebind")
          \/ Detached(c) \/ PageClosed(c) \/ Rebound(c)

-----------------------------------------------------------------------------
(* Each variable has its values, no id or client is in two handles, and    *)
(* each client is of the page it is registered with.                       *)
RegistryTypeOK ==
    /\ running \in BOOLEAN
    /\ tabs \in [Tabs -> {"none", "open", "closed"}]
    /\ mru \in 0 .. MaxClients
    /\ gone \subseteq 1 .. MaxClients
    /\ \A k \in DOMAIN clients : clients[k].page \in Tabs
    /\ \A i, j \in DOMAIN registry : i # j => registry[i].id # registry[j].id
    /\ \A h \in Handles : clients[h.cdp].page = h.page
    /\ DOMAIN regCalls = RegCalls

(* A page that was closed, or lost with its browser, does not come back by *)
(* a repair of its session that was under way.                             *)
ClosedStaysClosed == gone \cap PageIds = {}

(* The client of a registered page was closed only by a call that is still *)
(* to close that page or to replace that client, or that got no new one,   *)
(* or the tab is closed: no repair leaves the registry with the session    *)
(* that another repair has closed and replaced.                            *)
RegisteredClientIsOpen ==
    \A h \in Handles :
        clients[h.cdp].state = "closed" =>
            \/ tabs[h.page] = "closed"
            \/ h.cdp \in unrepaired
            \/ \E c \in RegCalls : regCalls[c].cdp = h.cdp

(* A tab is registered once: adoptPage says it is "idempotent - calling it *)
(* twice on the same page returns the existing handle".                    *)
OneHandlePerTab == \A t \in Tabs : \A g, h \in FindByPage(t) : g = h

=============================================================================
