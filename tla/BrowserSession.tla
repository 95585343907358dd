--------------------------- MODULE BrowserSession ---------------------------
(***************************************************************************)
(* How a session gets its browser and loses it: SessionController's        *)
(* ensureBrowser and close (src/src/session/session-controller.ts), the    *)
(* fallback chain of src/src/browser/ensure-browser.ts, and the connection *)
(* life cycle of SessionManager (src/src/browser/session-manager.ts).      *)
(*                                                                         *)
(* There is one call of ensureBrowserReady at a time: ensureBrowser makes  *)
(* its callers share it.  A promise that settles runs its continuations    *)
(* before any other event, and that of a shutdown which waits for the      *)
(* connection before that of the chain, which lies deeper: see Attempt and *)
(* CloseResumes.  Of the page registry only the browsers that its handles  *)
(* belong to are kept.                                                     *)
(*                                                                         *)
(* navigateTo lets go of a browser when an error reads as if it were gone, *)
(* which a closed tab gives too.  After that a manager keeps none of its   *)
(* promises: misled is the history of those it has happened to.            *)
(***************************************************************************)
EXTENDS Naturals, Sequences, FiniteSets

CONSTANTS
    Managers,       \* bound: SessionManager objects
    Browsers,       \* bound: browsers being opened or open at a time
    Chain,          \* the modes to try, in order: "user" stands for every
                    \* connect(), "persistent" and "isolated" for launch()
    None            \* null

ASSUME ChainAssumption == Chain \in Seq({"user", "persistent", "isolated"}) \ {<<>>}
ASSUME NoneAssumption == None \notin Managers \cup Browsers

VARIABLES
    session,        \* SessionController._state
    current,        \* SessionController._sessionManager
    ensure,         \* _ensureBrowserPromise: how far the chain is
    closing,        \* how far close() is
    state,          \* SessionManager._connectionState
    browser,        \* SessionManager.browser, and context with it
    pages,          \* SessionManager.registry: the browsers of its handles
    creating,       \* the calls of createPage that await their page
    navigating,     \* the calls of navigateTo that are not over
    doomed,         \* the browser whose exit shutdown() waits for
    misled,         \* history: managers told by a navigation of a loss
    chrome          \* the browsers themselves

vars == <<session, current, ensure, closing, state, browser, pages, creating, navigating,
          doomed, misled, chrome>>

aside == <<navigating, doomed, misled>>

Chrome ==
    [life : {"none", "opening", "late", "live", "closing"},
     owned : BOOLEAN,                   \* ~isExternalBrowser
     by : Managers \cup {None},         \* history: who opened it
     watcher : Managers \cup {None}]    \* who listens to its disconnection

NoChrome == [life |-> "none", owned |-> FALSE, by |-> None, watcher |-> None]
NoEnsure == [pc |-> "idle", mgr |-> None, at |-> 0, browser |-> None]

Connected(b) == chrome[b].life \in {"live", "closing"}

IsRunning(m) == browser[m] # None /\ Connected(browser[m])

(* _connectionPromise # null.                                              *)
InFlight(m) == ensure.mgr = m /\ ensure.pc \in {"mkdir", "opening", "pages"}

Quiet == ensure.pc # "attempt" /\ closing # "resumed"

(* Bounds: an identifier that nothing refers to may be given out again.    *)
FreeBrowser(b) ==
    /\ chrome[b] = NoChrome
    /\ \A m \in Managers :
          browser[m] # b /\ b \notin pages[m] /\ <<m, b>> \notin creating \cup navigating
    /\ doomed # b

FreeManager(m) ==
    state[m] = "idle" /\ browser[m] = None /\ ensure.mgr # m /\ m \notin misled

Init ==
    /\ session = "active"
    /\ current = None
    /\ ensure = NoEnsure
    /\ closing = "no"
    /\ state = [m \in Managers |-> "idle"]
    /\ browser = [m \in Managers |-> None]
    /\ pages = [m \in Managers |-> {}]
    /\ creating = {}
    /\ navigating = {}
    /\ doomed = None
    /\ misled = {}
    /\ chrome = [b \in Browsers |-> NoChrome]

-----------------------------------------------------------------------------
(* ensureBrowser, unless the browser runs; on a session without a manager, *)
(* a closed one among them, it makes one.                                  *)
EnsureBrowser ==
    /\ Quiet
    /\ ensure.pc = "idle"
    /\ Cardinality({b \in Browsers : FreeBrowser(b)}) >= Len(Chain)
    /\ \E m \in Managers :
          /\ IF current # None THEN m = current ELSE FreeManager(m)
          /\ ~IsRunning(m)
          /\ current' = m
          /\ ensure' = [pc |-> "attempt", mgr |-> m, at |-> 1, browser |-> None]
    /\ UNCHANGED <<session, closing, state, browser, pages, creating, aside, chrome>>

(* A mode has failed: the next one, or the chain is exhausted.             *)
NextMode_PastTheEnd ==
    IF ensure.at <= Len(Chain)
    THEN [ensure EXCEPT !.pc = "attempt", !.at = @ + 1, !.browser = None]
    ELSE NoEnsure

NextMode ==
    IF ensure.at < Len(Chain)
    THEN [ensure EXCEPT !.pc = "attempt", !.at = @ + 1, !.browser = None]
    ELSE NoEnsure

(* The connection promise has settled: a shutdown that waits for it is on. *)
Resumed == IF closing = "connection" THEN "resumed" ELSE closing

Open(owned) ==
    \E b \in Browsers :
        /\ FreeBrowser(b)
        /\ chrome' = [chrome EXCEPT ![b] =
                         [life |-> "opening", owned |-> owned,
                          by |-> ensure.mgr, watcher |-> None]]
        /\ ensure' = [ensure EXCEPT !.pc = "opening", !.browser = b]

(* attemptMode, up to its first await.  connect and launch throw unless the*)
(* manager is idle or failed.                                              *)
Refused(m) == state[m] \notin {"idle", "failed"}

Attempt ==
    LET m == ensure.mgr
        mode == Chain[ensure.at]
    IN  /\ ensure.pc = "attempt"
        /\ closing # "resumed"
        /\ IF Refused(m)
           THEN ensure' = NextMode /\ UNCHANGED <<state, chrome>>
           ELSE /\ state' = [state EXCEPT ![m] = "connecting"]
                /\ IF mode = "persistent"
                   THEN ensure' = [ensure EXCEPT !.pc = "mkdir"] /\ UNCHANGED chrome
                   ELSE Open(mode = "isolated")
        /\ UNCHANGED <<session, current, closing, browser, pages, creating, aside>>

(* The profile directory: without it launch() ends outside its try block.  *)
MkdirDone ==
    /\ Quiet
    /\ ensure.pc = "mkdir"
    /\ Open(TRUE)
    /\ UNCHANGED <<session, current, closing, state, browser, pages, creating, aside>>

MkdirFails ==
    /\ Quiet
    /\ ensure.pc = "mkdir"
    /\ ensure' = NextMode
    /\ closing' = Resumed
    /\ UNCHANGED <<session, current, state, browser, pages, creating, aside, chrome>>

(* Puppeteer opens the browser.  A launched one is connected at once, for  *)
(* a connected one its pages are awaited.                                  *)
Watched_NotAtAll(b, m) == [chrome EXCEPT ![b].life = "live"]

Watched(b, m) == [chrome EXCEPT ![b].life = "live", ![b].watcher = m]

OpenSucceeds ==
    LET m == ensure.mgr
        b == ensure.browser
    IN  /\ Quiet
        /\ ensure.pc = "opening"
        /\ browser' = [browser EXCEPT ![m] = b]
        /\ chrome' = Watched(b, m)
        /\ IF chrome[b].owned
           THEN /\ state' = [state EXCEPT ![m] = "connected"]
                /\ ensure' = NoEnsure
                /\ closing' = Resumed
           ELSE /\ ensure' = [ensure EXCEPT !.pc = "pages"]
                /\ UNCHANGED <<state, closing>>
        /\ UNCHANGED <<session, current, pages, creating, aside>>

(* The attempt ends in the state failed, and what it opened is let go.     *)
Failed(m, c) ==
    /\ state' = [state EXCEPT ![m] = "failed"]
    /\ chrome' = [chrome EXCEPT ![ensure.browser] = c]
    /\ ensure' = NextMode
    /\ closing' = Resumed

OpenFails ==
    /\ Quiet
    /\ ensure.pc = "opening"
    /\ Failed(ensure.mgr, NoChrome)
    /\ UNCHANGED <<session, current, browser, pages, creating, aside>>

(* The timeout wins the race; a launch may still come to an end, and what  *)
(* it launched is closed then.                                             *)
TimesOut_Never == FALSE

TimesOut ==
    LET c == chrome[ensure.browser]
    IN  /\ Quiet
        /\ ensure.pc = "opening"
        /\ Failed(ensure.mgr, IF c.owned THEN [c EXCEPT !.life = "late"] ELSE NoChrome)
        /\ UNCHANGED <<session, current, browser, pages, creating, aside>>

LateOpens_IsKept(b) ==
    /\ Quiet
    /\ chrome[b].life = "late"
    /\ chrome' = [chrome EXCEPT ![b].life = "live"]
    /\ UNCHANGED <<session, current, ensure, closing, state, browser, pages, creating, aside>>

LateOpens(b) ==
    /\ Quiet
    /\ chrome[b].life = "late"
    /\ chrome' \in {[chrome EXCEPT ![b].life = "closing"], [chrome EXCEPT ![b] = NoChrome]}
    /\ UNCHANGED <<session, current, ensure, closing, state, browser, pages, creating, aside>>

(* context.pages() of a connected browser.  It may still answer after the  *)
(* browser is gone; if it fails, disconnect() has the same effect on the   *)
(* manager as a disconnection.                                             *)
PagesAnswer ==
    /\ Quiet
    /\ ensure.pc = "pages"
    /\ state' = [state EXCEPT ![ensure.mgr] = "connected"]
    /\ ensure' = NoEnsure
    /\ closing' = Resumed
    /\ UNCHANGED <<session, current, browser, pages, creating, aside, chrome>>

PagesFail ==
    /\ Quiet
    /\ ensure.pc = "pages"
    /\ Failed(ensure.mgr, NoChrome)
    /\ browser' = [browser EXCEPT ![ensure.mgr] = None]
    /\ pages' = [pages EXCEPT ![ensure.mgr] = {}]
    /\ navigating' = {n \in navigating : n[2] # ensure.browser}
    /\ UNCHANGED <<session, current, creating, doomed, misled>>

-----------------------------------------------------------------------------
(* A browser exits or the connection to it breaks; its manager, if it still*)
(* listens and is connected or connecting, drops it.  The navigations of   *)
(* its pages end with it, and those that were loading find it lost.        *)
Emptied_NotAtAll(M) == pages

Emptied(M) == [m \in Managers |-> IF m \in M THEN {} ELSE pages[m]]

(* What the handler of the disconnection and the catch of navigateTo do to *)
(* a manager.                                                              *)
GivesUp(M) ==
    /\ browser' = [m \in Managers |-> IF m \in M THEN None ELSE browser[m]]
    /\ pages' = Emptied(M)
    /\ state' = [m \in Managers |-> IF m \in M THEN "failed" ELSE state[m]]

Heard(b) ==
    {m \in Managers : m = chrome[b].watcher /\ state[m] \in {"connected", "connecting"}}

Disconnected(b) ==
    /\ Quiet
    /\ Connected(b)
    /\ chrome' = [chrome EXCEPT ![b] = NoChrome]
    /\ \E lost \in SUBSET {m \in Managers : <<m, b>> \in navigating} :
          /\ GivesUp(Heard(b) \cup lost)
          /\ misled' = misled \cup (lost \ Heard(b))
    /\ navigating' = {n \in navigating : n[2] # b}
    /\ UNCHANGED <<session, current, ensure, closing, creating, doomed>>

(* navigateTo, up to the await of goto: without a browser that is connected*)
(* it clears the registry.                                                 *)
Navigate ==
    /\ Quiet
    /\ current # None
    /\ \E b \in pages[current] :
          IF IsRunning(current)
          THEN /\ navigating' = navigating \cup {<<current, b>>}
               /\ UNCHANGED <<state, pages, misled>>
          ELSE /\ pages' = Emptied({current})
               /\ state' = [state EXCEPT ![current] = "failed"]
               /\ misled' = misled \cup {current}
               /\ UNCHANGED navigating
    /\ UNCHANGED <<session, current, ensure, closing, browser, creating, doomed, chrome>>

NavigationEnds(m, b) ==
    /\ Quiet
    /\ <<m, b>> \in navigating
    /\ navigating' = navigating \ {<<m, b>>}
    /\ UNCHANGED <<session, current, ensure, closing, state, browser, pages, creating,
                   doomed, misled, chrome>>

(* The error of a tab that was closed under its navigation, or of a frame  *)
(* that was detached, reads as the loss of the browser.  The browser lives *)
(* on, and the listener on its disconnection stays.  Another navigation in *)
(* the same browser may go on.                                             *)
NavigationLost(m, b) ==
    /\ Quiet
    /\ <<m, b>> \in navigating
    /\ GivesUp({m})
    /\ misled' = misled \cup {m}
    /\ navigating' \in {navigating, navigating \ {<<m, b>>}}
    /\ UNCHANGED <<session, current, ensure, closing, creating, doomed, chrome>>

(* createPage: the page is registered when it has been made, whatever the  *)
(* state of the manager is then.                                           *)
CreatePage ==
    /\ Quiet
    /\ current # None
    /\ (current # None => browser[current] # None)
    /\ creating' = creating \cup {<<current, browser[current]>>}
    /\ UNCHANGED <<session, current, ensure, closing, state, browser, pages, aside, chrome>>

PageCreated(m, b) ==
    /\ Quiet
    /\ <<m, b>> \in creating
    /\ creating' = creating \ {<<m, b>>}
    /\ pages' \in {[pages EXCEPT ![m] = @ \cup {b}], pages}
    /\ pages' # pages => Connected(b)
    /\ UNCHANGED <<session, current, ensure, closing, state, browser, aside, chrome>>

(* closePage, for the last handle of the browser.                          *)
ClosePage(m, b) ==
    /\ Quiet
    /\ b \in pages[m]
    /\ pages' = [pages EXCEPT ![m] = @ \ {b}]
    /\ UNCHANGED <<session, current, ensure, closing, state, browser, creating, aside, chrome>>

-----------------------------------------------------------------------------
(* close() is over, and with it shutdown(): the manager is dropped.        *)
Closed(m) ==
    /\ session' = "closed"
    /\ closing' = "no"
    /\ current' = None
    /\ browser' = [browser EXCEPT ![m] = None]
    /\ pages' = [pages EXCEPT ![m] = {}]
    /\ doomed' = None

(* shutdown() behind its await of the connection, and without one: up to   *)
(* the closing of the sessions and, of a launched browser, the pages.      *)
ShutDown(m) ==
    IF browser[m] = None
    THEN /\ Closed(m)
         /\ state' = [state EXCEPT ![m] = "idle"]
         /\ UNCHANGED chrome
    ELSE /\ session' = "closing"
         /\ closing' = "pages"
         /\ state' = [state EXCEPT ![m] = "disconnecting"]
         /\ chrome' = [chrome EXCEPT ![browser[m]].watcher = None]
         /\ UNCHANGED <<current, browser, pages, doomed>>

Close ==
    /\ Quiet
    /\ session = "active"
    /\ IF current = None
       THEN /\ session' = "closed"
            /\ UNCHANGED <<current, closing, state, browser, pages, doomed, chrome>>
       ELSE IF InFlight(current)
       THEN /\ session' = "closing"
            /\ closing' = "connection"
            /\ UNCHANGED <<current, state, browser, pages, doomed, chrome>>
       ELSE ShutDown(current)
    /\ UNCHANGED <<ensure, creating, navigating, misled>>

CloseResumes ==
    /\ closing = "resumed"
    /\ ShutDown(current)
    /\ UNCHANGED <<ensure, creating, navigating, misled>>

(* The sessions and pages are closed.  The browser that the manager has by *)
(* now, if it has one, is disconnected at once if it is external, which    *)
(* ends the navigations in it, and closed if it was launched.              *)
PagesClosed ==
    LET m == current
        b == browser[m]
    IN  /\ Quiet
        /\ closing = "pages"
        /\ IF b # None /\ (b # None => chrome[b].owned /\ Connected(b))
           THEN /\ closing' = "browser"
                /\ doomed' = b
                /\ chrome' = [chrome EXCEPT ![b].life = "closing"]
                /\ UNCHANGED <<session, current, state, browser, pages, navigating>>
           ELSE /\ Closed(m)
                /\ chrome' = [c \in Browsers |-> IF c = b THEN NoChrome ELSE chrome[c]]
                /\ navigating' = {n \in navigating : n[2] # b}
                /\ \E after \in {"idle"} \cup
                        (IF <<m, b>> \in navigating THEN {"failed"} ELSE {}) :
                      state' = [state EXCEPT ![m] = after]
        /\ UNCHANGED <<ensure, creating, misled>>

(* The browser has exited.                                                 *)
ShutdownEnds ==
    /\ Quiet
    /\ closing = "browser"
    /\ ~Connected(doomed)
    /\ Closed(current)
    /\ state' = [state EXCEPT ![current] = "idle"]
    /\ UNCHANGED <<ensure, creating, navigating, misled, chrome>>

Next ==
    \/ EnsureBrowser \/ Attempt
    \/ MkdirDone \/ MkdirFails
    \/ OpenSucceeds \/ OpenFails \/ TimesOut
    \/ PagesAnswer \/ PagesFail
    \/ \E b \in Browsers : LateOpens(b) \/ Disconnected(b)
    \/ CreatePage \/ Navigate
    \/ \E m \in Managers, b \in Browsers : 
          \/ PageCreated(m, b) \/ ClosePage(m, b)
          \/ NavigationEnds(m, b) \/ NavigationLost(m, b)
    \/ Close \/ CloseResumes \/ PagesClosed \/ ShutdownEnds

(* Continuations run, timers fire, the file system answers, Puppeteer's    *)
(* protocol timeout ends every call to a browser, and one that is shut down*)
(* exits.  No browser has to open: the timer has to fire.  Calls that fail *)
(* over and over may take the turn of a shutdown, but not always.          *)
Fairness ==
    /\ WF_vars(Attempt) /\ WF_vars(CloseResumes)
    /\ WF_vars(MkdirDone \/ MkdirFails)
    /\ WF_vars(TimesOut)
    /\ WF_vars(PagesAnswer \/ PagesFail)
    /\ SF_vars(closing = "browser" /\ Disconnected(doomed))
    /\ SF_vars(PagesClosed) /\ SF_vars(ShutdownEnds)

Spec == Init /\ [][Next]_vars /\ Fairness

-----------------------------------------------------------------------------
(* The shape of the state.                                                 *)
TypeOK ==
    /\ session \in {"active", "closing", "closed"}
    /\ current \in Managers \cup {None}
    /\ ensure \in [pc : {"idle", "attempt", "mkdir", "opening", "pages"},
                   mgr : Managers \cup {None}, at : 0 .. Len(Chain),
                   browser : Browsers \cup {None}]
    /\ closing \in {"no", "connection", "resumed", "pages", "browser"}
    /\ state \in [Managers -> {"idle", "connecting", "connected", "disconnecting", "failed"}]
    /\ browser \in [Managers -> Browsers \cup {None}]
    /\ pages \in [Managers -> SUBSET Browsers]
    /\ creating \subseteq Managers \X Browsers
    /\ navigating \subseteq Managers \X Browsers
    /\ doomed \in Browsers \cup {None}
    /\ misled \subseteq Managers
    /\ chrome \in [Browsers -> Chrome]

(* A Chrome that was launched and is not being closed is the browser of a  *)
(* manager, and as long as the session is not closed of the manager it     *)
(* has: no failed attempt, late launch, crash or shutdown loses it.  Only  *)
(* a navigation that mistook a closed tab for a lost browser does, and what*)
(* its manager opened since.                                               *)
OwnedIsHeld ==
    \A b \in Browsers : chrome[b].owned /\ chrome[b].life = "live" =>
        \/ \E m \in Managers : browser[m] = b /\ (session = "closed" \/ m = current)
        \/ chrome[b].by \in misled

(* A connected manager does not hold a browser that is gone: whenever the  *)
(* browser breaks off, in the middle of connecting too, the manager learns *)
(* of it, unless a navigation has called it failed before.                 *)
ConnectedIsLive ==
    \A m \in Managers \ misled :
        state[m] = "connected" /\ browser[m] # None => Connected(browser[m])

(* The registry never offers a page of a browser that was lost: after a    *)
(* reconnection only pages of the new browser are found in it.  A page that*)
(* is made while a navigation gives up its browser is the exception.       *)
PagesAreOfTheBrowser ==
    \A m \in Managers \ misled : pages[m] \subseteq {browser[m]}

(* A tool call that needs the browser gets it or an error: the chain of    *)
(* modes ends.                                                             *)
EnsureEnds == ensure.pc # "idle" ~> ensure.pc = "idle"

(* "Auto: try user, then persistent, then isolated": when one mode has     *)
(* failed, the next one can be tried.                                      *)
NextModeIsTried ==
    ensure.pc = "attempt" /\ ensure.at > 1 => ~Refused(ensure.mgr)

(* "Shut down the owned browser": when close() is over, and no tool call   *)
(* came after it, no browser of the session runs on.                       *)
ClosedHasNoBrowser ==
    session = "closed" /\ ensure.pc = "idle" /\ current = None =>
        \A b \in Browsers : ~(chrome[b].owned /\ chrome[b].life = "live")

(* "Browser disconnected unexpectedly": a manager that has failed, and has *)
(* no attempt under way, has left no launched browser running.             *)
FailedHasNoBrowser ==
    \A m \in Managers, b \in Browsers :
        state[m] = "failed" /\ ensure.pc = "idle" /\ chrome[b].by = m =>
            ~(chrome[b].owned /\ chrome[b].life = "live")

=============================================================================
