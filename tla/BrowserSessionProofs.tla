------------------------ MODULE BrowserSessionProofs ------------------------
(***************************************************************************)
(* Proofs about the browser of a session, for any chain of modes and any   *)
(* number of managers and browsers, navigations that lose a live browser   *)
(* included: what is claimed of a manager is claimed until one misled it.  *)
(***************************************************************************)
EXTENDS BrowserSession, TLAPS

(* The chain works on a manager of the session, that is connecting and has *)
(* no browser but the one being opened.                                    *)
EnsureInv ==
    LET m == ensure.mgr
        b == ensure.browser
    IN  /\ ensure.pc # "idle" =>
              /\ m \in Managers
              /\ session = "closed" \/ m = current
              /\ ensure.at \in 1 .. Len(Chain)
        /\ ensure.pc \in {"mkdir", "opening"} =>
              m \in misled \/ (state[m] = "connecting" /\ browser[m] = None)
        /\ ensure.pc = "opening" =>
              b \in Browsers /\ chrome[b].life = "opening" /\ chrome[b].by = m
        /\ ensure.pc = "pages" =>
              /\ b \in Browsers
              /\ m \in misled \/ state[m] \in {"connecting", "failed"}
              /\ browser[m] \in {b, None}
              /\ \A n \in Managers : browser[n] = b => n = m

(* A manager that has a browser opened it, and as long as no navigation has*)
(* misled it, it listens to it or is shutting it down.                     *)
HolderInv ==
    \A m \in Managers : browser[m] # None =>
        LET c == chrome[browser[m]]
        IN  /\ session = "closed" \/ m = current
            /\ c.life \in {"none", "live", "closing"}
            /\ c.life = "live" => c.by = m
            /\ \/ m \in misled
               \/ /\ \/ state[m] = "connected"
                     \/ state[m] = "connecting" /\ ensure.pc = "pages" /\ ensure.mgr = m
                  /\ c.life = "live"
                  /\ c.watcher = m
               \/ /\ state[m] = "disconnecting"
                  /\ c.watcher = None

(* A browser that is live has one manager, which is who listens to it.     *)
WatchInv ==
    /\ \A b \in Browsers : chrome[b].life = "live" =>
          chrome[b].by \in misled \/ \E m \in Managers : browser[m] = b
    /\ \A b \in Browsers : chrome[b].watcher # None =>
          chrome[b].watcher \in misled \/ browser[chrome[b].watcher] = b
    /\ \A b \in Browsers : chrome[b].life \in {"opening", "late"} => chrome[b].watcher = None
    /\ \A m, n \in Managers : browser[m] = browser[n] /\ browser[m] # None => m = n

(* What close() waits for.                                                 *)
CloseInv ==
    /\ closing # "no" => current \in Managers /\ session = "closing"
    /\ closing = "connection" => InFlight(current)
    /\ closing = "resumed" => ensure.pc \in {"idle", "attempt"}
    /\ \A m \in Managers : state[m] = "disconnecting" =>
          closing \in {"pages", "browser"} /\ m = current
    /\ closing \in {"pages", "browser"} =>
          current \in misled \/ state[current] = "disconnecting"
    /\ closing = "browser" => current \in misled \/ browser[current] = doomed

(* A page that is being made is of the browser of its manager, unless that *)
(* browser is gone.                                                        *)
PageInv ==
    /\ \A m \in Managers : m \in misled \/ pages[m] \subseteq {browser[m]}
    /\ \A m \in Managers, b \in Browsers : <<m, b>> \in creating =>
          /\ m \in misled \/ (Connected(b) => browser[m] = b)
          /\ chrome[b].life \notin {"opening", "late"}

Inv == TypeOK /\ EnsureInv /\ HolderInv /\ WatchInv /\ CloseInv /\ PageInv

-----------------------------------------------------------------------------
(* The states of the chain of modes.                                       *)
EnsureStates ==
    [pc : {"idle", "attempt", "mkdir", "opening", "pages"}, mgr : Managers \cup {None},
     at : 0 .. Len(Chain), browser : Browsers \cup {None}]

(* What the chain is next, when a mode has failed.                         *)
LEMMA NextModeFacts ==
    ASSUME TypeOK, ensure.at \in 1 .. Len(Chain)
    PROVE  /\ NoEnsure \in EnsureStates /\ NoEnsure.pc = "idle"
           /\ NextMode \in EnsureStates
           /\ \/ NextMode.pc = "idle"
              \/ /\ NextMode.pc = "attempt"
                 /\ NextMode.mgr = ensure.mgr
                 /\ NextMode.at \in 1 .. Len(Chain)
<1>0. Len(Chain) \in Nat /\ ensure \in EnsureStates
    BY ChainAssumption DEF TypeOK, EnsureStates
<1>1. NoEnsure \in EnsureStates /\ NoEnsure.pc = "idle"
    BY <1>0 DEF NoEnsure, EnsureStates
<1>2. CASE ensure.at < Len(Chain)
    <2>1. NextMode = [ensure EXCEPT !.pc = "attempt", !.at = @ + 1, !.browser = None]
        BY <1>2 DEF NextMode
    <2>2. ensure.at + 1 \in 1 .. Len(Chain)
        BY <1>0, <1>2
    <2>3. ensure.at + 1 \in 0 .. Len(Chain)
        BY <1>0, <2>2
    <2>4. NextMode \in EnsureStates
        BY <1>0, <2>1, <2>3 DEF EnsureStates
    <2>5. NextMode.pc = "attempt" /\ NextMode.mgr = ensure.mgr /\ NextMode.at = ensure.at + 1
        BY <1>0, <2>1 DEF EnsureStates
    <2> QED
        BY <1>1, <2>2, <2>4, <2>5
<1>3. CASE ~(ensure.at < Len(Chain))
    BY <1>1, <1>3 DEF NextMode
<1> QED
    BY <1>2, <1>3

(* A browser that is being opened is one that nothing refers to.           *)
LEMMA OpenFacts ==
    ASSUME TypeOK, NEW owned \in BOOLEAN, Open(owned)
    PROVE  \E b \in Browsers :
              /\ FreeBrowser(b)
              /\ chrome' \in [Browsers -> Chrome]
              /\ chrome'[b].life = "opening" /\ chrome'[b].watcher = None
              /\ chrome'[b].by = ensure.mgr
              /\ \A c \in Browsers : c # b => chrome'[c] = chrome[c]
              /\ ensure' \in EnsureStates
              /\ ensure'.pc = "opening" /\ ensure'.browser = b
              /\ ensure'.mgr = ensure.mgr /\ ensure'.at = ensure.at
<1>1. PICK b \in Browsers :
          /\ FreeBrowser(b)
          /\ chrome' = [chrome EXCEPT ![b] =
                           [life |-> "opening", owned |-> owned,
                            by |-> ensure.mgr, watcher |-> None]]
          /\ ensure' = [ensure EXCEPT !.pc = "opening", !.browser = b]
    BY DEF Open
<1>3. /\ chrome \in [Browsers -> Chrome] /\ ensure \in EnsureStates
      /\ ensure.mgr \in Managers \cup {None}
    BY DEF TypeOK, EnsureStates
<1>2. [life |-> "opening", owned |-> owned, by |-> ensure.mgr, watcher |-> None] \in Chrome
    BY <1>3 DEF Chrome
<1>4. /\ ensure' \in EnsureStates
      /\ ensure'.pc = "opening" /\ ensure'.browser = b
      /\ ensure'.mgr = ensure.mgr /\ ensure'.at = ensure.at
    BY <1>1, <1>3 DEF EnsureStates
<1> QED
    BY <1>1, <1>2, <1>3, <1>4

(* close() waits for the connection, or goes on.                          *)
LEMMA ClosingType == TypeOK => Resumed \in {"no", "connection", "resumed", "pages", "browser"}
BY DEF TypeOK, Resumed

(* A mode opens its browser, on a manager that is or becomes connecting.   *)
LEMMA OpenInv ==
    ASSUME Inv, ensure.pc \in {"attempt", "mkdir"}, closing # "resumed",
           NEW owned \in BOOLEAN, Open(owned),
           ensure.mgr \in misled \/ browser[ensure.mgr] = None,
           \/ state' = [state EXCEPT ![ensure.mgr] = "connecting"]
           \/ state' = state /\ (ensure.mgr \in misled \/ state[ensure.mgr] = "connecting"),
           closing \in {"pages", "browser"} => current \in misled \/ ensure.mgr # current,
           UNCHANGED <<session, current, closing, browser, pages, creating, aside>>
    PROVE  Inv'
<1> DEFINE m == ensure.mgr
<1>0. TypeOK /\ EnsureInv /\ HolderInv /\ WatchInv /\ CloseInv /\ PageInv
    BY DEF Inv
<1>1. /\ m \in Managers /\ (session = "closed" \/ m = current)
      /\ ensure.at \in 1 .. Len(Chain)
    BY <1>0 DEF EnsureInv
<1>2. PICK b \in Browsers :
          /\ FreeBrowser(b)
          /\ chrome' \in [Browsers -> Chrome]
          /\ chrome'[b].life = "opening" /\ chrome'[b].watcher = None
          /\ chrome'[b].by = ensure.mgr
          /\ \A c \in Browsers : c # b => chrome'[c] = chrome[c]
          /\ ensure' \in EnsureStates
          /\ ensure'.pc = "opening" /\ ensure'.browser = b
          /\ ensure'.mgr = ensure.mgr /\ ensure'.at = ensure.at
    BY <1>0, OpenFacts
<1>3. /\ state'[m] = "connecting" \/ (state'[m] = state[m] /\ m \in misled)
      /\ state' \in [Managers -> {"idle", "connecting", "connected", "disconnecting", "failed"}]
      /\ \A n \in Managers : n # m => state'[n] = state[n]
      /\ UNCHANGED <<navigating, doomed, misled>>
    BY <1>0, <1>1 DEF TypeOK, aside
<1>4. /\ \A n \in Managers : browser[n] # b /\ <<n, b>> \notin creating
      /\ chrome[b] = NoChrome
    BY <1>2 DEF FreeBrowser
<1>5. TypeOK'
    BY <1>0, <1>2, <1>3 DEF TypeOK, EnsureStates
<1>6. EnsureInv'
    BY <1>1, <1>2, <1>3 DEF EnsureInv
<1>7. HolderInv'
    <2> SUFFICES ASSUME NEW n \in Managers, browser[n] # None
                 PROVE  /\ session = "closed" \/ n = current
                        /\ chrome'[browser[n]] = chrome[browser[n]]
                        /\ \/ n \in misled
                           \/ n # m /\ state'[n] = state[n] /\ ensure'.mgr = ensure.mgr
        BY <1>0, <1>3, NoneAssumption DEF HolderInv
    <2>1. browser[n] # b /\ browser[n] \in Browsers
        BY <1>0, <1>4 DEF TypeOK
    <2>2. n \in misled \/ n # m
        OBVIOUS
    <2> QED
        BY <1>0, <1>2, <1>3, <2>1, <2>2 DEF HolderInv
<1>8. WatchInv'
    BY <1>0, <1>2, <1>3, <1>4 DEF WatchInv, TypeOK
<1>9. CloseInv'
    BY <1>0, <1>1, <1>2, <1>3 DEF CloseInv, InFlight
<1>10. PageInv'
    BY <1>0, <1>2, <1>3, <1>4 DEF PageInv, Connected, TypeOK
<1> QED
    BY <1>5, <1>6, <1>7, <1>8, <1>9, <1>10 DEF Inv

(* A browser that no manager has may change by itself.                     *)
LEMMA AloneInv ==
    ASSUME Inv, NEW b \in Browsers, chrome' \in [Browsers -> Chrome],
           chrome'[b].life \in {"none", "closing"}, chrome'[b].watcher = None,
           chrome[b].life = "late",
           \A c \in Browsers : c # b => chrome'[c] = chrome[c],
           \A n \in Managers : browser[n] # b /\ <<n, b>> \notin creating,
           UNCHANGED <<session, current, ensure, closing, state, browser, pages, creating, aside>>
    PROVE  Inv'
<1>0. TypeOK /\ EnsureInv /\ HolderInv /\ WatchInv /\ CloseInv /\ PageInv
    BY DEF Inv
<1> USE DEF aside
<1>1. TypeOK' /\ CloseInv'
    BY <1>0 DEF TypeOK, CloseInv, InFlight
<1>2. EnsureInv'
    BY <1>0 DEF EnsureInv
<1>3. HolderInv'
    BY <1>0 DEF HolderInv, TypeOK
<1>4. WatchInv'
    BY <1>0 DEF WatchInv
<1>5. PageInv'
    BY <1>0 DEF PageInv, Connected
<1> QED
    BY <1>1, <1>2, <1>3, <1>4, <1>5 DEF Inv

(* shutdown() when the chain is not at work on the manager.                *)
LEMMA ShutDownInv ==
    ASSUME Inv, current \in Managers, ~InFlight(current), session # "closed",
           closing \in {"no", "resumed"}, ShutDown(current),
           UNCHANGED <<ensure, creating, navigating, misled>>
    PROVE  Inv'
<1> DEFINE m == current
           b == browser[m]
<1>0. TypeOK /\ EnsureInv /\ HolderInv /\ WatchInv /\ CloseInv /\ PageInv
    BY DEF Inv
<1>1. CASE b = None
    <2>1. /\ session' = "closed" /\ closing' = "no" /\ current' = None
          /\ browser' = [browser EXCEPT ![m] = None]
          /\ pages' = [pages EXCEPT ![m] = {}]
          /\ state' = [state EXCEPT ![m] = "idle"]
          /\ doomed' = None
          /\ chrome' = chrome
        BY <1>1 DEF ShutDown, Closed
    <2>2. browser' = browser
        BY <1>0, <1>1, <2>1 DEF TypeOK
    <2>3. TypeOK'
        BY <1>0, <2>1, <2>2 DEF TypeOK
    <2>4. EnsureInv'
        BY <1>0, <2>1, <2>2 DEF EnsureInv, InFlight, TypeOK
    <2>5. HolderInv'
        BY <1>0, <1>1, <2>1, <2>2 DEF HolderInv, TypeOK
    <2>6. WatchInv'
        BY <1>0, <2>1, <2>2 DEF WatchInv
    <2>7. CloseInv'
        BY <1>0, <2>1 DEF CloseInv, TypeOK
    <2>8. PageInv'
        BY <1>0, <2>1, <2>2 DEF PageInv, Connected, TypeOK
    <2> QED
        BY <2>3, <2>4, <2>5, <2>6, <2>7, <2>8 DEF Inv
<1>2. CASE b # None
    <2>1. /\ session' = "closing" /\ closing' = "pages"
          /\ state' = [state EXCEPT ![m] = "disconnecting"]
          /\ chrome' = [chrome EXCEPT ![b].watcher = None]
          /\ UNCHANGED <<current, browser, pages, doomed>>
        BY <1>2 DEF ShutDown
    <2>2. /\ b \in Browsers
          /\ \A n \in Managers : n # m => browser[n] # b
        BY <1>0, <1>2 DEF TypeOK, WatchInv
    <2>3. /\ chrome' \in [Browsers -> Chrome]
          /\ chrome'[b].watcher = None
          /\ chrome'[b].life = chrome[b].life /\ chrome'[b].by = chrome[b].by
          /\ \A c \in Browsers : c # b => chrome'[c] = chrome[c]
        BY <1>0, <2>1, <2>2 DEF TypeOK, Chrome
    <2>4. TypeOK'
        BY <1>0, <2>1, <2>3 DEF TypeOK
    <2>5. EnsureInv'
        BY <1>0, <2>1, <2>2, <2>3 DEF EnsureInv, InFlight, TypeOK
    <2>6. HolderInv'
        BY <1>0, <2>1, <2>2, <2>3 DEF HolderInv, TypeOK
    <2>7. WatchInv'
        BY <1>0, <2>1, <2>2, <2>3 DEF WatchInv
    <2>8. CloseInv'
        BY <1>0, <2>1 DEF CloseInv, TypeOK
    <2>9. PageInv'
        BY <1>0, <2>1, <2>2, <2>3 DEF PageInv, Connected
    <2> QED
        BY <2>4, <2>5, <2>6, <2>7, <2>8, <2>9 DEF Inv
<1> QED
    BY <1>1, <1>2

(* close() is over: the browser of the manager, if it had one and was not  *)
(* misled about it, does not run on.                                       *)
LEMMA ClosedInv ==
    ASSUME Inv, current \in Managers, session = "closing", closing \in {"pages", "browser"},
           Closed(current),
           NEW after \in {"idle", "failed"}, state' = [state EXCEPT ![current] = after],
           chrome' \in [Browsers -> Chrome],
           \A b \in Browsers : chrome'[b] = chrome[b] \/ (browser[current] = b /\ chrome'[b] = NoChrome),
           browser[current] \in Browsers =>
               current \in misled \/ chrome'[browser[current]].life \notin {"live", "closing"},
           navigating' \subseteq navigating,
           UNCHANGED <<ensure, creating, misled>>
    PROVE  Inv'
<1>0. TypeOK /\ EnsureInv /\ HolderInv /\ WatchInv /\ CloseInv /\ PageInv
    BY DEF Inv
<1>1. /\ session' = "closed" /\ closing' = "no" /\ current' = None /\ doomed' = None
      /\ browser' = [browser EXCEPT ![current] = None]
      /\ pages' = [pages EXCEPT ![current] = {}]
    BY DEF Closed
<1>2. TypeOK'
    BY <1>0, <1>1 DEF TypeOK
<1>3. ensure.pc # "idle" /\ ensure.mgr = current =>
          current \in misled \/ ensure.pc = "attempt"
    BY <1>0 DEF EnsureInv, CloseInv, TypeOK
<1>4. \A b \in Browsers : browser[current] = b => chrome[b].life \in {"none", "live", "closing"}
    BY <1>0, NoneAssumption DEF HolderInv
<1>5. EnsureInv'
    BY <1>0, <1>1, <1>3, <1>4 DEF EnsureInv, TypeOK, NoChrome
<1>6. \A n \in Managers : n # current /\ browser[n] # None =>
          browser[n] \in Browsers /\ chrome'[browser[n]] = chrome[browser[n]]
    BY <1>0 DEF WatchInv, TypeOK
<1>7. HolderInv'
    BY <1>0, <1>1, <1>6 DEF HolderInv, TypeOK
<1>8. WatchInv'
    BY <1>0, <1>1 DEF WatchInv, HolderInv, TypeOK, NoChrome
<1>9. CloseInv'
    BY <1>0, <1>1 DEF CloseInv, TypeOK
<1>10. PageInv'
    BY <1>0, <1>1 DEF PageInv, Connected, TypeOK, NoChrome
<1> QED
    BY <1>2, <1>5, <1>7, <1>8, <1>9, <1>10 DEF Inv

(* A browser breaks off: who hears of it had it, and who else is told of a *)
(* loss is misled.                                                         *)
LEMMA GivesUpInv ==
    ASSUME Inv, NEW b \in Browsers, chrome[b].life \in {"live", "closing"},
           NEW heard \in SUBSET Managers, NEW lost \in SUBSET Managers,
           \A m \in Managers : m \in heard /\ m \notin misled => browser[m] = b,
           \A m \in Managers : m \in heard =>
               m = chrome[b].watcher /\ state[m] \in {"connected", "connecting"},
           \A m \in Managers : m = chrome[b].watcher /\ state[m] \in {"connected", "connecting"} =>
               m \in heard,
           GivesUp(heard \cup lost), misled' = misled \cup (lost \ heard),
           chrome' \in [Browsers -> Chrome], chrome'[b] = NoChrome,
           \A c \in Browsers : c # b => chrome'[c] = chrome[c],
           navigating' \subseteq navigating,
           UNCHANGED <<session, current, ensure, closing, creating, doomed>>
    PROVE  Inv'
<1>0. TypeOK /\ EnsureInv /\ HolderInv /\ WatchInv /\ CloseInv /\ PageInv
    BY DEF Inv
<1>1. \A m \in Managers :
          /\ m \in heard \cup lost => browser'[m] = None /\ pages'[m] = {} /\ state'[m] = "failed"
          /\ m \notin heard \cup lost =>
                browser'[m] = browser[m] /\ pages'[m] = pages[m] /\ state'[m] = state[m]
          /\ m \notin misled' => m \notin misled /\ (m \in heard \/ m \notin lost)
    BY DEF GivesUp, Emptied
<1>2. TypeOK'
    BY <1>0 DEF TypeOK, GivesUp, Emptied
<1>3. EnsureInv'
    BY <1>0, <1>1, NoneAssumption DEF EnsureInv
<1>4. HolderInv'
    BY <1>0, <1>1 DEF HolderInv, NoChrome, WatchInv, TypeOK
<1>5. WatchInv'
    <2>1. ASSUME NEW c \in Browsers, chrome'[c].life = "live"
          PROVE  chrome'[c].by \in misled' \/ \E m \in Managers : browser'[m] = c
        <3>1. c # b /\ chrome'[c] = chrome[c]
            BY <2>1 DEF NoChrome
        <3>2. chrome[c].by \in misled \/ \E m \in Managers : browser[m] = c
            BY <1>0, <2>1, <3>1 DEF WatchInv
        <3>3. ASSUME NEW m \in Managers, browser[m] = c
              PROVE  chrome[c].by \in misled' \/ browser'[m] = c
            <4>1. chrome[c].by = m
                BY <1>0, <2>1, <3>1, <3>3, NoneAssumption DEF HolderInv
            <4> QED
                BY <1>1, <3>1, <3>3, <4>1
        <3> QED
            BY <3>1, <3>2, <3>3
    <2>2. ASSUME NEW c \in Browsers, chrome'[c].watcher # None
          PROVE  chrome'[c].watcher \in misled' \/ browser'[chrome'[c].watcher] = c
        <3>1. c # b /\ chrome'[c] = chrome[c]
            BY <2>2 DEF NoChrome
        <3>2. chrome[c].watcher \in Managers
            BY <1>0, <2>2, <3>1 DEF TypeOK, Chrome
        <3> QED
            BY <1>0, <1>1, <2>2, <3>1, <3>2 DEF WatchInv
    <2>3. \A c \in Browsers : chrome'[c].life \in {"opening", "late"} => chrome'[c].watcher = None
        BY <1>0 DEF WatchInv, NoChrome
    <2>4. \A m, n \in Managers : browser'[m] = browser'[n] /\ browser'[m] # None => m = n
        BY <1>0, <1>1 DEF WatchInv
    <2> QED
        BY <2>1, <2>2, <2>3, <2>4 DEF WatchInv
<1>6. CloseInv'
    BY <1>0, <1>1 DEF CloseInv, InFlight
<1>7. PageInv'
    BY <1>0, <1>1 DEF PageInv, Connected, NoChrome
<1> QED
    BY <1>2, <1>3, <1>4, <1>5, <1>6, <1>7 DEF Inv

(* A navigation misleads its manager.                                      *)
LEMMA MisledInv ==
    ASSUME Inv, NEW k \in Managers, GivesUp({k}), misled' = misled \cup {k},
           navigating' \subseteq navigating,
           UNCHANGED <<session, current, ensure, closing, creating, doomed, chrome>>
    PROVE  Inv'
<1>0. TypeOK /\ EnsureInv /\ HolderInv /\ WatchInv /\ CloseInv /\ PageInv
    BY DEF Inv
<1>1. /\ browser'[k] = None /\ pages'[k] = {} /\ state'[k] = "failed"
      /\ \A m \in Managers : m # k =>
            browser'[m] = browser[m] /\ pages'[m] = pages[m] /\ state'[m] = state[m]
    BY DEF GivesUp, Emptied
<1>2. TypeOK'
    BY <1>0 DEF TypeOK, GivesUp, Emptied
<1>3. EnsureInv'
    BY <1>0, <1>1, NoneAssumption DEF EnsureInv
<1>4. HolderInv'
    BY <1>0, <1>1 DEF HolderInv
<1>5. WatchInv'
    <2>1. ASSUME NEW c \in Browsers, chrome[c].life = "live"
          PROVE  chrome[c].by \in misled' \/ \E m \in Managers : browser'[m] = c
        <3>1. chrome[c].by \in misled \/ \E m \in Managers : browser[m] = c
            BY <1>0, <2>1 DEF WatchInv
        <3>2. ASSUME NEW m \in Managers, browser[m] = c
              PROVE  chrome[c].by \in misled' \/ browser'[m] = c
            BY <1>0, <1>1, <2>1, <3>2, NoneAssumption DEF HolderInv
        <3> QED
            BY <3>1, <3>2
    <2>2. \A c \in Browsers : chrome[c].watcher # None =>
              chrome[c].watcher \in misled' \/ browser'[chrome[c].watcher] = c
        BY <1>0, <1>1 DEF WatchInv, TypeOK, Chrome
    <2> QED
        BY <1>0, <1>1, <2>1, <2>2 DEF WatchInv
<1>6. CloseInv'
    BY <1>0, <1>1 DEF CloseInv, InFlight
<1>7. PageInv'
    BY <1>0, <1>1 DEF PageInv, Connected
<1> QED
    BY <1>2, <1>3, <1>4, <1>5, <1>6, <1>7 DEF Inv

(* Every step of the session keeps the invariant.                         *)
LEMMA StepInv == Inv /\ [Next]_vars => Inv'
<1> SUFFICES ASSUME Inv, [Next]_vars
             PROVE  Inv'
    OBVIOUS
<1>0. TypeOK /\ EnsureInv /\ HolderInv /\ WatchInv /\ CloseInv /\ PageInv
    BY DEF Inv
<1>19. Len(Chain) \in Nat \ {0}
    BY ChainAssumption
<1> USE <1>0, <1>19, NoneAssumption DEF aside
<1>1. CASE EnsureBrowser
    <2>1. PICK m \in Managers :
              /\ IF current # None THEN m = current ELSE FreeManager(m)
              /\ current' = m
              /\ ensure' = [pc |-> "attempt", mgr |-> m, at |-> 1, browser |-> None]
        BY <1>1 DEF EnsureBrowser
    <2>2. UNCHANGED <<session, closing, state, browser, pages, creating, aside, chrome>>
        BY <1>1 DEF EnsureBrowser
    <2>3. /\ ensure' \in EnsureStates
          /\ ensure'.pc = "attempt" /\ ensure'.mgr = m /\ ensure'.at \in 1 .. Len(Chain)
        BY <2>1 DEF EnsureStates
    <2>4. TypeOK'
        BY <2>1, <2>2, <2>3 DEF TypeOK, EnsureStates
    <2>5. EnsureInv'
        BY <2>1, <2>3 DEF EnsureInv
    <2>6. HolderInv'
        BY <1>1, <2>1, <2>2, <2>3 DEF EnsureBrowser, TypeOK, HolderInv
    <2>7. WatchInv' /\ PageInv'
        BY <2>2 DEF WatchInv, PageInv, Connected
    <2>8. CloseInv'
        BY <1>1, <2>1, <2>2, <2>3 DEF EnsureBrowser, CloseInv, InFlight
    <2> QED
        BY <2>4, <2>5, <2>6, <2>7, <2>8 DEF Inv
<1>2. CASE Attempt
    <2> DEFINE m == ensure.mgr
    <2>0. /\ ensure.pc = "attempt" /\ closing # "resumed"
          /\ m \in Managers /\ ensure.at \in 1 .. Len(Chain)
          /\ session = "closed" \/ m = current
          /\ UNCHANGED <<session, current, closing, browser, pages, creating, aside>>
        BY <1>2 DEF Attempt, EnsureInv
    <2>1. CASE Refused(m)
        <3>1. ensure' = NextMode /\ UNCHANGED <<state, chrome>>
            BY <1>2, <2>1 DEF Attempt
        <3>2. /\ ensure' \in EnsureStates
              /\ \/ ensure'.pc = "idle"
                 \/ ensure'.pc = "attempt" /\ ensure'.mgr = m /\ ensure'.at \in 1 .. Len(Chain)
            BY <2>0, <3>1, NextModeFacts
        <3>3. TypeOK'
            BY <2>0, <3>1, <3>2 DEF TypeOK, EnsureStates
        <3>4. EnsureInv'
            BY <2>0, <3>2 DEF EnsureInv
        <3>5. HolderInv' /\ CloseInv'
            BY <2>0, <3>1, <3>2 DEF HolderInv, CloseInv, InFlight
        <3>6. WatchInv' /\ PageInv'
            BY <2>0, <3>1 DEF WatchInv, PageInv, Connected
        <3> QED
            BY <3>3, <3>4, <3>5, <3>6 DEF Inv
    <2>2. CASE ~Refused(m)
        <3>1. /\ state[m] \in {"idle", "failed"}
              /\ state' = [state EXCEPT ![m] = "connecting"]
            BY <1>2, <2>2 DEF Attempt, Refused
        <3>2. m \in misled \/ browser[m] = None
            BY <2>0, <3>1 DEF HolderInv
        <3>3. /\ closing # "connection"
              /\ closing \in {"pages", "browser"} => current \in misled \/ m # current
            BY <2>0, <3>1 DEF TypeOK, CloseInv, EnsureInv, InFlight
        <3>4. CASE Chain[ensure.at] = "persistent"
            <4>1. ensure' = [ensure EXCEPT !.pc = "mkdir"] /\ chrome' = chrome
                BY <1>2, <2>2, <3>4 DEF Attempt
            <4>2. /\ ensure' \in EnsureStates
                  /\ ensure'.pc = "mkdir" /\ ensure'.mgr = m /\ ensure'.at = ensure.at
                BY <4>1 DEF TypeOK, EnsureStates
            <4>3. TypeOK'
                BY <2>0, <3>1, <4>1, <4>2 DEF TypeOK, EnsureStates
            <4>4. EnsureInv'
                BY <2>0, <3>1, <3>2, <4>2 DEF EnsureInv, TypeOK
            <4>5. HolderInv'
                BY <2>0, <3>1, <3>2, <4>1, <4>2 DEF HolderInv, TypeOK
            <4>6. WatchInv' /\ PageInv' /\ CloseInv'
                BY <2>0, <3>1, <3>3, <4>1 DEF WatchInv, PageInv, CloseInv, Connected
            <4> QED
                BY <4>3, <4>4, <4>5, <4>6 DEF Inv
        <3>5. CASE Chain[ensure.at] # "persistent"
            <4>1. Open(Chain[ensure.at] = "isolated")
                BY <1>2, <2>2, <3>5 DEF Attempt
            <4> QED
                BY <2>0, <3>1, <3>2, <3>3, <4>1, OpenInv
        <3> QED
            BY <3>4, <3>5
    <2> QED
        BY <2>1, <2>2
<1>3. CASE MkdirDone
    <2>1. /\ ensure.pc = "mkdir" /\ Open(TRUE) /\ closing # "resumed"
          /\ UNCHANGED <<session, current, closing, state, browser, pages, creating, aside>>
        BY <1>3 DEF MkdirDone, Quiet
    <2>2. /\ ensure.mgr \in misled \/ browser[ensure.mgr] = None
          /\ ensure.mgr \in misled \/ state[ensure.mgr] = "connecting"
          /\ closing \in {"pages", "browser"} => current \in misled \/ ensure.mgr # current
        BY <2>1 DEF EnsureInv, CloseInv, TypeOK
    <2> QED
        BY <2>1, <2>2, OpenInv
<1>4. CASE MkdirFails
    <2>a. ensure' \in EnsureStates
        BY <1>4, NextModeFacts DEF MkdirFails, EnsureInv
    <2>b. chrome' \in [Browsers -> Chrome]
        BY <1>4 DEF MkdirFails, TypeOK
    <2>1. TypeOK'
        BY <1>4, <2>a, <2>b, ClosingType DEF MkdirFails, TypeOK, EnsureStates
    <2>2. EnsureInv'
        BY <1>4 DEF MkdirFails, NextMode, EnsureInv, NoEnsure
    <2>3. HolderInv'
        BY <1>4 DEF MkdirFails, HolderInv
    <2>4. WatchInv'
        BY <1>4 DEF MkdirFails, WatchInv
    <2>5. CloseInv'
        BY <1>4 DEF MkdirFails, NextMode, Resumed, CloseInv, NoEnsure
    <2>6. PageInv'
        BY <1>4 DEF MkdirFails, PageInv, Connected
    <2> QED
        BY <2>1, <2>2, <2>3, <2>4, <2>5, <2>6 DEF Inv
<1>5. CASE OpenSucceeds
    <2> DEFINE m == ensure.mgr
               b == ensure.browser
    <2>0. /\ ensure.pc = "opening" /\ closing # "resumed"
          /\ m \in Managers /\ b \in Browsers
          /\ session = "closed" \/ m = current
          /\ m \in misled \/ (state[m] = "connecting" /\ browser[m] = None)
          /\ chrome[b].life = "opening" /\ chrome[b].by = m
          /\ UNCHANGED <<session, current, pages, creating, aside>>
        BY <1>5 DEF OpenSucceeds, Quiet, EnsureInv
    <2>1. /\ chrome' \in [Browsers -> Chrome]
          /\ chrome'[b].life = "live" /\ chrome'[b].watcher = m /\ chrome'[b].by = m
          /\ \A c \in Browsers : c # b => chrome'[c] = chrome[c]
        BY <1>5, <2>0 DEF OpenSucceeds, Watched, TypeOK, Chrome
    <2>2. browser' = [browser EXCEPT ![m] = b]
        BY <1>5 DEF OpenSucceeds
    <2>3. /\ browser' \in [Managers -> Browsers \cup {None}]
          /\ browser'[m] = b /\ \A n \in Managers : n # m => browser'[n] = browser[n]
        BY <2>0, <2>2 DEF TypeOK
    <2>4. /\ \A n \in Managers : browser[n] # b
          /\ \A n \in Managers : <<n, b>> \notin creating
        BY <2>0 DEF HolderInv, PageInv
    <2>5. \/ /\ ensure' = NoEnsure /\ state' = [state EXCEPT ![m] = "connected"]
             /\ closing' = Resumed
          \/ /\ ensure' = [ensure EXCEPT !.pc = "pages"] /\ UNCHANGED <<state, closing>>
        BY <1>5 DEF OpenSucceeds
    <2>6. /\ ensure' \in EnsureStates
          /\ \/ ensure'.pc = "idle" /\ state'[m] = "connected" /\ closing' = Resumed
             \/ /\ ensure'.pc = "pages" /\ ensure'.mgr = m /\ ensure'.browser = b
                /\ ensure'.at = ensure.at
                /\ m \in misled \/ state'[m] = "connecting"
                /\ state' = state /\ closing' = closing
        BY <2>0, <2>5, NextModeFacts DEF TypeOK, EnsureStates, EnsureInv
    <2>7. /\ state' \in [Managers -> {"idle", "connecting", "connected", "disconnecting", "failed"}]
          /\ \A n \in Managers : n # m => state'[n] = state[n]
        BY <2>0, <2>5 DEF TypeOK
    <2>8. TypeOK'
        BY <2>0, <2>1, <2>3, <2>6, <2>7, ClosingType DEF TypeOK, EnsureStates
    <2>9. EnsureInv'
        BY <2>0, <2>3, <2>4, <2>6 DEF EnsureInv
    <2>10. HolderInv'
        BY <2>0, <2>1, <2>3, <2>4, <2>6, <2>7 DEF HolderInv, TypeOK
    <2>11. WatchInv'
        <3>1. ASSUME NEW c \in Browsers, chrome'[c].life = "live"
              PROVE  chrome'[c].by \in misled \/ \E n \in Managers : browser'[n] = c
            <4>1. CASE c = b
                BY <2>0, <2>3, <4>1
            <4>2. CASE c # b
                <5>1. /\ chrome'[c] = chrome[c]
                      /\ chrome[c].by \in misled \/ \E n \in Managers : browser[n] = c
                    BY <2>1, <3>1, <4>2 DEF WatchInv
                <5>2. ASSUME NEW n \in Managers, browser[n] = c
                      PROVE  chrome[c].by \in misled \/ browser'[n] = c
                    BY <2>0, <2>3, <3>1, <5>1, <5>2 DEF HolderInv
                <5> QED
                    BY <5>1, <5>2
            <4> QED
                BY <4>1, <4>2
        <3>2. \A c \in Browsers : chrome'[c].watcher # None =>
                  chrome'[c].watcher \in misled \/ browser'[chrome'[c].watcher] = c
            <4> SUFFICES ASSUME NEW c \in Browsers, c # b, chrome[c].watcher # None,
                                chrome[c].watcher \notin misled
                         PROVE  browser'[chrome[c].watcher] = c
                BY <2>1, <2>3
            <4>1. chrome[c].watcher \in Managers /\ browser[chrome[c].watcher] = c
                BY DEF WatchInv, TypeOK, Chrome
            <4> QED
                BY <2>0, <2>3, <4>1
        <3>4. \A c \in Browsers : chrome'[c].life \in {"opening", "late"} => chrome'[c].watcher = None
            BY <2>1 DEF WatchInv
        <3>3. \A n, k \in Managers : browser'[n] = browser'[k] /\ browser'[n] # None => n = k
            BY <2>0, <2>3, <2>4 DEF WatchInv
        <3> QED
            BY <2>0, <3>1, <3>2, <3>3, <3>4 DEF WatchInv
    <2>12. CloseInv'
        BY <2>0, <2>6, <2>7 DEF CloseInv, InFlight, Resumed, TypeOK
    <2>13. PageInv'
        BY <2>0, <2>1, <2>3, <2>4 DEF PageInv, Connected, TypeOK
    <2> QED
        BY <2>8, <2>9, <2>10, <2>11, <2>12, <2>13 DEF Inv
<1>6. CASE OpenFails
    <2>a. ensure' \in EnsureStates
        BY <1>6, NextModeFacts DEF OpenFails, Failed, EnsureInv
    <2>b. chrome' \in [Browsers -> Chrome]
        BY <1>6 DEF OpenFails, Failed, NoChrome, TypeOK, Chrome
    <2>1. TypeOK'
        BY <1>6, <2>a, <2>b, ClosingType DEF OpenFails, Failed, TypeOK, EnsureStates
    <2>2. EnsureInv'
        BY <1>6 DEF OpenFails, Failed, NextMode, EnsureInv, NoEnsure
    <2>3. HolderInv'
        BY <1>6 DEF OpenFails, Failed, EnsureInv, HolderInv
    <2>4. WatchInv'
        BY <1>6 DEF OpenFails, Failed, WatchInv, NoChrome
    <2>5. CloseInv'
        BY <1>6 DEF OpenFails, Failed, NextMode, Resumed, EnsureInv, CloseInv, NoEnsure
    <2>6. PageInv'
        BY <1>6 DEF OpenFails, Failed, PageInv, Connected, NoChrome
    <2> QED
        BY <2>1, <2>2, <2>3, <2>4, <2>5, <2>6 DEF Inv
<1>7. CASE TimesOut
    <2>a. ensure' \in EnsureStates
        BY <1>7, NextModeFacts DEF TimesOut, Failed, EnsureInv
    <2>b. chrome' \in [Browsers -> Chrome]
        BY <1>7 DEF TimesOut, Failed, NoChrome, TypeOK, Chrome, EnsureInv
    <2>1. TypeOK'
        BY <1>7, <2>a, <2>b, ClosingType DEF TimesOut, Failed, TypeOK, EnsureStates
    <2>2. EnsureInv'
        BY <1>7 DEF TimesOut, Failed, NextMode, EnsureInv, NoEnsure
    <2>3. HolderInv'
        BY <1>7 DEF TimesOut, Failed, EnsureInv, HolderInv
    <2>4. WatchInv'
        BY <1>7 DEF TimesOut, Failed, EnsureInv, WatchInv, NoChrome
    <2>5. CloseInv'
        BY <1>7 DEF TimesOut, Failed, NextMode, Resumed, EnsureInv, CloseInv, NoEnsure
    <2>6. PageInv'
        BY <1>7 DEF TimesOut, Failed, EnsureInv, PageInv, Connected
    <2> QED
        BY <2>1, <2>2, <2>3, <2>4, <2>5, <2>6 DEF Inv
<1>8. CASE PagesAnswer
    <2>a. ensure' \in EnsureStates
        BY <1>8, NextModeFacts DEF PagesAnswer, EnsureInv
    <2>b. chrome' \in [Browsers -> Chrome]
        BY <1>8 DEF PagesAnswer, TypeOK
    <2>1. TypeOK'
        BY <1>8, <2>a, <2>b, ClosingType DEF PagesAnswer, EnsureInv, TypeOK, EnsureStates
    <2>2. EnsureInv'
        BY <1>8 DEF PagesAnswer, EnsureInv, NoEnsure
    <2>3. HolderInv'
        BY <1>8 DEF PagesAnswer, TypeOK, EnsureInv, HolderInv
    <2>4. WatchInv'
        BY <1>8 DEF PagesAnswer, WatchInv
    <2>5. CloseInv'
        BY <1>8 DEF PagesAnswer, Resumed, EnsureInv, CloseInv, NoEnsure
    <2>6. PageInv'
        BY <1>8 DEF PagesAnswer, PageInv, Connected
    <2> QED
        BY <2>1, <2>2, <2>3, <2>4, <2>5, <2>6 DEF Inv
<1>9. CASE PagesFail
    <2>a. ensure' \in EnsureStates
        BY <1>9, NextModeFacts DEF PagesFail, Failed, EnsureInv
    <2>b. chrome' \in [Browsers -> Chrome]
        BY <1>9 DEF PagesFail, Failed, NoChrome, TypeOK, Chrome
    <2>1. TypeOK'
        BY <1>9, <2>a, <2>b, ClosingType DEF PagesFail, Failed, TypeOK, EnsureStates
    <2>2. EnsureInv'
        BY <1>9 DEF PagesFail, Failed, NextMode, EnsureInv, NoEnsure
    <2>3. HolderInv'
        BY <1>9 DEF PagesFail, Failed, TypeOK, EnsureInv, HolderInv
    <2>4. WatchInv'
        BY <1>9 DEF PagesFail, Failed, TypeOK, EnsureInv, WatchInv, NoChrome
    <2>5. CloseInv'
        BY <1>9 DEF PagesFail, Failed, NextMode, Resumed, EnsureInv, CloseInv, NoEnsure
    <2>6. PageInv'
        BY <1>9 DEF PagesFail, Failed, TypeOK, EnsureInv, PageInv, Connected, NoChrome
    <2> QED
        BY <2>1, <2>2, <2>3, <2>4, <2>5, <2>6 DEF Inv
<1>10. ASSUME NEW b \in Browsers, LateOpens(b)
      PROVE  Inv'
    <2>1. /\ chrome[b].life = "late"
          /\ UNCHANGED <<session, current, ensure, closing, state, browser, pages, creating, aside>>
        BY <1>10 DEF LateOpens
    <2>2. ASSUME NEW n \in Managers PROVE browser[n] # b
        BY <2>1, b # None DEF HolderInv
    <2>3. ASSUME NEW n \in Managers PROVE <<n, b>> \notin creating
        BY <2>1 DEF PageInv
    <2>5. chrome[b].watcher = None
        BY <2>1 DEF WatchInv
    <2>6. /\ \A n \in Managers : browser[n] # b /\ <<n, b>> \notin creating
          /\ chrome[b].watcher = None
        BY <2>2, <2>3, <2>5
    <2>7. chrome' = [chrome EXCEPT ![b].life = "closing"] \/ chrome' = [chrome EXCEPT ![b] = NoChrome]
        BY <1>10 DEF LateOpens
    <2>8. CASE chrome' = [chrome EXCEPT ![b].life = "closing"]
        <3>1. /\ chrome' \in [Browsers -> Chrome]
              /\ chrome'[b].life = "closing" /\ chrome'[b].watcher = None
            BY <2>6, <2>8 DEF TypeOK, Chrome
        <3> QED
            BY <2>1, <2>6, <2>8, <3>1, AloneInv
    <2>9. CASE chrome' = [chrome EXCEPT ![b] = NoChrome]
        <3>1. /\ chrome' \in [Browsers -> Chrome]
              /\ chrome'[b].life = "none" /\ chrome'[b].watcher = None
            BY <2>9 DEF TypeOK, Chrome, NoChrome
        <3> QED
            BY <2>1, <2>6, <2>9, <3>1, AloneInv
    <2> QED
        BY <2>7, <2>8, <2>9
<1>11. ASSUME NEW b \in Browsers, Disconnected(b)
      PROVE  Inv'
    <2>1. PICK lost \in SUBSET Managers :
              GivesUp(Heard(b) \cup lost) /\ misled' = misled \cup (lost \ Heard(b))
        BY <1>11 DEF Disconnected
    <2>2. /\ chrome' \in [Browsers -> Chrome]
          /\ chrome'[b] = NoChrome /\ \A c \in Browsers : c # b => chrome'[c] = chrome[c]
          /\ navigating' \subseteq navigating
          /\ UNCHANGED <<session, current, ensure, closing, creating, doomed>>
        BY <1>11 DEF Disconnected, TypeOK, Chrome, NoChrome
    <2>3. \A m \in Managers : m \in Heard(b) /\ m \notin misled => browser[m] = b
        BY DEF Heard, WatchInv
    <2>4. chrome[b].life \in {"live", "closing"}
        BY <1>11 DEF Disconnected, Connected
    <2>5. /\ Heard(b) \in SUBSET Managers
          /\ \A m \in Managers : m \in Heard(b) <=>
                m = chrome[b].watcher /\ state[m] \in {"connected", "connecting"}
        BY DEF Heard
    <2> QED
        BY <2>1, <2>2, <2>3, <2>4, <2>5, GivesUpInv
<1>12. CASE CreatePage
    <2>1. TypeOK'
        BY <1>12 DEF CreatePage, TypeOK
    <2>2. EnsureInv'
        BY <1>12 DEF CreatePage, EnsureInv
    <2>3. HolderInv'
        BY <1>12 DEF CreatePage, HolderInv
    <2>4. WatchInv'
        BY <1>12 DEF CreatePage, WatchInv
    <2>5. CloseInv'
        BY <1>12 DEF CreatePage, CloseInv, InFlight
    <2>6. PageInv'
        BY <1>12 DEF CreatePage, HolderInv, PageInv, Connected
    <2> QED
        BY <2>1, <2>2, <2>3, <2>4, <2>5, <2>6 DEF Inv
<1>13. ASSUME NEW m \in Managers, NEW b \in Browsers, PageCreated(m, b)
      PROVE  Inv'
    <2>1. TypeOK'
        BY <1>13 DEF PageCreated, TypeOK
    <2>2. EnsureInv'
        BY <1>13 DEF PageCreated, EnsureInv
    <2>3. HolderInv'
        BY <1>13 DEF PageCreated, HolderInv
    <2>4. WatchInv'
        BY <1>13 DEF PageCreated, WatchInv
    <2>5. CloseInv'
        BY <1>13 DEF PageCreated, CloseInv, InFlight
    <2>6. PageInv'
        BY <1>13 DEF PageCreated, Connected, TypeOK, PageInv
    <2> QED
        BY <2>1, <2>2, <2>3, <2>4, <2>5, <2>6 DEF Inv
<1>14. ASSUME NEW m \in Managers, NEW b \in Browsers, ClosePage(m, b)
      PROVE  Inv'
    <2>1. TypeOK'
        BY <1>14 DEF ClosePage, TypeOK
    <2>2. EnsureInv'
        BY <1>14 DEF ClosePage, EnsureInv
    <2>3. HolderInv'
        BY <1>14 DEF ClosePage, HolderInv
    <2>4. WatchInv'
        BY <1>14 DEF ClosePage, WatchInv
    <2>5. CloseInv'
        BY <1>14 DEF ClosePage, CloseInv, InFlight
    <2>6. PageInv'
        BY <1>14 DEF ClosePage, PageInv, Connected
    <2> QED
        BY <2>1, <2>2, <2>3, <2>4, <2>5, <2>6 DEF Inv
<1>15. CASE Close
    <2>1. /\ session = "active" /\ closing = "no"
          /\ UNCHANGED <<ensure, creating, navigating, misled>>
        BY <1>15 DEF Close, CloseInv
    <2>2. CASE current = None
        <3>1. session' = "closed" /\ UNCHANGED <<current, closing, state, browser, pages, doomed, chrome>>
            BY <1>15, <2>2 DEF Close
        <3> QED
            BY <2>1, <3>1 DEF Inv, TypeOK, EnsureInv, HolderInv, WatchInv, CloseInv, PageInv, Connected
    <2>3. CASE current # None /\ InFlight(current)
        <3>1. /\ session' = "closing" /\ closing' = "connection"
              /\ UNCHANGED <<current, state, browser, pages, doomed, chrome>>
            BY <1>15, <2>3 DEF Close
        <3> QED
            BY <2>1, <2>3, <3>1 DEF Inv, TypeOK, EnsureInv, HolderInv, WatchInv, CloseInv, PageInv, Connected, InFlight
    <2>4. CASE current # None /\ ~InFlight(current)
        <3>1. ShutDown(current) /\ current \in Managers
            BY <1>15, <2>4 DEF Close, TypeOK
        <3> QED
            BY <2>1, <2>4, <3>1, ShutDownInv
    <2> QED
        BY <2>2, <2>3, <2>4
<1>16. CASE CloseResumes
    <2>1. /\ closing = "resumed" /\ ShutDown(current)
          /\ UNCHANGED <<ensure, creating, navigating, misled>>
          /\ current \in Managers /\ session = "closing" /\ ~InFlight(current)
        BY <1>16 DEF CloseResumes, CloseInv, InFlight
    <2> QED
        BY <2>1, ShutDownInv
<1>17. CASE ShutdownEnds
    <2>1. /\ closing = "browser" /\ ~Connected(doomed) /\ Closed(current)
          /\ state' = [state EXCEPT ![current] = "idle"]
          /\ UNCHANGED <<ensure, creating, navigating, misled, chrome>>
          /\ current \in Managers /\ session = "closing"
        BY <1>17 DEF ShutdownEnds, CloseInv
    <2>2. current \in misled \/ browser[current] = doomed
        BY <2>1 DEF CloseInv
    <2>3. \A b \in Browsers : chrome'[b] = chrome[b] \/ (browser[current] = b /\ chrome'[b] = NoChrome)
        BY <2>1
    <2>4. browser[current] \in Browsers =>
              current \in misled \/ chrome'[browser[current]].life \notin {"live", "closing"}
        BY <2>1, <2>2 DEF Connected
    <2>5. chrome' \in [Browsers -> Chrome]
        BY <2>1 DEF TypeOK
    <2> QED
        BY <2>1, <2>3, <2>4, <2>5, ClosedInv
<1>20. CASE PagesClosed
    <2> DEFINE b == browser[current]
    <2>0. /\ closing = "pages" /\ current \in Managers /\ session = "closing"
          /\ UNCHANGED <<ensure, creating, misled>>
        BY <1>20 DEF PagesClosed, CloseInv
    <2>1. CASE b # None /\ (b # None => chrome[b].owned /\ Connected(b))
        <3>1. /\ closing' = "browser" /\ doomed' = b
              /\ chrome' = [chrome EXCEPT ![b].life = "closing"]
              /\ UNCHANGED <<session, current, state, browser, pages, navigating>>
              /\ b \in Browsers /\ chrome[b].life \in {"live", "closing"}
            <4>1. b \in Browsers /\ chrome[b].life \in {"live", "closing"}
                BY <2>0, <2>1 DEF Connected, TypeOK
            <4>2. /\ closing' = "browser" /\ doomed' = b
                  /\ chrome' = [chrome EXCEPT ![b].life = "closing"]
                  /\ UNCHANGED <<session, current, state, browser, pages, navigating>>
                BY <1>20, <2>1 DEF PagesClosed
            <4> QED
                BY <4>1, <4>2
        <3>2. /\ chrome' \in [Browsers -> Chrome]
              /\ chrome'[b].life = "closing" /\ chrome'[b].watcher = chrome[b].watcher
              /\ \A c \in Browsers : c # b => chrome'[c] = chrome[c]
            BY <3>1 DEF TypeOK, Chrome
        <3>3. TypeOK'
            BY <2>0, <3>1, <3>2 DEF TypeOK
        <3>4. EnsureInv'
            BY <2>0, <3>1, <3>2 DEF EnsureInv
        <3>5. HolderInv'
            BY <2>0, <3>1, <3>2 DEF HolderInv, CloseInv, WatchInv, TypeOK
        <3>6. WatchInv'
            BY <2>0, <3>1, <3>2 DEF WatchInv
        <3>7. CloseInv'
            BY <2>0, <3>1 DEF CloseInv
        <3>8. PageInv'
            BY <2>0, <3>1, <3>2 DEF PageInv, Connected
        <3> QED
            BY <3>3, <3>4, <3>5, <3>6, <3>7, <3>8 DEF Inv
    <2>2. CASE ~(b # None /\ (b # None => chrome[b].owned /\ Connected(b)))
        <3>1. /\ Closed(current)
              /\ chrome' = [c \in Browsers |-> IF c = b THEN NoChrome ELSE chrome[c]]
              /\ navigating' \subseteq navigating
            BY <1>20, <2>2 DEF PagesClosed
        <3>2. PICK after \in {"idle", "failed"} : state' = [state EXCEPT ![current] = after]
            BY <1>20, <2>2, Zenon DEF PagesClosed
        <3>3. chrome' \in [Browsers -> Chrome]
            BY <3>1 DEF TypeOK, Chrome, NoChrome
        <3>4. b \in Browsers => chrome'[b].life \notin {"live", "closing"}
            BY <3>1 DEF NoChrome
        <3>5. \A c \in Browsers : chrome'[c] = chrome[c] \/ (b = c /\ chrome'[c] = NoChrome)
            BY <3>1
        <3> QED
            BY <2>0, <3>1, <3>2, <3>3, <3>4, <3>5, ClosedInv
    <2> QED
        BY <2>1, <2>2
<1>21. CASE Navigate
    <2>1. /\ current \in Managers
          /\ UNCHANGED <<session, current, ensure, closing, browser, creating, doomed, chrome>>
          /\ \/ /\ \E b \in Browsers : navigating' = navigating \cup {<<current, b>>}
                /\ UNCHANGED <<state, pages, misled>>
             \/ /\ pages' = Emptied({current})
                /\ state' = [state EXCEPT ![current] = "failed"]
                /\ misled' = misled \cup {current}
                /\ UNCHANGED navigating
        BY <1>21 DEF Navigate, TypeOK
    <2>2. CASE \E b \in Browsers : navigating' = navigating \cup {<<current, b>>}
               /\ UNCHANGED <<state, pages, misled>>
        BY <2>1, <2>2 DEF Inv, TypeOK, EnsureInv, HolderInv, WatchInv, CloseInv, PageInv, Connected, InFlight
    <2>3. CASE /\ pages' = Emptied({current})
               /\ state' = [state EXCEPT ![current] = "failed"]
               /\ misled' = misled \cup {current}
               /\ UNCHANGED navigating
        <3>1. TypeOK'
            BY <2>1, <2>3 DEF TypeOK, Emptied
        <3>2. EnsureInv'
            BY <2>1, <2>3 DEF EnsureInv, TypeOK
        <3>3. HolderInv'
            BY <2>1, <2>3 DEF HolderInv, TypeOK
        <3>4. WatchInv' /\ CloseInv'
            BY <2>1, <2>3 DEF WatchInv, CloseInv, InFlight, TypeOK
        <3>5. PageInv'
            BY <2>1, <2>3 DEF PageInv, Connected, Emptied, TypeOK
        <3> QED
            BY <3>1, <3>2, <3>3, <3>4, <3>5 DEF Inv
    <2> QED
        BY <2>1, <2>2, <2>3
<1>22. ASSUME NEW m \in Managers, NEW b \in Browsers, NavigationEnds(m, b)
      PROVE  Inv'
    BY <1>22 DEF NavigationEnds, Inv, TypeOK, EnsureInv, HolderInv, WatchInv, CloseInv, PageInv,
                 Connected, InFlight
<1>23. ASSUME NEW m \in Managers, NEW b \in Browsers, NavigationLost(m, b)
      PROVE  Inv'
    <2>1. /\ GivesUp({m}) /\ misled' = misled \cup {m}
          /\ navigating' \subseteq navigating
          /\ UNCHANGED <<session, current, ensure, closing, creating, doomed, chrome>>
        BY <1>23 DEF NavigationLost
    <2> QED
        BY <2>1, MisledInv
<1>18. CASE UNCHANGED vars
    BY <1>18 DEF vars, Inv, TypeOK, EnsureInv, HolderInv, WatchInv, CloseInv, PageInv, InFlight, Connected
<1> QED
    BY <1>1, <1>2, <1>3, <1>4, <1>5, <1>6, <1>7, <1>8, <1>9, <1>10, <1>11, <1>12, <1>13, <1>14, <1>15, <1>16, <1>17, <1>18,
       <1>20, <1>21, <1>22, <1>23 DEF Next

(* The invariant holds at the start: no manager has a browser.             *)
LEMMA InitInv == Init => Inv
<1> SUFFICES ASSUME Init
             PROVE  Inv
    OBVIOUS
<1>1. TypeOK
    <2>1. Len(Chain) \in Nat
        BY ChainAssumption
    <2>2. NoEnsure \in [pc : {"idle", "attempt", "mkdir", "opening", "pages"},
                        mgr : Managers \cup {None}, at : 0 .. Len(Chain),
                        browser : Browsers \cup {None}]
        BY <2>1 DEF NoEnsure
    <2>3. NoChrome \in Chrome
        BY DEF NoChrome, Chrome
    <2> QED
        BY <2>2, <2>3 DEF Init, TypeOK
<1>2. EnsureInv /\ HolderInv /\ CloseInv
    BY DEF Init, NoEnsure, EnsureInv, HolderInv, CloseInv
<1>3. WatchInv /\ PageInv
    BY DEF Init, NoChrome, WatchInv, PageInv
<1> QED
    BY <1>1, <1>2, <1>3 DEF Inv

(* The state keeps its shape, whatever the order of the continuations.     *)
THEOREM TypeCorrect == Spec => []TypeOK
<1>1. Inv => TypeOK
    BY DEF Inv
<1> QED
    BY <1>1, InitInv, StepInv, PTL DEF Spec

(* No launched Chrome is lost by a failed attempt, a late launch, a crash  *)
(* or a shutdown, unless a navigation has told its manager of a loss.      *)
THEOREM OwnedHeld == Spec => []OwnedIsHeld
<1>1. Inv => OwnedIsHeld
    <2> SUFFICES ASSUME Inv, NEW b \in Browsers, chrome[b].life = "live", chrome[b].by \notin misled
                 PROVE  \E m \in Managers : browser[m] = b /\ (session = "closed" \/ m = current)
        BY DEF OwnedIsHeld
    <2>1. PICK m \in Managers : browser[m] = b
        BY DEF Inv, WatchInv
    <2>2. b # None
        BY NoneAssumption
    <2> QED
        BY <2>1, <2>2 DEF Inv, HolderInv
<1> QED
    BY <1>1, InitInv, StepInv, PTL DEF Spec

(* A manager that no navigation has misled learns of the loss of its       *)
(* browser whenever it happens.                                            *)
THEOREM ConnectedLive == Spec => []ConnectedIsLive
<1>1. Inv => ConnectedIsLive
    BY DEF Inv, HolderInv, ConnectedIsLive, Connected
<1> QED
    BY <1>1, InitInv, StepInv, PTL DEF Spec

(* Nor does such a manager register a page of a browser it has lost, by a  *)
(* late createPage either.                                                 *)
THEOREM PagesOfTheBrowser == Spec => []PagesAreOfTheBrowser
<1>1. Inv => PagesAreOfTheBrowser
    BY DEF Inv, PageInv, PagesAreOfTheBrowser
<1> QED
    BY <1>1, InitInv, StepInv, PTL DEF Spec

=============================================================================
