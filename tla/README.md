# A verification development for browser-mcp

browser-mcp is an MCP server that gives a language model a browser: a client calls
tools (`navigate`, `click`, `snapshot`, ...), the server drives Chrome through
Puppeteer, and answers with a compact picture of the page in which every element has
a semantic id (an *eid*) that later calls refer to. This directory holds TLA+ modules
that model the stateful parts of `src/src`, TLC configurations that check them on
small instances, and proofs for TLAPS.

The program is one Node.js thread. Nothing in it is preempted; what can go wrong
happens at its awaits, where tool calls, timers, browser events, crashes and shutdowns
interleave, and state that was read before an await is used after it. The modules
therefore have one action per stretch of code between two awaits, and their properties
are about what those stretches do to each other.

## Inventory

| Part | State it keeps | Operations | What is hard | What makes it correct |
|---|---|---|---|---|
| Lease manager (`worker/lease-manager.ts`) | `leases`, the cleanup interval | acquire, release, refresh, revoke, isLeaseHeldBy, hasLease, cleanupExpired | time, checks that write, two ends of one lease | a grant lasts exactly as promised; ends announced once |
| Worker pool (`worker-manager.ts`, `chrome-worker-process.ts`, `port-allocator.ts`) | `workers`, `tenantToWorker`, timers, reserved ports, one process object per worker | acquireForTenant, releaseLease, refreshLease, stopWorker, shutdown; idle, TTL and exit events | five awaits in one acquisition, crashes at each | one worker per tenant, the limit, no lost port, no orphan, no immortal worker |
| Health monitor (`health-monitor.ts`) | one record per worker | checks on an interval | late answers of an unregistered worker | a verdict rests on its own checks (it is only logged today) |
| Gateway (`gateway/http-gateway.ts`, `session-router.ts`) | two maps under the same session ids, the idle timer | initialize, POST, GET, DELETE, eviction, shutdown | both maps are torn down by awaits, from either end; a session refused after its id is set | both agree; each session torn down once; idle ones evicted |
| Session (`session/session-controller.ts`) | the manager, snapshots, state managers, tracker, current page | ensureBrowser, close, resolvePage, resolveElementByEid | a close during a launch | a closed session has no browser |
| Browser connection (`browser/session-manager.ts`, `ensure-browser.ts`) | connection state, browser, promise in flight | launch, connect, shutdown, createPage, closePage, rebind | timeouts that race their answer, a fallback chain, disconnects, navigations that take a closed tab for one | an owned browser is always held by its manager |
| Page registry (`browser/page-registry.ts`) | handles per page id, the page used last | register, replace, touch, remove, syncPages, rebind | tabs opened and closed behind the server's back, repairs that overlap | a page that is gone stays gone; its client is open |
| Page state (`snapshot/snapshot-store.ts`, `state/`) | stored, current and previous snapshot, document id, element registry | store, generateResponse, isStale, getByEid | several moments of one page in use at a time | an eid leads to the element it was given for |
| Tools (`tools/`) | none of their own | click, type, press, navigate, snapshot, ... | long awaits between reading and writing the page state | answers, store and registry move together |
| Dependency tracker, forms (`form/`) | effects per page; permits of the runtime reads | recordEffect, clearPage, getFormUnderstanding, getFieldContext | which snapshot is "before"; reads that wait for each other | effects are those of the action; a ready form is filled; it answers |
| Non-DOM surfaces (`non-dom/`) | pending dialog, chooser, permission; the surface shown | click that opens one, resolve, dismiss, type into it | browser events at any await; a dialog blocks every other command; its own may fail | the pending dialog is the open one; every dialog ends |
| CDP client (`cdp/`) | open, closed by us, dead | send, close | a session that dies between two commands | a registered page has a client that is open |
| Network tracker, recorder, stabilizer (`browser/page-network-*`, `delta/`) | in-flight counter, generation, quiet timer; a ring of requests | attach, markNavigation, waitForQuiet, waitForPageStable | late, lost and double ends of requests, a navigation marked after it has loaded | "quiet" is only said when no counted request is open |
| Observations (`observation/`) | in the page: log, reported index, processed elements, shadow roots | inject, capture, getAccumulated, getSince, link to nodes | two calls fetch and mark, the log overflows | nothing is marked reported that nobody fetched |
| Input (`snapshot/element-resolver.ts`, `tools/canvas-tools.ts`, `viewport-tools.ts`) | none of its own | click, type, press, hover, select, scroll, drag, wheel, inspect | commands that fail half way, retries | the page gets each action once |
| Snapshot compiler (`snapshot/`) | listener cache of one compilation | five reads and their failures | the page changes between two reads | every node in its order, under its heading, in its frame |
| Answers (`state/`: actionables, layers, diff, rendering) | previous snapshot, regions answered before | generateResponse | eids that collide, overlays that come and go, trimming | what the diffs told adds up to the page |
| Query engine, eid linker (`query/`, `observation/eid-linker.ts`) | none | find, suggestions, link | counts against filters, ties | a suggestion keeps its promise |
| Screenshots (`screenshot/`) | none | I/O | | |
| Server, installer, CLI, configuration (`server/`, `install/`, `cli/`, `lib/`, `shared/`) | registration, files | sequential | | |

How they interact: the HTTP gateway makes one transport, one MCP server and one session
controller per client, through the router; a controller owns one session manager (one
browser) and the page state of its pages; the tools of the server get the controller as
their context. The worker pool and its leases serve tenants with Chrome processes and call
each other by events (a lease that ends starts an idle timer, a worker that crashes revokes
its lease). A lost browser reaches the controller as a state change, which clears the page
state.

## Modules

| Module | Models | Composes |
|---|---|---|
| `ExclusiveLease` | the abstract promise of a lease | |
| `LeaseManager` | `lease-manager.ts` | refines `ExclusiveLease` |
| `LeaseManagerProofs` | its theorems, with the refinement | `LeaseManager` |
| `WorkerManager`, `MCWorkerManager` | the pool with its processes, ports and leases | the lease table, reduced to "its end has come" |
| `WorkerManagerProofs` | theorems of the pool, whatever requests overlap | `MCWorkerManager` |
| `WorkerPoolProofs` | theorems of what it keeps of a tenant until two requests for it cross, and of its size | `WorkerManagerProofs` |
| `Gateway` | gateway, router and the end of controllers | |
| `GatewayProofs` | its theorems | `Gateway` |
| `BrowserSession` | controller, fallback chain and connection of one session | |
| `BrowserSessionProofs` | its theorems | `BrowserSession` |
| `PageState`, `MCPageState` | store, state manager, registry, tracker of one page, and the tools that use them | |
| `PageStateProofs` | its theorems | `PageState` |
| `Surfaces` | dialogs, choosers, permission prompts and the clicks that meet them | |
| `MCBrowser` | | `BrowserSession` and `Surfaces`, one at a time, with the fairness of both |
| `PageRegistry` | registry, CDP clients, syncPages, rebinding | |
| `Network` | tracker, recorder, stabilization after an action | |
| `Observations` | the script in the page and the accumulator | |
| `Inputs` | input commands, fallbacks and retries | |
| `HealthMonitor` | health checks of workers | |
| `MCServices` | | the six modules above, one at a time |
| `ServiceProofs` | theorems of these six | `MCServices` |
| `Layers` | layer detection, kinds, eid tests | |
| `Answers` | actionables, diffs, regions, trimming, and what the client knows | `Layers` |
| `Queries` | query engine, suggestions, eid linker, stale elements | `Layers` |
| `Forms` | form detection, runtime values, dependencies | `Layers` |
| `Snapshots` | the compiler against a page that changes | `Layers` |
| `MCReading` | | the four modules above, one at a time |
| `ReadingProofs` | theorems of `Forms`, `Answers` and `Queries` | `MCReading` |
| `Values` | the value that stands for null | |

**LeaseManager.** One action per method: all are synchronous. `leases` is the map, `now`
the clock (bounded by `Horizon`), `sweeping` the interval. `told` is a history of what each
controller was last answered, `made` and `announced` count leases and callbacks.

**WorkerManager.** `workers`, `mapping`, `ports`, `lease` are the four tables; `entry[w]`
joins a `WorkerEntry` with its `ChromeWorkerProcess` (state, port, what the operating system
still runs, timers); `call[r].pc` is the await at which a call of `acquireForTenant` is
suspended (the stop of an old worker, the port probe, mkdir, the polling of the debugging
endpoint). The constructor of the process, which throws when no Chrome is found, is one of the
outcomes of the probe. `waiters` are those who await a `stop()`. A promise that is resolved continues
before any other event: this is `Quiet`. The exit of Chrome, its answers and programs that
listen on a port (`ForeignPorts`) are the environment. Two histories say where a promise ends:
`lost` holds the ports that the throwing constructor lost, `crossed` the tenants for which two
calls were under way at once, or one of whose workers was to be cleaned up while another cleanup
of it was awaited or a call was starting it (`Overlapping`, `Crosses`). An acquisition during
the cleanup that a timer began, and all requests of different tenants, do not cross.

**Gateway.** `gateway` and `router` are the two maps, `controller` the state of each session
controller, `closes` counts the closings of a session's server. A session ends from either
side: DELETE and a lost transport begin at the gateway, eviction at the router, and each
awaits the server, the transport and the controller. `refused` holds the sessions for which the
router had no place, whose server nobody closes. Idleness is a flag instead of a time.

**BrowserSession.** `ensure` is the single chain of modes that the callers of
`ensureBrowser` share, with its awaits; `state`, `browser` and `pages` are a
`SessionManager`'s; `chrome` is the life of every browser: opening, live, closing, gone, and
who listens to its disconnection. A launch that has timed out may still bring a browser.
`Chain` gives the modes; "user" stands for `connect()`. `navigating` are the calls of
`navigateTo`, whose catch may take the error of a closed tab or a detached frame for the loss of
the browser: the manager lets go of a Chrome that lives. `misled` is the history of managers to
which that has happened; `doomed` is the browser a shutdown is closing, which need not be the
one the manager has by then.

**PageState.** One page. The page itself is no state: it changes between any two steps, so a
capture returns any snapshot and a node may be gone when it is used. A snapshot keeps its
document, which eid is at which DOM node, and whether it is empty. `type` stands for every
tool that runs through `executeActionWithRetry`, `page` for those that act on no element and
for the snapshot tool. A snapshot may be read before, and answered after, the page is closed:
that is why `Finish` does not ask whether the page is open. Between `generateResponse` and
the `store` of the caller there is only the resolution of one promise, and no browser event
in between; the model takes them as one step. A snapshot with no url, for which
`computeDocId` throws before anything but `previousSnapshot` has changed, is one of those
answered with an error. No other call of `generateResponse` is known to throw; if one did after
`currentDocId` was set, the next diff would be one between two documents. `Answers` has the
throw with its other effects (`AnswerThrown`).

**Surfaces.** The browser has at most one dialog (`dialog`) and blocks while it has one;
`wire` holds the events and command answers that have left it, in order. `pendingDialog`,
`chooser`, `pendingRequest` and `surface` are the fields of the process; `actions[a].pc` is
the await of a tool call: the probe of the session, the click, the settling after it, the
capture, the two commands of a permission. `live` says that the session of the handle works,
`attached` and `detecting` that it is the one the dialog manager and the permission detector
listen to: a session that dies is replaced by one to which `rebindCdpSession` attaches neither.
The command that resolves a dialog may fail at any time, by a dead session or its timeout, with
the dialog open; `resolveDialog` forgets the dialog all the same, and `missed` records it.
`decided` and `premature` are the permission of the browser and a history.

**PageRegistry.** `tabs` is the browser's side, `registry` the map in its order, `clients`
every CDP session made. `regCalls[c].pc` is the await of a sync, a creation, a closing or a
repair. `gone` is the history of ids that left the registry, `unrepaired` that of the clients
whose repair closed them and then got no new session, which can happen to an open tab.

**Network.** `inflight`, `generation` and `quietTimer` are the tracker's; `document` what the
document that is there really has open, `counted` the part of it that the tracker knows of.
`navigateTo` is a call with three awaits: the `goto`, after which it marks the navigation and
the requests sent until then drop out of `counted`, the wait for loading, and the wait for the
network. `late` is set by an end that belongs to no counted request. A timer fires at any time.
The recorder is a ring of `MaxEntries`.

**Observations.** `acc` is the object in `window`, lost with its document. The elements are a
small tree with a toast, a host with a shadow root and a host in that one; they are attached,
detached, hidden and shown by the page, in batches of mutations. Calls inject, act, capture, and
overlap; an injection may fail, and an answer may be lost after its entries were marked reported
in the page, which the accumulator answers with an empty list (`unheard`).
A batch is a fold of `Process` over its mutations. A flush takes the entries behind the
reported index, and `CapturedOnce` enters an element that is new and significant (`Fresh`).

**Inputs.** An operation is a sequence of protocol commands; each may succeed, fail, or find
that the element was drawn anew. `delivered[c]` is what the page received of call `c`: which
commands of the program, by their position in it.

**HealthMonitor.** A check holds the state object it started with, so `states` are objects
and `watched` the map from ids to them.

**Answers.** `current` is the snapshot answered last, `known` what a client that applies every
answer believes of each eid, `withheld` the eids that changed in a diff, or stood in a region
called unchanged, and were not shown since, and those that two elements of the snapshot have.
An answer may be an error, for an empty snapshot or for something that throws. A snapshot is a
sequence of nodes from `MCReading`'s small set of pages.

**Queries.** The nodes of one page and one request at a time; words are atoms and their
similarity is a table (`BeginsWith`, `Similarity`), since only its comparison with the
thresholds matters. `IsRequest` is what the engine accepts: every filter, a least score,
exact, fuzzy and case-sensitive labels and empty ones, and whether suggestions are wanted
(`suggest`). No tool asks for suggestions, `findElements` included; the tests of the engine do.
`promised` is the count that the suggestion followed last gave, with the request it is of.

**Forms.** `stored` is the snapshot, `live` what the fields of the page hold now; the reads of
`readRuntimeValues` go through a semaphore (`permits`, `waiting`), one step per read.

**Snapshots.** `phase` is the read that `compile` waits for: the DOM, the accessibility trees,
the frame tree, the candidates for interactivity one by one, the layout. The page may be
replaced by another between any two, and each read may fail. A heading whose accessible name
is empty keeps that name, and one that has none takes its text.

In the composing modules a behaviour is one of one part; the parts share no variables in the
code either (each belongs to one page or one call), so their product would add no behaviour.

## Runs

"pass" runs show that the properties hold; "violation" runs show where the code does
something else than it says.

| Run | Shows | Bounds, and why they are enough |
|---|---|---|
| `LeaseManager` | `GrantsAreKept`: a controller holds by `isLeaseHeldBy` exactly what an active lease promised; `AnnouncedAtMostOnce`; `IsExclusiveLease`: refinement; `UnmarkedIsCleanedUp`: the sweep gets to every lapsed lease no check has marked | two tenants, two controllers, times to live 0 and 1, clock to 2, two leases each: enough for a lease to be replaced, revived and swept; the safety part is proved for every instance |
| `WorkerPool` | whatever overlaps: the mapping leads only into the pool (`MappingIsKnown`), no port is lost but by the throwing constructor (`ReservedPortsAreOwned`); and until two requests for a tenant cross: it has one worker (`OneWorkerPerTenant`), its active lease is on a worker of the pool whose idle timer does not run (`LeasedIsKept`), its Chrome belongs to a worker of the pool or was killed (`NoOrphans`) | two calls at once, two tenants, two workers, three ports, one taken by another program: two calls for one tenant, two for two, a probe that has to move on |
| `WorkerLimit` | `LimitIsKept`: the pool and the calls that have passed the test of the limit exceed it by less than the number of calls | a limit of one, two calls for one tenant or for two, two workers and three ports: both calls pass the test before either has its worker, and the limit is exceeded |
| `WorkerHardTtl` | `RunningEnds`: the hard TTL ends every running worker | one tenant, two workers: a worker and its successor |
| `WorkerCrashStays` (violation) | a crashed worker stays in the pool: its cleanup awaits an exit that has happened | |
| `Gateway` | active sessions are reachable (`ActiveIsReachable`), each is closed once (`ClosedOnce`); idle ones are evicted, deleted ones destroyed | three sessions against a limit of two: one refused, two overlapping ends |
| `BrowserSession` | `OwnedIsHeld`: a launched browser always has a manager that will close it, late answers included; `ConnectedIsLive`, `PagesAreOfTheBrowser`: a lost browser leaves nothing behind; all three unless a navigation has misled the manager; `EnsureEnds`: who asks for the browser gets it or an error; `DialogEnds`: a dialog ends while the client goes on acting, in the first session and unless its resolution has failed | the automatic chain of three modes, two managers (one before and one after a close), three browsers: two that a launch left behind or that a navigation gave up, and the next; one tool call after another, two kinds of dialog, one of them at the closing of a page, two messages under way |
| `BrowserOutlivesSession` (violation) | a close between two modes leaves a browser nobody closes | |
| `PageState` | `DiffIsWithinPage`: no diff between two documents; `AnsweredEidsResolve`: the eids of the last answer lead to their nodes; `ResolvedWasAnswered`: no eid leads where it was not found in the last three answers | two overlapping calls, two urls, two nodes, two eids: elements that move, swap, vanish and whose node is taken over by another; symmetry in all four (no liveness is checked here) |
| `PageServices` | `PendingIsShown`: once the events are heard, the pending dialog is the one that blocks the page, unless a resolution of it has failed; `ClosedStaysClosed`: no repair brings a closed page back; `RegisteredClientIsOpen`: no page is left with a client its repair has closed, unless that repair got no new one; `QuietIsQuiet`: the timer of the quiet network runs only when no counted request is open; `CollectedBeforeOverflow`: nothing is marked reported that nobody fetched; `ActedOnce`: a retry never repeats what the page has received; `UnhealthyByItsOwnChecks` | two kinds of dialog, one of them at the closing of a page, two messages under way, one rebinding; two overlapping page operations on one tab, three clients: a repair under a repair under a close; four requests, one a websocket, and two calls that navigate or wait, so that requests are in flight in each of two documents; five elements over three levels of shadow trees, two calls that overlap, a log of two and three mutations, so that it overflows; every input operation by two calls, the element drawn anew once; two workers, two checks at a time, three state objects: one worker registered twice |
| `Reading` | `DiffsAddUp`: what a client knows from baselines and diffs is what the page shows; `RefinementNarrows`: a suggested refinement finds what it promised, but for a least score, and for a suggested whole label where the one asked for is empty or minds case; `ReadyFormIsFilled`: readiness is that of the values just read; `HeadingIsLastBefore`: no heading crosses into or out of a frame; `FormIsAnswered`: the pool of reads never blocks | four answers over every sequence of the pages in `MCSnapshots`: equal eids, overlays over each other, a navigation by path, regions too long to show; three lookups on three pages; forms that are explicit, implicit and nested, two permits for three reads so that one waits; two pages with frames, shadow trees, canvases, options and overlays, a frame with nodes before and after its headings, three compilations or changes of the page, every read failing once |
| `EffectsOfAnotherPage` (violation) | effects are compared with the snapshot before the last | |

`ReplayIsDecided` (Surfaces), `NothingIsLeft` (Inputs), `UrgentIsShown` (Answers),
`OneNodeEachInOrder` (Snapshots) and the type invariants of those modules hold in the same
instances; the two runs leave them out because their mutants say less about the code.

Deadlock is not checked: every one of these systems may rest (no request comes, the session
is closed, the bounds of the instance are used up).

**Fairness.** `LeaseManager`: the sweep, which is a `setInterval`. `WorkerManager`: the event
loop (a continuation whose promise is resolved runs), the end of a probe, of mkdir and of the
polling (bounded by a timeout in the code), timers that are set, and the exit of a process
that got SIGKILL; strong fairness only where other events may come in between and the code
does wait for that one. `Gateway`: the idle check and the three closings. `BrowserSession`:
the launch timeout, mkdir, the reading of the pages, the disconnection of a browser that is
being closed, and, by strong fairness since calls that fail over and over may take their turn,
the two awaits of a shutdown. For `DialogEnds`, in the same run: an event of the browser is delivered,
a dialog command that has reached it is handled, a call goes on when what it awaits is there,
and, by strong fairness, a client goes on calling tools that act: without that nobody dismisses
a dialog left over, and the code has no timer that would. `Reading` (for `FormIsAnswered`): a
read of a field ends, by its own timeout at the latest, and `get_form` goes on when all have.
None of them makes a browser answer in time, or a launch succeed, and only the last clause of
`DialogEnds` makes a client call anything.

## What the code does otherwise

Checked, one run each (see `findings` in PROJECT.json): `WorkerCrashStays`,
`BrowserOutlivesSession`, `EffectsOfAnotherPage`.

These definitions state what a comment, a doc or a test says, and TLC finds each violated when
it is given to the run of its module. The first eleven are what the promises that the runs check
have to except:

| Property | Run | Says | Instead |
|---|---|---|---|
| `OnlyOneWorker` | WorkerPool | `worker-manager.ts:156` | while the cleanup of a timer awaits `stop()`, `stopWorker` for the same tenant does not wait for it (`chrome-worker-process.ts:241`) and the next acquisition makes a new worker; the cleanup then deletes the tenant's mapping, whatever worker it names (`:506`), and the one after that makes another beside it: also for a caller that awaits each request |
| `NeverOverLimit` | WorkerLimit | `worker/types.ts:98` | the limit is tested before the probe of a port is awaited (`:384`, `:389`) and the worker counted after it |
| `FailureReleasesPort` | WorkerPool | `worker-manager.ts:461` | the constructor of the process throws when there is no Chrome, after the port was reserved (`:389`) and before the `try` (`:429`): each such request loses a port |
| `NeverOrphaned` | WorkerPool | `chrome-worker-process.ts:222` | a stop during the mkdir of a start returns at once (`:241`), and the start spawns a Chrome of no worker |
| `LeasedIsNotStopped` | WorkerPool | `worker-manager.ts:204` | while a cleanup awaits `stop()`, up to five seconds, the state is still "running" and the mapping there: an acquisition gets a lease on a Chrome that was sent SIGTERM |
| `ShutdownIsComplete` | WorkerPool | `worker-manager.ts:355` | a request whose port is being probed adds its worker after shutdown has collected those it stops |
| `FailedHasNoBrowser` | BrowserSession | `browser-session.error.ts:216` | `navigateTo` takes the error of a closed tab or a detached frame for the loss of the browser: a launched Chrome is dropped and runs on, and its listener drops the next one when it ends |
| `ServersAreHeld` | Gateway | `http-gateway.ts:216` | when `createSession` refuses a session its id is set already (`:170`): its server and transport are neither closed nor kept |
| `OpenIsPending` | PageServices | `dialog-manager.ts:141` | a resolution whose command fails clears the pending dialog (`:169`) while it is open; nothing dismisses it any more |
| `NavigatedIsLoaded` | PageServices | `session-manager.ts:701` | the navigation is marked after `goto` has returned (`:731`): requests of the new document that are open then are forgotten, and the wait for a quiet network does not wait for them |
| `PromiseIsKept` | Reading | `query.types.ts:165` | a least score is a share of another maximum once a filter is added (`scoring.ts:168`); the whole label that is suggested drops the case asked for (`disambiguation.ts:118`); an empty label filters nothing (`query-engine.ts:198`) and is counted (`disambiguation.ts:111`) |
| `GrantsAreExclusive` | LeaseManager | `lease-manager.ts:5` | `acquire` revives an entry marked expired without the mark: two controllers hold one tenant |
| `NextModeIsTried` | BrowserSession | `README.md:750` | after a failed mkdir the state stays "connecting" and the next mode is refused |
| `DialogIsLinked` | Reading | `README.md:401` | an appeared dialog scores .55 by role and tag, but its text is compared with a trimmed label |
| `UnchangedWasShown` | Reading | `state-renderer.ts:165` | a region called unchanged may hold elements the client was never shown |
| `ActiveIsTopmost` | Reading | `state/types.ts:310` | a modal wins over a popover above it |
| `DependenciesAreReported` | Reading | `execute-action.ts:265` | effects are keyed by eid and reported by another id |
| `SiblingsAgree` | Reading | `interactivity-detector.ts:208` | of two alike siblings one may inherit the listener of an ancestor and the other not |
| `OverlayIsKept` | Reading | `snapshot-compiler.ts:363` | the limit keeps by role before it looks at z-index |
| `FrameContainsNode` | Reading | `snapshot.types.ts:107` | nodes of a frame can be given the frame of their owner |
| `OneHandlePerTab` | PageServices | `session-manager.ts:519` | two overlapping syncs register one tab twice |
| `LateEventsAreIgnored` | PageServices | `page-network-tracker.ts` | the end of a request of the document before lowers the counter of the next |
| `ReportedWasCollected` | PageServices | `observer-script.ts:640` | when the log overflows, the reported index moves over entries nobody fetched |

Met on the way, and visible in the modules:

- An entry that `hasLease` or `refresh` marked expired is never swept
  (`UnmarkedIsCleanedUp` has to exclude it).
- A second `destroySession` of one session returns from `close()` at once and gives its place
  free while the browser still closes (`session-router.ts:115`).
- The retry of a stale element stores a snapshot that is never answered if the final capture
  throws (`execute-action.ts:204`).
- A session that was replaced (`rebindCdpSession`) has neither the dialog manager nor the
  permission detector attached to it; a dialog after that is seen by nobody.
- `markNavigation` cancels the quiet timer; a wait then needs another request to end before
  its own timeout does. The navigation of a detached frame clears the element registry.
- Diffs never tell changes of implicitly interactive elements, of eids that collide, or of
  anything under a modal, and `pressed` is not compared: `DiffsAddUp` names these exceptions.
- A required radio group is never ready; the least confidence of a dependency (.3) filters
  nothing, since every one starts above it. Timed-out reads of fields go on beyond the limit.
- The loader ids of the frames are read after the DOM they are meant for.
- `ElementRegistry.clear` has no caller; after a navigation the eids of the page left resolve
  for two more answers if the new page has a node of the same id.

## Proofs

`tlapm` checks every theorem below for all values of the constants: any number of tenants,
calls, workers, sessions, browsers, pages, requests and checks, and every bound.

| Module | Theorems |
|---|---|
| `LeaseManagerProofs` | `TypeCorrect`; `GrantsKept`; `FirmGrantsExclusive`: no two controllers answered from an active lease hold a tenant at once; `AnnouncedOnce`; `Refinement`: `Spec => IsExclusiveLease` |
| `WorkerManagerProofs` | `TypeCorrect`, `MappingKnown`, `PortsOwned`, for requests that overlap in any way |
| `WorkerPoolProofs` | `OneWorker`, `LeasedKept`, `NoOrphan`, of each tenant until two requests for it cross; `LimitKept`, whatever overlaps |
| `GatewayProofs` | `TypeCorrect`, `ActiveReachable`, `ClosedAtMostOnce`, `MapsStayInAgreement` |
| `BrowserSessionProofs` | `TypeCorrect`, `OwnedHeld`, `ConnectedLive`, `PagesOfTheBrowser` |
| `PageStateProofs` | `TypeCorrect`, `DiffWithinPage`, `AnswersResolve`, `ResolvedAnswered` |
| `ServiceProofs` | `GoneStaysGone`, `RegisteredIsOpen`, `UnhealthyIsItsOwn`, `QuietMeansQuiet`, `PendingMeansShown`, `InputsActOnce`, `NothingIsMissed`, of the specification that composes the services |
| `ReadingProofs` | `ReadyIsFilled`, `AnswersAddUp`, `SuggestionsKeepPromise`, of the one that composes what is read of a page |

**Assumptions.** All are about constants, and TLC evaluates each in a passing run. `Ttls`,
ports, limits and thresholds are natural numbers (`TtlsAssumption`, `PortsAssumption`,
`LimitAssumption`, `MaxAssumption`, `ThresholdAssumption`); the chain of modes is not empty
(`ChainAssumption`); and the value that stands for "nothing" is none of the things it stands in
for (`NoLeaseAssumption`, `NobodyAssumption`, `NothingAssumption`, `NoObjectAssumption`,
`CallersAssumption`, `NoneAssumption`, `NoSnapshotAssumption`). Those about inputs say what the
code can be given: operations are those there are (`OperationsAssumption`), an element is in a
snapshot once and in a region that has limits (`SnapshotsAssumption`, `LimitsAssumption`),
nodes have labels and flags (`PagesAssumption`), a similarity lies between 0 and 1
(`SimilarityAssumption`), the limit of the log is a natural number and a page has finitely many
elements (`LogAssumption`), requests are those the engine accepts, with finitely many flags
(`RequestsAssumption`), and there are finitely many calls in flight, and at least one
(`FlightAssumption`), since `LimitKept` counts them. No other set needs to be finite but those the code
counts, whose finiteness is proved.

**Lease table.** `GrantsAreKept` is not inductive: it says that two *answers* agree, and a step
could make them agree by accident of a state that the next step breaks, for example with a
lease that ends later than its controller was told. `IInv == TypeOK /\ Kept` says why they
agree: an active lease ends exactly when its controller was told, and a firm answer without an
active lease of that controller is over. There is one lemma per way in which the table changes
(`RefreshKeeps`, `DropKeeps`, `MarkKeeps`). The refinement maps the holder of a tenant to the
controller of its live lease; `StepRefines` has one step per method, over `OneTenant` (a call
takes, extends or frees one tenant), `ManyTenants` (a sweep or `clear` frees several) and
`TimePasses` (the clock ends leases by itself, which the abstract clock does too).

**Pool.** `PoolInv` adds to the type, the mapping and the ports what the steps take for
granted without a look: a worker of the pool, or one that is cleaned up, has an entry
(`MadeInv`), and a call has what its stage needs and waits for one cleanup, in one place
(`CallsInv`). The ports keep their owners on every path but one, the throw between the
reservation and the `try`, whose ports are in `lost`.

Three promises hold of a tenant until two requests for it cross, and only together.
`UncrossedInv` is one invariant per tenant, of its own workers, calls, lease and cleanups
(`Of`, `Pool`, `For`), so that a step for another tenant, or for one that has crossed, changes
nothing it speaks of; `OwnInv` says that calls and leases do keep to their tenants. `StagesInv`:
the tenant has one call, which finds no worker of it when it makes one, and the worker it starts
is neither leased nor has it a timer (`Starts`), which is why nobody cleans it up behind its
back. `CleanupsInv`: the mapping leads to *every* worker of the tenant in the pool, and a cleanup
that has ended leaves no other worker behind. `LeaseInv`: a leased worker is in the pool and not
about to leave it. `ChromesInv`: a Chrome is listened to as long as it runs, so that its exit
is noticed. A step that lets two requests cross only has to say so. `LimitIsKept` counts the
calls that have passed the test of the limit with the workers, which makes it inductive: passing
the test needs a place, and getting the worker changes nothing of the sum.

**Gateway.** `Inv` adds to the three invariants of the run what makes them inductive: a
session begins once, with nothing of it left over (`BeginsOnce`), and its server is open as
long as the gateway has it (`OpenWhileKnown`), so whoever takes it out closes it, and only
one does. `MapsAgree` is inductive on top of it.

**Browser of a session.** `EnsureInv` says of each stage of the chain of modes what it has in its
hands: a manager of the session that is connecting, and no browser but the one being opened;
`HolderInv` that a manager with a browser listens to it or is shutting it down; `WatchInv` that
a live browser has exactly one manager, the one that listens. a launch that answers late, a crash, a loss and a close each change two of these at once. They
except the managers that a navigation has misled, and the browsers those have opened: a page in
creation, a shutdown under way and the listener of a dropped browser each outlive the loss.

**Page state.** The document of the manager is that of its last snapshot, which empty ones do not
change (`DocIsCurrent`); each element of that snapshot was just seen where it was found
(`CurrentIsKnown`); and an eid seen so many updates ago was seen there in that answer
(`SeenIsAnswered`), which ages with each update as the registry does.

**Page registry.** A repair or a close holds a handle across its awaits, and a repair that fails
leaves the client it closed in `unrepaired`. `HeldInv` says that it is
one that is, or was, in the registry, with the page it has there; `IdsInv` that ids and clients
are never given twice, nor used again once they left; `ClosedInv` that a registered client that
was closed has a call that will still close its page or replace it. Positions move when an
entry is removed, which is what `RemoveFacts` is about.

**Services.** `HealthInv` ties the failures of a registration to those of its own answers;
`NetworkInv` the counter to the set of requests it should count, whose finiteness it keeps too.
`PendingIsShown` speaks of the moment when nothing is under way; `SurfacesInv` of every other:
the last message that `Tells` the manager anything says which dialog is open (`WireTells`). An
answer to `Page.handleJavaScriptDialog` is such a message or not depending on the call that
waits for it, so each answer under way belongs to one call, which is waiting (`AnswersFit`). Once
a resolution of the open dialog has failed (`missed`) it says nothing more.

**Inputs.** `ActedOnce` speaks of what the page received; `InputsInv` also of where a call
stands. `Fits` says that the positions delivered ascend and pass over no command that has an
effect, that a call under way has delivered exactly those before its position, and one that is
done all of them. `ProgramsAreSound` looks at the program of each operation, among other
things for where a retry may begin again; `SentOne` and its successors then hold for a
command of any program.

**Observations.** `CollectedBeforeOverflow` follows from `ObservationsInv`, which says nothing of
a log that has overflown: until then the reported index lies within the log, and what is
before it was fetched by some call, which may have lost the answer, since the log only grows
between a fetch and the next (`Grown`). A
batch is a fold over mutations, and `BatchGrows` goes by induction over the batch. The library
states induction for an operator, which no installed prover can instantiate; here the numbers
for which the claim holds are collected in a set, and `NatSet` says that a set with 0 and with
the successor of each of its numbers has them all, by the least number outside it (`LeastOf`).

**Forms.** The forms are detected before their fields are read and held across the reads, so
`FormsInv` says of each held form what detection knew of it (`IsForm`: it can be submitted only
when no field is invalid), and the lemmas what enriching it with the values read changes.

**Answers.** `AnswersInv` adds to `DiffsAddUp` that eids which two elements of the current
snapshot have are withheld (`Colliding`). A diff goes by eid, and tells of each eid for which
the maps of the two snapshots differ (`MapHolds`); that it tells the truth of an element needs
that no other has its eid (`OnlyOne`). What is shown passes choosing, a stable sort and
trimming, which keep only elements that were there (`ChosenIs`, `SortedIs`, `TrimmedIs`); both
rest on `Ranks`: in a total order of a finite set each place is taken.

**Queries.** A suggestion counts those of the answer's matches that pass one more test; the next
answer counts the nodes that match the request with that filter. `NarrowedByKind` to
`NarrowedByLabel` say that the filter and the test agree on every node: for the whole label only
because something has matched a part of it, so that words to compare are left; and that what
is asked then is again a request the engine accepts. A least score, and a label that is empty or
minds case, are where they do not agree, and are named in the promise. `ChosenCounts` and `RenumberedCounts` say that
choosing and sorting keep the counts; a sort renumbers its sequence (`SortedByKey`) when its
keys are numbers, which the scores are (`MatchScoreIs`, down to the sum of a fold, `SumIs`).
`QueriesInv` says that each suggestion of the last answer keeps its promise if nothing was cut
off, since it is followed in a later step.

Only model-checked, since it is out of the provers' reach: every liveness property
(`UnmarkedIsCleanedUp`, `RunningEnds`, `EnsureEnds`, `IdleIsEvicted`, `DeletedIsDestroyed`,
`DialogEnds`, `FormIsAnswered`), ENABLED, and `HeadingIsLastBefore`, which compares two
recursions over the tree of a page, the walk of `buildHeadingIndex` and the order of the
document: induction over trees of any depth, with a sequence flattened at every node.

## Not modelled, and the plan

Not modelled at all: screenshots and attachments (I/O), the MCP server and its tool
registration, the installer, the command line, configuration, logging, errors and schemas:
sequential code with no state to interleave.

Left out of modelled parts: labels from the DOM, locators and attributes of nodes (Snapshots);
the purposes of fields and masking (Forms); how similar two words are, which is a table
(Queries); the XML of answers (Answers); the mutation observer of the stabilizer, of which only
the outcome is kept (Network); the texts of dialogs (Surfaces). `detach`, `adoptPage`,
`executeActionWithOutcome` and `ElementRegistry.clear` have no caller in `src/src`.

What comes next:

1. Proofs: `HeadingIsLastBefore`, by induction over the height of a tree, from lemmas about
   `FlattenSeq` and the walk at one node.
2. `GatewaySessions`: `Gateway` composed with the browser of each session, for the limit.

To check a module: `tlc -config PageState.cfg MCPageState`; to check the proofs:
`tlapm WorkerPoolProofs.tla`, and the same for each module whose name ends in `Proofs`.
