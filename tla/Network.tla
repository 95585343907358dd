------------------------------ MODULE Network ------------------------------
(***************************************************************************)
(* The requests of a page as two listeners see them, the tracker that says *)
(* when the network is quiet and the recorder of the last requests, and    *)
(* the stabilization that waits for both page and network:                 *)
(* src/src/browser/page-network-tracker.ts, page-network-recorder.ts,      *)
(* src/src/delta/dom-stabilizer.ts, src/src/tools/action-stabilization.ts. *)
(*                                                                         *)
(* There is no clock: a timer that runs may fire at any time, and one that *)
(* is set anew is the same timer.                                          *)
(***************************************************************************)
EXTENDS Integers, Sequences, FiniteSets, Values

CONSTANTS
    Requests,       \* bound: HTTPRequest objects, each sent once
    WebSockets,     \* those of them whose resource type is websocket
    Waits,          \* bound: calls that stabilize the page at a time
    MaxEntries      \* capacity of the recorder

VARIABLES
    listening,      \* the tracker is attached
    recording,      \* and the recorder
    sent,           \* the browser: where a request is
    document,       \* the open requests of the document that is there
    counted,        \* those that this generation of the tracker counted
    inflight,       \* inflightCount
    quietTimer,     \* quietTimer # null
    stabilizing,    \* the calls: how far, and what the DOM was
    buffer,         \* the recorder's ring
    head,
    count,
    nextId,
    pending,        \* request -> id of its entry
    late            \* history: one it did not count has ended

networkVars == <<listening, recording, sent, document, counted, inflight, quietTimer,
                 stabilizing, buffer, head, count, nextId, pending, late>>

recorderVars == <<buffer, head, count, nextId, pending>>

Slots == 0 .. MaxEntries - 1
NoEntry == [id |-> 0, state |-> Null]
NotStabilizing == [pc |-> "idle", dom |-> Null]

NetworkInit ==
    /\ listening = FALSE
    /\ recording = FALSE
    /\ sent = [r \in Requests |-> "no"]
    /\ document = {}
    /\ counted = {}
    /\ inflight = 0
    /\ quietTimer = FALSE
    /\ stabilizing = [w \in Waits |-> NotStabilizing]
    /\ buffer = [i \in Slots |-> NoEntry]
    /\ head = 0
    /\ count = 0
    /\ nextId = 1
    /\ pending = [r \in Requests |-> 0]
    /\ late = FALSE

(* quietResolvers.                                                         *)
Waiting == {w \in Waits : stabilizing[w].pc = "network"}

(* waitForQuiet has told w whether the network is quiet; what follows is   *)
(* one more look at a DOM that was stable.                                 *)
Told(w, idle) ==
    IF idle /\ stabilizing[w].dom = "stable"
    THEN [pc |-> "again", dom |-> "stable"]
    ELSE NotStabilizing

TellAll(idle) ==
    stabilizing' = [w \in Waits |-> IF w \in Waiting THEN Told(w, idle) ELSE stabilizing[w]]

-----------------------------------------------------------------------------
(* The recorder's ring: head is the oldest entry.                          *)
Place(i) == (head + i) % MaxEntries

AddEntry(entry) ==
    IF count >= MaxEntries
    THEN /\ buffer' = [buffer EXCEPT ![head] = entry]
         /\ head' = (head + 1) % MaxEntries
         /\ UNCHANGED count
    ELSE /\ buffer' = [buffer EXCEPT ![Place(count)] = entry]
         /\ count' = count + 1
         /\ UNCHANGED head

Entries == [i \in 1 .. count |-> buffer[Place(i - 1)]]

(* The entry of an ended request, which may have left the ring.            *)
Finishes(r, state) ==
    /\ buffer' = [i \in Slots |-> IF pending[r] # 0 /\ buffer[i].id = pending[r]
                                  THEN [buffer[i] EXCEPT !.state = state] ELSE buffer[i]]
    /\ pending' = [pending EXCEPT ![r] = 0]
    /\ UNCHANGED <<head, count, nextId>>

-----------------------------------------------------------------------------
(* onRequest of the tracker and of the recorder.                           *)
OnRequest_TimerRuns(r) ==
    /\ inflight' = inflight + 1
    /\ counted' = counted \cup {r}
    /\ UNCHANGED quietTimer

OnRequest(r) ==
    /\ inflight' = inflight + 1
    /\ counted' = counted \cup {r}
    /\ quietTimer' = FALSE

Records(r) ==
    /\ AddEntry([id |-> nextId, state |-> "pending"])
    /\ nextId' = nextId + 1
    /\ pending' = [pending EXCEPT ![r] = nextId]

Send(r) ==
    /\ sent[r] = "no"
    /\ sent' = [sent EXCEPT ![r] = "open"]
    /\ document' = document \cup ({r} \ WebSockets)
    /\ IF listening /\ r \notin WebSockets
       THEN OnRequest(r)
       ELSE UNCHANGED <<inflight, counted, quietTimer>>
    /\ IF recording /\ r \notin WebSockets
       THEN Records(r)
       ELSE UNCHANGED recorderVars
    /\ UNCHANGED <<listening, recording, stabilizing, late>>

(* onRequestFinished and onRequestFailed.  The handlers are those of the   *)
(* last generation, whatever the request belongs to.                       *)
OnRequestEnd(r) ==
    /\ inflight' = IF inflight > 0 THEN inflight - 1 ELSE 0
    /\ quietTimer' = \/ quietTimer
                     \/ inflight' = 0 /\ Waiting # {}
    /\ counted' = counted \ {r}
    /\ late' = (late \/ r \notin counted)

End(r) ==
    /\ sent[r] = "open"
    /\ sent' = [sent EXCEPT ![r] = "ended"]
    /\ document' = document \ {r}
    /\ IF listening /\ r \notin WebSockets
       THEN OnRequestEnd(r)
       ELSE UNCHANGED <<inflight, counted, quietTimer, late>>
    /\ IF recording
       THEN \E state \in {"answered", "failed"} : Finishes(r, state)
       ELSE UNCHANGED recorderVars
    /\ UNCHANGED <<listening, recording, stabilizing>>

(* attach, of another registration of the page too: it detaches first, and *)
(* who waits is told that the network is not quiet.                        *)
Attach ==
    /\ listening' = TRUE
    /\ recording' = TRUE
    /\ inflight' = 0
    /\ counted' = {}
    /\ IF listening
       THEN quietTimer' = FALSE /\ TellAll(FALSE)
       ELSE UNCHANGED <<quietTimer, stabilizing>>
    /\ pending' = [r \in Requests |-> 0]
    /\ late' = FALSE
    /\ UNCHANGED <<sent, document, buffer, head, count, nextId>>

(* removeTracker and removeRecorder when the page closes: the next to ask  *)
(* for one gets a new one.                                                 *)
RemoveTracker ==
    /\ listening
    /\ listening' = FALSE
    /\ inflight' = 0
    /\ counted' = {}
    /\ quietTimer' = FALSE
    /\ TellAll(FALSE)
    /\ late' = FALSE
    /\ UNCHANGED <<recording, sent, document, recorderVars>>

RemoveRecorder ==
    /\ recording
    /\ recording' = FALSE
    /\ buffer' = [i \in Slots |-> NoEntry]
    /\ head' = 0
    /\ count' = 0
    /\ nextId' = 1
    /\ pending' = [r \in Requests |-> 0]
    /\ UNCHANGED <<listening, sent, document, counted, inflight, quietTimer, stabilizing, late>>

-----------------------------------------------------------------------------
(* navigateTo.  The requests of the document before may end at any time;   *)
(* a page also navigates on its own.                                       *)
GoTo(w) ==
    /\ stabilizing[w].pc = "idle"
    /\ stabilizing' = [stabilizing EXCEPT ![w] = [pc |-> "goto", dom |-> Null]]
    /\ UNCHANGED <<listening, recording, sent, document, counted, inflight, quietTimer,
                   recorderVars, late>>

PageCommits ==
    /\ document' = {}
    /\ \/ UNCHANGED stabilizing
       \/ \E w \in Waits :
             /\ stabilizing[w].pc = "goto"
             /\ stabilizing' = [stabilizing EXCEPT ![w].pc = "loading"]
    /\ UNCHANGED <<listening, recording, sent, counted, inflight, quietTimer, recorderVars, late>>

GotoFails(w) ==
    /\ stabilizing[w].pc \in {"goto", "loading"}
    /\ stabilizing' = [stabilizing EXCEPT ![w] = NotStabilizing]
    /\ UNCHANGED <<listening, recording, sent, document, counted, inflight, quietTimer,
                   recorderVars, late>>

(* markNavigation of both, once the content of the new document is loaded: *)
(* what it has sent until then is forgotten with what was sent before it.  *)
(* Then navigateTo waits for quiet; who waits already goes on waiting.     *)
MarkNavigation(w) ==
    /\ stabilizing[w].pc = "loading"
    /\ stabilizing' = [stabilizing EXCEPT ![w] = [pc |-> "network", dom |-> "navigated"]]
    /\ listening' = TRUE
    /\ inflight' = 0
    /\ counted' = {}
    /\ quietTimer' = TRUE
    /\ pending' = [r \in Requests |-> 0]
    /\ late' = FALSE
    /\ UNCHANGED <<recording, sent, document, buffer, head, count, nextId>>

-----------------------------------------------------------------------------
(* stabilizeAfterAction.  The script of stabilizeDom ends by its quiet     *)
(* timer or by its hard one; an error is taken for a navigation.           *)
Stabilize(w) ==
    /\ stabilizing[w].pc = "idle"
    /\ stabilizing' = [stabilizing EXCEPT ![w] = [pc |-> "dom", dom |-> Null]]
    /\ UNCHANGED <<listening, recording, sent, document, counted, inflight, quietTimer, recorderVars, late>>

(* waitForNetworkQuiet attaches a tracker that is not.                     *)
StabilizeDom(w) ==
    /\ stabilizing[w].pc = "dom"
    /\ \E status \in {"stable", "timeout", "error"} :
          stabilizing' = [stabilizing EXCEPT ![w] = [pc |-> "network", dom |-> status]]
    /\ listening' = TRUE
    /\ quietTimer' = (quietTimer \/ inflight = 0)
    /\ UNCHANGED <<recording, sent, document, counted, inflight, recorderVars, late>>

QuietTimerFires ==
    /\ quietTimer
    /\ quietTimer' = FALSE
    /\ TellAll(TRUE)
    /\ UNCHANGED <<listening, recording, sent, document, counted, inflight, recorderVars, late>>

HardTimeout(w) ==
    /\ w \in Waiting
    /\ stabilizing' = [stabilizing EXCEPT ![w] = Told(w, FALSE)]
    /\ UNCHANGED <<listening, recording, sent, document, counted, inflight, quietTimer, recorderVars, late>>

StabilizeAgain(w) ==
    /\ stabilizing[w].pc = "again"
    /\ stabilizing' = [stabilizing EXCEPT ![w] = NotStabilizing]
    /\ UNCHANGED <<listening, recording, sent, document, counted, inflight, quietTimer, recorderVars, late>>

NetworkNext ==
    \/ Attach \/ PageCommits \/ RemoveTracker \/ RemoveRecorder \/ QuietTimerFires
    \/ \E r \in Requests : Send(r) \/ End(r)
    \/ \E w \in Waits :
          \/ GoTo(w) \/ GotoFails(w) \/ MarkNavigation(w)
          \/ Stabilize(w) \/ StabilizeDom(w) \/ HardTimeout(w) \/ StabilizeAgain(w)

-----------------------------------------------------------------------------
(* Each variable has its values, and a request is counted while it is open.*)
NetworkTypeOK ==
    /\ {listening, recording, quietTimer, late} \subseteq BOOLEAN
    /\ sent \in [Requests -> {"no", "open", "ended"}]
    /\ document \cup counted \subseteq {r \in Requests \ WebSockets : sent[r] = "open"}
    /\ head \in Slots
    /\ count \in 0 .. MaxEntries
    /\ \A w \in Waits :
          /\ stabilizing[w].pc \in {"idle", "goto", "loading", "dom", "network", "again"}
          /\ stabilizing[w].dom \in {Null, "stable", "timeout", "error", "navigated"}

(* A call is told that the network is quiet only when every request that   *)
(* was sent since the tracker was attached or last told of a navigation    *)
(* has ended.  It takes the counter, the timer and the generations         *)
(* together, over any number of overlapping calls; only the end of a       *)
(* request that was sent before can spoil it (LateEventsAreIgnored), and   *)
(* what was sent before is not waited for (NavigatedIsLoaded).             *)
QuietIsQuiet == quietTimer /\ ~late => counted = {}

(* navigateTo "waits for both DOM ready and network idle to ensure the     *)
(* page is fully loaded".                                                  *)
NavigatedIsLoaded ==
    \A w \in Waiting : stabilizing[w].dom = "navigated" /\ quietTimer /\ ~late => document = {}

(* The tracker says of its generations: "any late events from the previous *)
(* document are ignored".                                                  *)
LateEventsAreIgnored == inflight = Cardinality(counted)

=============================================================================
