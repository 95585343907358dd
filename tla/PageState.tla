----------------------------- MODULE PageState -----------------------------
(***************************************************************************)
(* What a session remembers of one page, and the tool calls that use it:   *)
(* the SnapshotStore (src/src/snapshot/snapshot-store.ts), the             *)
(* StateManager with its ElementRegistry (src/src/state), the              *)
(* DependencyTracker (src/src/form), and the tools of src/src/tools that   *)
(* act on an element, act on the page, take a snapshot, navigate and close *)
(* the page.                                                               *)
(*                                                                         *)
(* The page changes on its own between any two steps, so that its content  *)
(* is no state: a capture may return any snapshot, which is chosen where it*)
(* is used, and a node may be gone whenever it is used.  A call awaits the *)
(* browser before it acts and until its snapshot is compiled, and other    *)
(* calls run meanwhile; the answer and the store run in one step.          *)
(*                                                                         *)
(* Of a snapshot only the document it shows, the element found at each DOM *)
(* node and whether it is empty are kept.  A url stands for origin and     *)
(* path, and an element for its eid.                                       *)
(***************************************************************************)
EXTENDS Naturals, Sequences

CONSTANTS
    Calls,          \* bound: tool calls in flight
    Nodes,          \* bound: backend node ids, which other documents reuse
    Eids,           \* bound: semantic element ids
    Urls,           \* bound: the pages that can be navigated to
    None            \* null, undefined

VARIABLES
    open,           \* the page is open in the browser
    stored,         \* SnapshotStore.getByPageId
    current,        \* StateManager: currentSnapshot
    previous,       \* the url of previousSnapshot
    docId,          \* currentDocId
    registry,       \* ElementRegistry: the node of an eid, and how many
                    \* updates ago it was seen
    effects,        \* DependencyTracker: what was taken for the snapshot
                    \* before an action
    answers,        \* history: what the last answers found at the nodes
    calls           \* the tool calls

kept == <<stored, current, previous, docId, registry, effects, answers>>

vars == <<open, kept, calls>>

(* isStale's maxStaleSteps; more steps are not told apart.                 *)
MaxStaleSteps == 2
Forgotten == MaxStaleSteps + 1

ASSUME NoneAssumption == None \notin Nodes \cup Eids \cup Urls

(* An element has one node: resolveEidCollision gives duplicates a suffix. *)
Doms ==
    {d \in [Nodes -> Eids \cup {None}] :
        \A n1, n2 \in Nodes : d[n1] = d[n2] /\ d[n1] # None => n1 = n2}

Empty == [n \in Nodes |-> None]

Snapshot == [url : Urls, dom : Doms, health : {"ok", "empty"}]

ASSUME NoSnapshotAssumption == None \notin Snapshot

Healthy(s) == s.health = "ok"

Captures ==
    [url : Urls, dom : Doms, health : {"ok"}]
        \cup [url : Urls, dom : {Empty}, health : {"empty"}]

NoCall == [kind |-> "none", pc |-> "idle", ok |-> TRUE]

Unseen == [node |-> None, seen |-> Forgotten]

FreshManager ==
    /\ current' = None
    /\ previous' = None
    /\ docId' = None
    /\ registry' = [e \in Eids |-> Unseen]
    /\ answers' = <<>>

Init ==
    /\ open = TRUE
    /\ stored = None
    /\ current = None
    /\ previous = None
    /\ docId = None
    /\ registry = [e \in Eids |-> Unseen]
    /\ effects = {}
    /\ answers = <<>>
    /\ calls = [c \in Calls |-> NoCall]

-----------------------------------------------------------------------------
(* updateFromSnapshot: what is found is set, the rest stays and ages.      *)
Node(s, e) == CHOOSE n \in Nodes : s.dom[n] = e

Elements(s) == {s.dom[n] : n \in Nodes} \ {None}

Aged(r) == [r EXCEPT !.seen = IF @ < Forgotten THEN @ + 1 ELSE @]

UpdateFromSnapshot_AllSeen(s) ==
    [e \in Eids |-> IF e \in Elements(s)
                    THEN [node |-> Node(s, e), seen |-> 0]
                    ELSE [registry[e] EXCEPT !.seen = 0]]

UpdateFromSnapshot_FirstWins(s) ==
    [e \in Eids |-> IF e \in Elements(s) /\ registry[e].node = None
                    THEN [node |-> Node(s, e), seen |-> 0]
                    ELSE IF e \in Elements(s) THEN [registry[e] EXCEPT !.seen = 0]
                    ELSE Aged(registry[e])]

UpdateFromSnapshot(s) ==
    [e \in Eids |-> IF e \in Elements(s)
                    THEN [node |-> Node(s, e), seen |-> 0]
                    ELSE Aged(registry[e])]

LastAnswers(q) == IF Len(q) > Forgotten THEN SubSeq(q, 1, Forgotten) ELSE q

(* generateResponse: an empty snapshot is answered with an error baseline, *)
(* and only moves the current one to the previous.  The first snapshot and *)
(* that of another document are answered in full, the others with a diff.  *)
UrlOf(s) == IF s = None THEN None ELSE s.url

Reply(s) ==
    IF ~Healthy(s) THEN "error"
    ELSE IF current = None \/ s.url # docId THEN "baseline"
    ELSE IF s.url = current.url THEN "diff" ELSE "diff of two pages"

GenerateResponse_DocFirst(s) ==
    /\ previous' = UrlOf(current)
    /\ docId' = s.url
    /\ IF Healthy(s)
       THEN /\ registry' = UpdateFromSnapshot(s)
            /\ current' = s
            /\ answers' = LastAnswers(<<s.dom>> \o answers)
       ELSE UNCHANGED <<registry, current, answers>>

GenerateResponse(s) ==
    /\ previous' = UrlOf(current)
    /\ IF Healthy(s)
       THEN /\ docId' = s.url
            /\ registry' = UpdateFromSnapshot(s)
            /\ current' = s
            /\ answers' = LastAnswers(<<s.dom>> \o answers)
       ELSE UNCHANGED <<docId, registry, current, answers>>

(* requireSnapshot and resolveElementByEid: the node is taken from the     *)
(* registry and has to be found in the stored snapshot.                    *)
IsStale_OneMore(e) == registry[e].seen > MaxStaleSteps + 1

IsStale(e) == registry[e].seen > MaxStaleSteps

Resolves(e) ==
    /\ stored # None
    /\ registry[e].node # None
    /\ ~IsStale(e)
    /\ stored # None /\ registry[e].node # None => stored.dom[registry[e].node] # None

-----------------------------------------------------------------------------
(* The tools that act on an element: click; and type, select, hover and    *)
(* scroll into view, which retry, all called type.                         *)
BeginOnElement(c, kind, e) ==
    /\ calls[c] = NoCall
    /\ open
    /\ Resolves(e)
    /\ calls' = [calls EXCEPT ![c] = [NoCall EXCEPT !.kind = kind, !.pc = "act"]]
    /\ UNCHANGED <<open, kept>>

(* press and the other actions on the page, and the snapshot tool.         *)
BeginOnPage(c, kind) ==
    /\ calls[c] = NoCall
    /\ open
    /\ calls' = [calls EXCEPT ![c] = [NoCall EXCEPT !.kind = kind, !.pc = "settle"]]
    /\ UNCHANGED <<open, kept>>

(* navigate, back, forward and reload.                                     *)
BeginNavigation(c) ==
    /\ calls[c] = NoCall
    /\ open
    /\ effects' = {}
    /\ calls' = [calls EXCEPT ![c] = [NoCall EXCEPT !.kind = "navigate", !.pc = "act"]]
    /\ UNCHANGED <<open, stored, current, previous, docId, registry, answers>>

Navigates(c) ==
    /\ calls[c].kind = "navigate"
    /\ calls[c].pc = "act"
    /\ open
    /\ calls' = [calls EXCEPT ![c].pc = "settle"]
    /\ UNCHANGED <<open, kept>>

(* A click that fails ends the call; type goes on with an error, unless it *)
(* is told that the element is stale: then it takes a fresh snapshot.      *)
Click(c) ==
    /\ calls[c].kind = "click"
    /\ calls[c].pc = "act"
    /\ open
    /\ calls' \in {[calls EXCEPT ![c].pc = "settle"], [calls EXCEPT ![c] = NoCall]}
    /\ UNCHANGED <<open, kept>>

Type(c) ==
    /\ calls[c].kind = "type"
    /\ calls[c].pc = "act"
    /\ \/ open /\ calls' = [calls EXCEPT ![c].pc = "settle"]
       \/ open /\ calls' = [calls EXCEPT ![c].pc = "refresh"]
       \/ calls' = [calls EXCEPT ![c].pc = "settle", ![c].ok = FALSE]
    /\ UNCHANGED <<open, kept>>

(* The fresh snapshot is stored, not answered.  The element is looked up by*)
(* label and kind; it is not found, or the second attempt succeeds or not. *)
(* In any case there is no third.                                          *)
Refresh(c) ==
    /\ calls[c].pc = "refresh"
    /\ \/ /\ open
          /\ stored' \in Captures
          /\ \E ok \in BOOLEAN :
                calls' = [calls EXCEPT ![c].pc = "settle", ![c].ok = ok]
       \/ /\ calls' = [calls EXCEPT ![c].pc = "settle", ![c].ok = FALSE]
          /\ UNCHANGED stored
    /\ UNCHANGED <<open, current, previous, docId, registry, effects, answers>>

(* The action, the capture or the rebinding before it throws.              *)
Fails(c) ==
    /\ \/ calls[c].pc = "settle"
       \/ calls[c].pc = "act" /\ calls[c].kind \in {"click", "navigate"}
    /\ calls' = [calls EXCEPT ![c] = NoCall]
    /\ UNCHANGED <<open, kept>>

(* The snapshot that was read, perhaps before the page was closed, is      *)
(* answered and stored.  type compares it with the previous snapshot of    *)
(* before the answer, and remembers what differs; click forgets the effects*)
(* if the url has changed since its beginning.                             *)
Before == IF previous = UrlOf(current) THEN "the page acted on" ELSE "another page"

Effects(c) ==
    CASE calls[c].kind = "type" /\ calls[c].ok /\ previous # None ->
            {effects \cup {Before}, effects}
      [] calls[c].kind = "click" -> {effects, {}}
      [] OTHER -> {effects}

Finish(c) ==
    /\ calls[c].pc = "settle"
    /\ \E s \in Captures : GenerateResponse(s) /\ stored' = s
    /\ effects' \in Effects(c)
    /\ calls' = [calls EXCEPT ![c] = NoCall]
    /\ UNCHANGED open

(* While a JavaScript dialog blocks the page, click and the snapshot tool  *)
(* answer with the stored snapshot.                                        *)
AnswerStored(c) ==
    /\ calls[c].kind \in {"click", "page"}
    /\ calls[c].pc \in {"act", "settle"}
    /\ IF stored = None
       THEN UNCHANGED <<current, previous, docId, registry, answers>>
       ELSE GenerateResponse(stored)
    /\ calls' = [calls EXCEPT ![c] = NoCall]
    /\ UNCHANGED <<open, stored, effects>>

-----------------------------------------------------------------------------
(* closePage: first the page, then, when it is closed, what is known of it.*)
BeginClose(c) ==
    /\ calls[c] = NoCall
    /\ open
    /\ open' = FALSE
    /\ calls' = [calls EXCEPT ![c] = [NoCall EXCEPT !.kind = "close", !.pc = "closing"]]
    /\ UNCHANGED kept

ClosePage(c) ==
    /\ calls[c].pc = "closing"
    /\ stored' = None
    /\ effects' = {}
    /\ FreshManager
    /\ calls' = [calls EXCEPT ![c] = NoCall]
    /\ UNCHANGED open

(* clearSessionState, when the browser is lost.                            *)

ClearSessionState ==
    /\ stored' = None
    /\ effects' = {}
    /\ FreshManager

BrowserLost ==
    /\ open
    /\ open' = FALSE
    /\ ClearSessionState
    /\ UNCHANGED calls

Next ==
    \/ BrowserLost
    \/ \E c \in Calls :
          \/ \E kind \in {"click", "type"}, e \in Eids : BeginOnElement(c, kind, e)
          \/ BeginOnPage(c, "page")
          \/ BeginNavigation(c) \/ Navigates(c)
          \/ Click(c) \/ Type(c) \/ Refresh(c)
          \/ Fails(c) \/ Finish(c) \/ AnswerStored(c)
          \/ BeginClose(c) \/ ClosePage(c)

Spec == Init /\ [][Next]_vars

-----------------------------------------------------------------------------
(* The shape of the state; only what was never seen has no node.           *)
TypeOK ==
    /\ open \in BOOLEAN
    /\ stored \in Snapshot \cup {None}
    /\ current \in Snapshot \cup {None}
    /\ previous \in Urls \cup {None}
    /\ docId \in Urls \cup {None}
    /\ registry \in [Eids -> [node : Nodes \cup {None}, seen : 0 .. Forgotten]]
    /\ \A e \in Eids : registry[e].node = None => registry[e] = Unseen
    /\ effects \subseteq {"the page acted on", "another page"}
    /\ answers \in Seq(Doms) /\ Len(answers) <= Forgotten
    /\ calls \in [Calls -> [kind : {"none", "click", "type", "page", "navigate", "close"},
                            pc : {"idle", "act", "refresh", "settle", "closing"},
                            ok : BOOLEAN]]

(* A diff is never taken between two documents: none of the snapshots that *)
(* may come in next is compared with one of another page, in whatever order*)
(* overlapping calls finish and whatever empty snapshots came before.      *)
DiffIsWithinPage == \A s \in Captures : Reply(s) # "diff of two pages"

(* What the client was told last can be used: each element of the answer   *)
(* resolves to the very node it was found at, as long as the snapshot of   *)
(* the answer is the stored one.                                           *)
AnsweredEidsResolve ==
    current # None =>
        \A n \in Nodes : current.dom[n] # None =>
            /\ registry[current.dom[n]] = [node |-> n, seen |-> 0]
            /\ stored = current => Resolves(current.dom[n])

(* An eid never leads to a node at which it was not found in one of the    *)
(* last three answers.                                                     *)
ResolvedWasAnswered ==
    \A e \in Eids : Resolves(e) =>
        \E i \in 1 .. Len(answers) : answers[i][registry[e].node] = e

(* "Snapshot before the action": the effects of an action are told by a    *)
(* comparison with a snapshot of the page that was acted on.               *)
EffectsAreOfTheAction == "another page" \notin effects

=============================================================================
