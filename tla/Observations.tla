---------------------------- MODULE Observations ----------------------------
(***************************************************************************)
(* What a page adds and removes while no call looks: the observer injected *)
(* into its document, and the calls that fetch what it saw.                *)
(* src/src/observation/observer-script.ts, observation-accumulator.ts and  *)
(* the callers in src/src/tools.                                           *)
(*                                                                         *)
(* The document is a fixed set of elements, each with its place; the page  *)
(* attaches, detaches, hides and shows them.  Its mutations of one task    *)
(* reach the observer together, before any other task of the page runs.    *)
(***************************************************************************)
EXTENDS Integers, Sequences, FiniteSets, SequencesExt, Values

CONSTANTS
    Elements,       \* the elements that come and go
    Parent,         \* element -> element that holds it, or Body
    Hosted,         \* those held by the shadow root of their parent
    Markup,         \* element -> signals of its attributes and text
    Looks,          \* element -> signals of its style and size
    ObsCalls,          \* bound: tool calls at a time
    MaxLog,     \* MAX_ENTRIES of the log
    MaxShadow,      \* MAX_SHADOW_OBSERVERS
    MaxMutations,   \* bound: mutations of a behaviour
    MaxBatch,       \* bound: mutations of one task
    MaxTime         \* bound: milliseconds that pass

(* A document has finitely many elements, and the log a size.              *)
ASSUME LogAssumption == IsFiniteSet(Elements) /\ MaxLog \in Nat

VARIABLES
    held,           \* elements attached to their parent
    hidden,         \* elements that are display:none themselves
    acc,            \* __observationAccumulator of the document
    batch,          \* mutation records the observers have not seen
    now,            \* Date.now()
    mutations,      \* history: number of mutations so far
    looking,        \* the calls
    collected,      \* history: ids of the entries some call was given
    unheard,        \* history: ids in answers that were lost
    trimmed         \* history: entries left the log

observationVars ==
    <<held, hidden, acc, batch, now, mutations, looking, collected, unheard, trimmed>>

Body == "body"
Absent == [log |-> <<>>, lastReported |-> 0, processed |-> {}, shadow |-> {}, body |-> Null]
Injected == [Absent EXCEPT !.body = "current"]
NotLooking == [pc |-> "idle", since |-> 0, inject |-> FALSE]

ObservationsInit ==
    /\ held = {}
    /\ hidden = {}
    /\ acc = Injected
    /\ batch = <<>>
    /\ now = 0
    /\ mutations = 0
    /\ looking = [c \in ObsCalls |-> NotLooking]
    /\ collected = {}
    /\ unheard = {}
    /\ trimmed = FALSE

-----------------------------------------------------------------------------
(* The tree.                                                               *)
Path[e \in Elements] == IF Parent[e] = Body THEN {e} ELSE {e} \cup Path[Parent[e]]
Connected(e) == Path[e] \subseteq held
Inside(e) == {d \in Elements : e \in Path[d] /\ Path[d] \ Path[e] \subseteq held}

(* querySelectorAll does not enter a shadow root.                          *)
Descendants(e) == {d \in Inside(e) \ {e} : (Path[d] \ Path[e]) \cap Hosted = {}}
Hosts == {Parent[e] : e \in Hosted}

(* The root an element lives in: Body, or the host of the nearest shadow   *)
(* root around it.                                                         *)
RootOf[e \in Elements] ==
    IF e \in Hosted \/ Parent[e] = Body THEN Parent[e] ELSE RootOf[Parent[e]]

Visible(e) == Connected(e) /\ Path[e] \cap hidden = {}

-----------------------------------------------------------------------------
(* computeSignals and computeSignificance.  An element without layout has  *)
(* no size; a detached one no style either.  isTopLevelInShadow counts as  *)
(* a direct child of the body.                                             *)
WEIGHTS ==
    [hasAlertRole |-> 3, hasAriaLive |-> 3, isDialog |-> 3, isFixedOrSticky |-> 2,
     hasHighZIndex |-> 1, coversSignificantViewport |-> 2, isBodyDirectChild |-> 1,
     containsInteractiveElements |-> 1, isKnownToastLibrary |-> 3,
     isVisibleInViewport |-> 2, hasNonTrivialText |-> 1]

Threshold == 4

Signals(e) ==
    Markup[e]
        \cup (IF Connected(e) THEN Looks[e] \ {"coversSignificantViewport"} ELSE {})
        \cup (IF Visible(e) THEN (Looks[e] \cap {"coversSignificantViewport"})
                                     \cup {"isVisibleInViewport"} ELSE {})
        \cup (IF e \in held /\ (Parent[e] = Body \/ e \in Hosted)
              THEN {"isBodyDirectChild"} ELSE {})

Significance(e) == MapThenSumSet(LAMBDA s : WEIGHTS[s], Signals(e))
Significant(e) == Significance(e) >= Threshold

Aria == {"hasAlertRole", "hasAriaLive", "isDialog"}

(* captureEntry.  The id tells entries apart; the code has none.           *)
Entry(place, e, type, by) ==
    [id |-> mutations * 10 + place, element |-> e, type |-> type, by |-> by, at |-> now]

Captured(a, e, type, by) ==
    IF Significant(e) THEN [a EXCEPT !.log = Append(@, Entry(Len(a.log), e, type, by))] ELSE a

(* An element is captured as added once in the life of the observer.       *)
Fresh(a, found) == SetToSeq({e \in found : e \notin a.processed /\ Significant(e)})

CapturedOnce(a, fresh) ==
    LET entry(i) == Entry(Len(a.log) + i - 1, fresh[i], "added", "tree")
    IN [a EXCEPT !.log = @ \o [i \in 1 .. Len(fresh) |-> entry(i)],
                 !.processed = @ \cup ToSet(fresh)]

-----------------------------------------------------------------------------
(* observeShadowRoot on each host that checkAndObserveShadowRoots finds,   *)
(* within the limit, and cleanupShadowObservers, which finds the hosts in  *)
(* the light tree of the removed element only.                             *)
ShadowRoom(a) == MaxShadow - Cardinality(a.shadow)

Observing(a, found) ==
    [a EXCEPT !.shadow = @ \cup
        (CHOOSE s \in SUBSET (found \ @) :
            /\ Cardinality(s) <= ShadowRoom(a)
            /\ Cardinality(s) = ShadowRoom(a) \/ s = found \ @)]

ObserveShadowRoots(a, e) == Observing(a, Inside(e) \cap Hosts)

CleanupShadowObservers(a, e) == [a EXCEPT !.shadow = @ \ ({e} \cup Descendants(e))]

(* processAddedNode: the element, the descendants that are ARIA regions,   *)
(* then the innermost ones with text.                                      *)
ProcessAddedNode(a, e) ==
    LET aria == {d \in Descendants(e) : Markup[d] \cap Aria # {}}
        leaves == {d \in Descendants(e) \ aria : Descendants(d) = {}}
        fresh == Fresh(a, {e}) \o Fresh(a, aria) \o Fresh(a, leaves)
    IN IF e \in a.processed THEN a ELSE ObserveShadowRoots(CapturedOnce(a, fresh), e)

ProcessRemovedNode(a, e) == CleanupShadowObservers(Captured(a, e, "removed", "tree"), e)

(* processCharacterDataMutation: the live region around the text, once in  *)
(* the same moment.                                                        *)
LiveRegions(e) == {r \in Path[e] : RootOf[r] = RootOf[e] /\ Markup[r] \cap {"hasAlertRole", "hasAriaLive"} # {}}

ProcessCharacterData(a, e) ==
    IF LiveRegions(e) = {} THEN a
    ELSE LET region == CHOOSE r \in LiveRegions(e) : \A o \in LiveRegions(e) : Path[o] \subseteq Path[r]
             recent == \E i \in 1 .. Len(a.log) :
                          a.log[i].element = region /\ a.log[i].by = "text" /\ a.log[i].at = now
         IN IF recent THEN a ELSE Captured(a, region, "added", "text")

(* processAttributeMutation.                                               *)
ProcessAttribute(a, e) == IF e \in hidden THEN a ELSE CapturedOnce(a, Fresh(a, {e}))

Process(a, m) ==
    CASE m.kind = "added" -> ProcessAddedNode(a, m.element)
      [] m.kind = "removed" -> ProcessRemovedNode(a, m.element)
      [] m.kind = "text" -> ProcessCharacterData(a, m.element)
      [] m.kind = "attribute" -> ProcessAttribute(a, m.element)

(* createMutationCallback: the records in order, then the oldest entries   *)
(* go.                                                                     *)
Excess(log) == IF Len(log) > MaxLog THEN Len(log) - MaxLog ELSE 0

Callback ==
    /\ batch # <<>>
    /\ LET a == FoldLeft(Process, acc, batch)
       IN /\ acc' = [a EXCEPT !.log = SubSeq(a.log, Excess(a.log) + 1, Len(a.log))]
          /\ trimmed' = (trimmed \/ Excess(a.log) > 0)
    /\ batch' = <<>>
    /\ UNCHANGED <<held, hidden, now, mutations, looking, collected, unheard>>

-----------------------------------------------------------------------------
(* The page.  The observer of the body, or that of the shadow root around  *)
(* it, records a mutation of the connected tree.                           *)
Observed(parent, root) ==
    /\ acc.body = "current"
    /\ parent = Body \/ Connected(parent)
    /\ root = Body \/ root \in acc.shadow

Mutates(kind, e, seen) ==
    /\ mutations < MaxMutations
    /\ Len(batch) < MaxBatch
    /\ mutations' = mutations + 1
    /\ batch' = IF seen THEN Append(batch, [kind |-> kind, element |-> e]) ELSE batch
    /\ UNCHANGED <<acc, now, looking, collected, unheard, trimmed>>

(* A detached tree is rebuilt between tasks.                               *)
AttachElement(e) ==
    /\ e \notin held
    /\ batch = <<>> \/ Path[e] \ {e} \subseteq held
    /\ held' = held \cup {e}
    /\ Mutates("added", e, Observed(Parent[e], RootOf[e]))
    /\ UNCHANGED hidden

DetachElement(e) ==
    /\ e \in held
    /\ batch = <<>> \/ Connected(e)
    /\ held' = held \ {e}
    /\ Mutates("removed", e, Observed(Parent[e], RootOf[e]))
    /\ UNCHANGED hidden

Toggle(e) ==
    /\ hidden' = (hidden \ {e}) \cup ({e} \ hidden)
    /\ Mutates("attribute", e, Connected(e) /\ Observed(Parent[e], RootOf[e]))
    /\ UNCHANGED held

ChangeText(e) ==
    /\ Mutates("text", e, Connected(e) /\ Observed(Parent[e], RootOf[e]))
    /\ UNCHANGED <<held, hidden>>

(* A navigation takes the observer with the document; setContent leaves    *)
(* it with a body that is no longer in the document.                       *)
Navigate(body) ==
    /\ batch = <<>>
    /\ mutations < MaxMutations
    /\ mutations' = mutations + 1
    /\ held' = {}
    /\ hidden' = {}
    /\ acc' = IF body = Null \/ acc.body = Null THEN Absent ELSE [acc EXCEPT !.body = body]
    /\ UNCHANGED <<batch, now, looking, collected, unheard, trimmed>>

Tick ==
    /\ batch = <<>>
    /\ now < MaxTime
    /\ now' = now + 1
    /\ UNCHANGED <<held, hidden, acc, batch, mutations, looking, collected, unheard, trimmed>>

-----------------------------------------------------------------------------
(* The calls.  Each evaluation is a task of the page.                      *)
StepLook(c, from, to) ==
    /\ batch = <<>>
    /\ looking[c].pc = from
    /\ looking' = [looking EXCEPT ![c] = to]
    /\ UNCHANGED <<held, hidden, batch, now, mutations, trimmed>>

(* executeAction and the others note the time, then ensure the observer.   *)
StartAction(c) ==
    /\ StepLook(c, "idle", [pc |-> "ensure", since |-> now, inject |-> FALSE])
    /\ UNCHANGED <<acc, collected, unheard>>

(* An action that fails is answered in the same way.  A check that fails   *)
(* is taken for a page without an observer.                                *)
EnsureInjected(c) ==
    /\ \/ /\ StepLook(c, "ensure", [looking[c] EXCEPT !.pc = "inject",
                                                    !.inject = acc.body # "current"])
          /\ acc' = IF acc.body = "stale" THEN Absent ELSE acc
       \/ /\ StepLook(c, "ensure", [looking[c] EXCEPT !.pc = "inject", !.inject = TRUE])
          /\ UNCHANGED acc
    /\ UNCHANGED <<collected, unheard>>

(* The script leaves an observer that is there alone.                      *)
Install == acc' = IF acc.body = Null THEN Observing(Injected, {h \in Hosts : Connected(h)}) ELSE acc

(* inject only logs an error.                                              *)
Inject(c) ==
    /\ StepLook(c, "inject", [looking[c] EXCEPT !.pc = "act"])
    /\ (looking[c].inject /\ Install) \/ UNCHANGED acc
    /\ UNCHANGED <<collected, unheard>>

(* setupPageTracking and navigateTo inject without a call.                 *)
InjectIntoPage ==
    /\ batch = <<>>
    /\ Install
    /\ UNCHANGED <<held, hidden, batch, now, mutations, looking, collected, unheard, trimmed>>

Ids(log) == {log[i].id : i \in 1 .. Len(log)}
DuringAction(since) == {e \in ToSet(acc.log) : e.at >= since}
Unreported == SubSeq(acc.log, acc.lastReported + 1, Len(acc.log))

(* The page marks all as reported in the evaluation that reads them; the   *)
(* evaluation may not take place, or its answer not arrive (a navigation,  *)
(* a session that ends, the timeout of the protocol), and the catch then   *)
(* answers that there was nothing.                                         *)
Reports(ids) ==
    \/ /\ acc' = [acc EXCEPT !.lastReported = Len(acc.log)]
       /\ \/ collected' = collected \cup ids /\ UNCHANGED unheard
          \/ unheard' = unheard \cup ids /\ UNCHANGED collected
    \/ UNCHANGED <<acc, collected, unheard>>

GetObservations_Later(c) ==
    /\ StepLook(c, "act", [looking[c] EXCEPT !.pc = "capture"])
    /\ Reports({e.id : e \in {d \in DuringAction(looking[c].since) : d.at > looking[c].since}}
                    \cup {e.id : e \in {d \in ToSet(Unreported) : d.at < looking[c].since}})

GetObservations(c) ==
    /\ StepLook(c, "act", [looking[c] EXCEPT !.pc = "capture"])
    /\ Reports({e.id : e \in DuringAction(looking[c].since)}
                    \cup {e.id : e \in {d \in ToSet(Unreported) : d.at < looking[c].since}})

(* captureSnapshot and afterNonDomResolution have no action of their own.  *)
GetAccumulatedObservations(c) ==
    /\ StepLook(c, "idle", [NotLooking EXCEPT !.pc = "capture"])
    /\ Reports(Ids(Unreported))

(* The capture, which may fail: what was fetched is then told to nobody.   *)
EndLook(c) ==
    /\ StepLook(c, "capture", NotLooking)
    /\ UNCHANGED <<acc, collected, unheard>>

ObservationsNext ==
    \/ Callback
    \/ \E e \in Elements : AttachElement(e) \/ DetachElement(e) \/ Toggle(e) \/ ChangeText(e)
    \/ Navigate(Null)
    \/ Navigate("stale")
    \/ Tick
    \/ InjectIntoPage
    \/ \E c \in ObsCalls : \/ StartAction(c)
                        \/ EnsureInjected(c)
                        \/ Inject(c)
                        \/ GetObservations(c)
                        \/ GetAccumulatedObservations(c)
                        \/ EndLook(c)

-----------------------------------------------------------------------------
ObservationsTypeOK ==
    /\ held \subseteq Elements
    /\ hidden \subseteq Elements
    /\ acc.body \in {Null, "current", "stale"}
    /\ acc.processed \subseteq Elements
    /\ acc.shadow \subseteq Hosts /\ Cardinality(acc.shadow) <= MaxShadow
    /\ \A e \in ToSet(acc.log) : e.element \in Elements /\ e.at \in 0 .. MaxTime
    /\ Len(acc.log) <= MaxLog
    /\ acc.lastReported \in 0 .. MaxLog
    /\ \A c \in ObsCalls : looking[c].pc \in {"idle", "ensure", "inject", "act", "capture"}

(* An entry behind lastReportedIndex was given to some call, or was lost   *)
(* with the answer it was in.                                              *)
ReportedWasCollected ==
    \A i \in 1 .. Len(acc.log) :
        i <= acc.lastReported => acc.log[i].id \in collected \cup unheard

(* It is so as long as the log did not overflow, however calls overlap and *)
(* whatever the timestamps.                                                *)
CollectedBeforeOverflow == trimmed \/ ReportedWasCollected

=============================================================================
