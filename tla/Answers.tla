------------------------------ MODULE Answers ------------------------------
(***************************************************************************)
(* The answers of a page and what a client that reads them all knows: the  *)
(* choice of the elements, the diff between two snapshots, the regions     *)
(* left out because they are unchanged, and the trimming of long ones.     *)
(* src/src/state/state-manager.ts, actionables-filter.ts, diff-engine.ts,  *)
(* atoms-extractor.ts, element-identity.ts, region-mapping.ts and          *)
(* state-renderer.ts.                                                      *)
(***************************************************************************)
EXTENDS Layers, Functions

CONSTANTS
    Snapshots,      \* the snapshots there may be: [url, nodes]
    MaxActionables, \* maxActionables of the configuration
    TrimLimits,     \* region -> [head, tail]
    MaxSteps        \* bound: answers

(* An element is in a snapshot once.                                       *)
ASSUME SnapshotsAssumption ==
    \A s \in Snapshots :
        /\ s.nodes \in Seq(Range(s.nodes))
        /\ \A i, j \in DOMAIN s.nodes : s.nodes[i].id = s.nodes[j].id => i = j
        /\ \A n \in Range(s.nodes) : n.region \in DOMAIN TrimLimits \cup {"unknown"}

ASSUME LimitsAssumption ==
    /\ MaxActionables \in Nat
    /\ "main" \in DOMAIN TrimLimits
    /\ \A r \in DOMAIN TrimLimits : TrimLimits[r].head \in Nat /\ TrimLimits[r].tail \in Nat

VARIABLES
    step,           \* stepCounter
    current,        \* currentSnapshot of the manager, NoSnapshot before the first
    docPath,        \* currentDocId
    regions,        \* previousResponseRegions: region -> eids
    answer,         \* the last answer
    known,          \* client: eid -> the node and what was shown of it
    withheld        \* history: eids that changed in a diff, or stood in a
                    \* region called unchanged, and were not shown since,
                    \* and those that two elements have

answerVars == <<step, current, docPath, regions, answer, known, withheld>>

NoSnapshot == [url |-> [path |-> Null, query |-> 0], nodes |-> <<>>]
NoAnswer == [mode |-> Null, layer |-> "main", regions |-> <<>>, urgent |-> {}]

AnswersInit ==
    /\ step = 0
    /\ current = NoSnapshot
    /\ docPath = Null
    /\ regions = <<>>
    /\ answer = NoAnswer
    /\ known = <<>>
    /\ withheld = {}

-----------------------------------------------------------------------------
(* computeEid: the counter in a label does not count.  The registry gives  *)
(* equal elements their number, and takes the active layer for the layer   *)
(* of all; the diff takes the layer of the region, and no number.          *)
RoleOf(n) == IF n.role = Null THEN n.kind ELSE n.role

ComputeEid(n, layer) ==
    [role |-> RoleOf(n), name |-> n.name, region |-> n.region, layer |-> layer, number |-> 1]

OfRegion(n) == ComputeEid(n, IF n.region = "dialog" THEN "modal" ELSE "main")

RegistryEid(nodes, i, layer) ==
    LET base == ComputeEid(nodes[i], layer)
        before == {j \in 1 .. i - 1 : IsTracked(nodes[j]) /\ ComputeEid(nodes[j], layer) = base}
    IN  [base EXCEPT !.number = Cardinality(before) + 1]

EidOfNode(nodes, n, layer) ==
    RegistryEid(nodes, CHOOSE i \in DOMAIN nodes : nodes[i].id = n.id, layer)

-----------------------------------------------------------------------------
(* selectActionables.  Scores are in hundredths.                           *)
RoleWeight(kind) ==
    CASE kind \in {"button", "input"} -> 30
      [] kind \in {"link", "textarea", "select", "combobox"} -> 25
      [] kind \in {"checkbox", "radio", "switch", "tab", "menuitem"} -> 20
      [] kind = "slider" -> 15
      [] OTHER -> 10

Points(condition, n) == IF condition THEN n ELSE 0

ScoreActionable(n) ==
    LET score == 50 + RoleWeight(n.kind) + Points(n.enabled, 20) + Points(n.region = "main", 15)
                    + Points(n.region = "dialog", 20) + Points(n.aboveFold, 10)
                    + Points(n.name # "", 15) + Points(n.focused, 20)
    IN  IF score > 100 THEN 100 ELSE score

IsCandidate(n, active) ==
    /\ IsTracked(n)
    /\ n.visible
    /\ n.implicit /\ ~IsInteractive(n) => n.name # ""
    /\ InLayer(n, active)

FirstOf(q, n) == SubSeq(q, 1, IF n < Len(q) THEN n ELSE Len(q))

SelectActionables(nodes, active) ==
    FirstOf(SortedBy(Chosen(nodes, {n \in Range(nodes) : IsCandidate(n, active)}),
                     LAMBDA m, n : ScoreActionable(m) > ScoreActionable(n)),
            MaxActionables)

(* selectActionablesWithFocusGuarantee: the focused element, up to two     *)
(* that close the modal, then as many of the others as there is room for.  *)
IsShownInput(n, active) == IsInteractive(n) /\ n.visible /\ InLayer(n, active)

Focused(nodes, active) ==
    FirstOf(Chosen(nodes, {n \in Range(nodes) : n.focused /\ IsShownInput(n, active)}), 1)

CloseAffordances(nodes, active) ==
    IF active # "modal" THEN <<>>
    ELSE FirstOf(Chosen(nodes, {n \in Range(nodes) : n.closes /\ IsShownInput(n, active)}), 2)

Without(q, r) == Chosen(q, Range(q) \ Range(r))

Urgent(nodes, active) ==
    LET focused == Focused(nodes, active)
    IN  focused \o Without(CloseAffordances(nodes, active), focused)

Selected(nodes, active) ==
    LET urgent == Urgent(nodes, active)
        others == Without(SelectActionables(nodes, active), urgent)
        room == MaxActionables - Len(urgent)
    IN  urgent \o FirstOf(others, IF room > 0 THEN room ELSE 0)

(* formatActionables, as far as an element is shown of it.                 *)
Shown(n) ==
    [label |-> <<n.name, n.counter>>, enabled |-> n.enabled, checked |-> n.checked,
     focused |-> n.focused, value |-> n.value]

FormatActionables(nodes, active) ==
    LET chosen == Selected(nodes, active)
    IN  [i \in DOMAIN chosen |->
            [eid |-> EidOfNode(nodes, chosen[i], active), id |-> chosen[i].id,
             region |-> IF chosen[i].region = "unknown" THEN "main" ELSE chosen[i].region,
             shown |-> Shown(chosen[i])]]

-----------------------------------------------------------------------------
(* computeDiff.  The last of the nodes with one eid stands for all.        *)
IsDiffed(n) == (IsInteractive(n) \/ IsLiveRegion(n)) /\ n.visible

EidMap(nodes) ==
    LET diffed == {i \in DOMAIN nodes : IsDiffed(nodes[i])}
        Of(e) == {i \in diffed : OfRegion(nodes[i]) = e}
    IN  [e \in {OfRegion(nodes[i]) : i \in diffed} |->
            nodes[CHOOSE i \in Of(e) : \A j \in Of(e) : j <= i]]

FindAdded(prev, curr) == DOMAIN EidMap(curr) \ DOMAIN EidMap(prev)
FindRemoved(prev, curr) == DOMAIN EidMap(prev) \ DOMAIN EidMap(curr)

Compared_NoLabel == {"visible", "enabled", "checked", "focused", "value"}

Compared == {"visible", "enabled", "checked", "focused", "value", "name", "counter"}

CompareNodes(m, n) == {f \in Compared : m[f] # n[f]}

FindChanged(prev, curr) ==
    {e \in DOMAIN EidMap(prev) \cap DOMAIN EidMap(curr) :
        CompareNodes(EidMap(prev)[e], EidMap(curr)[e]) # {}}

Types(stack) == [i \in DOMAIN stack |-> stack[i].type]

DetectLayerChange(prev, curr) == Types(DetectLayers(prev)) # Types(DetectLayers(curr))

DetermineNavType(prev, curr) == IF prev.path = curr.path THEN "soft" ELSE "hard"

DetectDocumentChange(prev, curr) ==
    IF prev.url = curr.url THEN Null ELSE DetermineNavType(prev.url, curr.url)

(* The nodes with a status role, by backend id.                            *)
Trackable(nodes) ==
    {n \in Range(nodes) : n.role \in {"status", "alert", "log", "progressbar"} /\ n.visible}

ComputeMutations(prev, curr) ==
    [textChanged |-> {n.id : n \in {n \in Trackable(curr) : \E m \in Trackable(prev) :
                                        m.id = n.id /\ Shown(m).label # Shown(n).label}},
     statusAppeared |-> {n.id : n \in {n \in Trackable(curr) :
                                           ~\E m \in Trackable(prev) : m.id = n.id}}]

ComputeDiff(prev, curr) ==
    [mode |-> "diff",
     doc |-> DetectDocumentChange(prev, curr),
     layer |-> DetectLayerChange(prev.nodes, curr.nodes),
     added |-> FindAdded(prev.nodes, curr.nodes),
     removed |-> FindRemoved(prev.nodes, curr.nodes),
     changed |-> FindChanged(prev.nodes, curr.nodes),
     mutations |-> ComputeMutations(prev.nodes, curr.nodes)]

-----------------------------------------------------------------------------
(* renderStateXml: elements, by region, and which are left out.            *)
FilterActionablesForMode(items, diff, active) ==
    IF diff.mode = "baseline" \/ active \in {"modal", "popover", "drawer"} THEN items
    ELSE Chosen(items, {it \in Range(items) : it.eid \in diff.added \cup diff.changed})

ItemsOf(items, r) == Chosen(items, {it \in Range(items) : it.region = r})

EidsByRegion(items) ==
    [r \in {items[i].region : i \in DOMAIN items} |->
        [i \in DOMAIN ItemsOf(items, r) |-> ItemsOf(items, r)[i].eid]]

TrimRegionElements(items, limits) ==
    IF Len(items) <= limits.head + limits.tail THEN items
    ELSE SubSeq(items, 1, limits.head)
             \o SubSeq(items, Len(items) - limits.tail + 1, Len(items))

IsUnchanged(diff, r, items) ==
    /\ diff.mode = "baseline"
    /\ r \in DOMAIN regions
    /\ regions[r] = EidsByRegion(items)[r]

RenderRegion(diff, r, items, trim) ==
    LET those == ItemsOf(items, r)
    IN  IF IsUnchanged(diff, r, items) THEN [unchanged |-> TRUE, kept |-> <<>>, of |-> those]
        ELSE [unchanged |-> FALSE, of |-> those,
              kept |-> IF trim THEN TrimRegionElements(those, TrimLimits[r]) ELSE those]

Render(diff, items, active, trim) ==
    LET filtered == FilterActionablesForMode(items, diff, active)
    IN  [r \in {filtered[i].region : i \in DOMAIN filtered} |->
            RenderRegion(diff, r, filtered, trim)]

KeptOf(rendered) == UNION {Range(rendered[r].kept) : r \in DOMAIN rendered}
LeftOut(rendered) ==
    UNION {Range(rendered[r].of) : r \in {r \in DOMAIN rendered : rendered[r].unchanged}}

-----------------------------------------------------------------------------
(* A client that reads the answers: a baseline is all there is, but for    *)
(* what is unchanged; a diff adds to what it knows.                        *)
Learnt(rendered, mode) ==
    LET kept == KeptOf(rendered)
        eids == {it.eid : it \in kept}
        stays == IF mode = "baseline"
                 THEN DOMAIN known \cap {it.eid : it \in LeftOut(rendered)}
                 ELSE DOMAIN known \ eids
    IN  [e \in eids \cup stays |->
            IF e \in eids
            THEN LET it == CHOOSE it \in kept : it.eid = e
                 IN  [id |-> it.id, shown |-> it.shown]
            ELSE known[e]]

Colliding(nodes) ==
    {OfRegion(m) : m \in {m \in Range(nodes) : \E n \in Range(nodes) :
                              m.id # n.id /\ OfRegion(m) = OfRegion(n)}}

(* generateResponse with a snapshot in good health: doGenerateResponse.    *)
GenerateResponse(s, trim) ==
    LET active == ActiveLayer(s.nodes)
        items == FormatActionables(s.nodes, active)
        diff == IF current = NoSnapshot \/ s.url.path # docPath THEN [mode |-> "baseline"]
                ELSE ComputeDiff(current, s)
        rendered == Render(diff, items, active, trim)
        changed == IF diff.mode = "diff" THEN diff.added \cup diff.changed \cup diff.removed ELSE {}
    IN  /\ current' = s
        /\ docPath' = s.url.path
        /\ regions' = EidsByRegion(items)
        /\ answer' = [mode |-> diff.mode, layer |-> active, regions |-> rendered,
                      urgent |-> {n.id : n \in Range(Urgent(s.nodes, active))}]
        /\ known' = Learnt(rendered, diff.mode)
        /\ withheld' = ((withheld \cup changed \cup {it.eid : it \in LeftOut(rendered)})
                            \ {it.eid : it \in KeptOf(rendered)}) \cup Colliding(s.nodes)

(* An empty snapshot: createErrorBaseline.  previousSnapshot, which is not *)
(* a variable here, becomes the current one again at the next answer.      *)
AnswerError ==
    /\ answer' = [NoAnswer EXCEPT !.mode = "error"]
    /\ UNCHANGED <<current, docPath, regions, known, withheld>>

(* doGenerateResponse throws: a url that is none in computeDocId, or, with *)
(* the document set, any call up to that which makes the snapshot current. *)
AnswerThrown(s) ==
    /\ answer' = [NoAnswer EXCEPT !.mode = "error"]
    /\ docPath' \in {docPath, s.url.path}
    /\ regions' = <<>>
    /\ UNCHANGED <<current, known, withheld>>

AnswersNext ==
    /\ step < MaxSteps
    /\ step' = step + 1
    /\ \/ \E s \in Snapshots, trim \in BOOLEAN : GenerateResponse(s, trim)
       \/ AnswerError
       \/ \E s \in Snapshots : AnswerThrown(s)

-----------------------------------------------------------------------------
AnswersTypeOK ==
    /\ current \in Snapshots \cup {NoSnapshot}
    /\ \A r \in DOMAIN answer.regions : r \in DOMAIN TrimLimits
    /\ answer.layer \in {"main", "modal", "popover", "drawer"}

(* What a client knows from any sequence of baselines, diffs and errors is *)
(* what the page shows, under any layer: every element it was shown has    *)
(* the label and state it was shown with, but for those whose changes were *)
(* withheld: they changed under an overlay or were cut off, share their    *)
(* eid with another, or stand in a region called unchanged.                *)
DiffsAddUp ==
    \A n \in Range(current.nodes) :
        LET e == OfRegion(n)
        IN  IsDiffed(n) /\ e \in DOMAIN known \ withheld => known[e].shown = Shown(n)

(* In a full answer the focused element and the buttons that close the     *)
(* active modal are there, whatever the cap and the trimming leave out.    *)
UrgentIsShown ==
    answer.mode = "baseline" \/ answer.layer # "main" =>
        answer.urgent \subseteq {it.id : it \in KeptOf(answer.regions) \cup LeftOut(answer.regions)}

(* "unchanged: Region didn't change": the client was shown its elements.   *)
UnchangedWasShown ==
    \A it \in LeftOut(answer.regions) : it.eid \in DOMAIN known

(* "Active layer (topmost non-toast)".                                     *)
ActiveIsTopmost ==
    LET stack == DetectLayers(current.nodes)
    IN  \A i \in DOMAIN stack : stack[i].type # "toast" => ActiveEntry(stack).z >= stack[i].z

=============================================================================
