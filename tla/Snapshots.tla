----------------------------- MODULE Snapshots -----------------------------
(***************************************************************************)
(* How a snapshot is compiled: the DOM, the accessibility tree, the frames *)
(* and the layout are read one after the other from a page that goes on    *)
(* changing, each may fail, and what was read is put together.             *)
(* src/src/snapshot/snapshot-compiler.ts, frame-context.ts,                *)
(* heading-index.ts, node-synthesizer.ts, node-filter.ts, kind-mapping.ts  *)
(* and extractors/*.ts.                                                    *)
(*                                                                         *)
(* A page is [frames, root, nodes]; frames gives a frame its loader, nodes *)
(* an id its element.  Left out are boxes, attributes, locators and titles.*)
(***************************************************************************)
EXTENDS Layers, Functions, FiniteSets, TLC

CONSTANTS
    Trees,              \* the pages there may be
    MaxNodes,           \* max_nodes
    MaxCaseB,           \* MAX_CASE_B_CANDIDATES
    MaxAncestors,       \* MAX_ANCESTOR_DEPTH
    MaxCompiles         \* bound: snapshots and changes of the page

VARIABLES
    page,               \* the running page
    compiles,           \* snapshots and changes so far
    phase,              \* what compile waits for
    dom,                \* domResult.nodes, without elements when it failed
    ax,                 \* axResult.nodes
    axFailed,
    loaders,            \* frameLoaderIds
    listed,             \* nodesToProcess
    unchecked,          \* candidates whose interactivity is not yet looked at
    listenerCache,      \* ancestorListenerCache
    signals,            \* interactivityMap
    snapshot            \* the nodes of the last snapshot

snapshotVars == <<page, compiles, phase, dom, ax, axFailed, loaders, listed, unchecked,
                  listenerCache, signals, snapshot>>

SnapshotsInit ==
    /\ page \in Trees
    /\ compiles = 0
    /\ phase = "idle"
    /\ dom = <<>>
    /\ ax = <<>>
    /\ axFailed = FALSE
    /\ loaders = <<>>
    /\ listed = <<>>
    /\ unchecked = <<>>
    /\ listenerCache = <<>>
    /\ signals = <<>>
    /\ snapshot = <<>>

-----------------------------------------------------------------------------
(* Roles and kinds; a role that is none of these is "unknown".             *)
INTERACTIVE_AX_ROLES == {"button", "link", "textbox", "combobox", "option", "checkbox", "radio"}
READABLE_AX_ROLES == {"heading", "paragraph", "text", "list", "listitem"}
STRUCTURAL_AX_ROLES == {"main", "navigation", "region", "form", "search", "dialog", "alertdialog"}
LIVE_REGION_AX_ROLES == {"alert", "status", "log"}

ClassifyAxRole(role) ==
    CASE role \in INTERACTIVE_AX_ROLES -> "interactive"
      [] role \in READABLE_AX_ROLES -> "readable"
      [] role \in STRUCTURAL_AX_ROLES -> "structural"
      [] role \in LIVE_REGION_AX_ROLES -> "live"
      [] OTHER -> "unknown"

MapRoleToKind(role) ==
    CASE role = "textbox" -> "input"
      [] role = "option" -> "menuitem"
      [] role = "alertdialog" -> "dialog"
      [] role \in {"region", "main"} -> "section"
      [] role \in (INTERACTIVE_AX_ROLES \ {"textbox", "option"}) \cup READABLE_AX_ROLES
                      \cup LIVE_REGION_AX_ROLES \cup {"navigation", "form", "dialog", "canvas"} -> role
      [] OTHER -> "generic"

GetKindFromTag(tag) ==
    CASE tag = "A" -> "link"
      [] tag = "INPUT" -> "input"
      [] tag = "BUTTON" -> "button"
      [] tag = "SELECT" -> "select"
      [] tag = "FORM" -> "form"
      [] tag = "DIALOG" -> "dialog"
      [] tag = "CANVAS" -> "canvas"
      [] OTHER -> "generic"

-----------------------------------------------------------------------------
(* The tree as it was read.  Children come before shadow roots, and these  *)
(* before the documents of frames.                                         *)
LightAndShadow(nodes, id) == nodes[id].kids \o nodes[id].shadow
Below(nodes, id) == LightAndShadow(nodes, id) \o nodes[id].docs

HasParent(nodes, id) == \E p \in DOMAIN nodes : id \in Range(Below(nodes, p))
ParentIn(nodes, id) == CHOOSE p \in DOMAIN nodes : id \in Range(Below(nodes, p))

Ancestors(nodes, id) ==
    LET up[n \in DOMAIN nodes] ==
            IF HasParent(nodes, n) THEN <<ParentIn(nodes, n)>> \o up[ParentIn(nodes, n)] ELSE <<>>
    IN  IF id \in DOMAIN nodes THEN up[id] ELSE <<>>

Preorder(nodes, id) ==
    LET tree[n \in DOMAIN nodes] ==
            <<n>> \o FlattenSeq([i \in DOMAIN Below(nodes, n) |-> tree[Below(nodes, n)[i]]])
    IN  tree[id]

RootOf(nodes) == CHOOSE id \in DOMAIN nodes : ~HasParent(nodes, id)
DomOrder(nodes) == IF nodes = <<>> THEN <<>> ELSE Preorder(nodes, RootOf(nodes))

(* Elements missing in the order keep theirs, after the others.            *)
InDomOrder(nodes, q) ==
    LET order == DomOrder(nodes)
    IN  FlattenSeq([i \in DOMAIN order |-> SelectSeq(q, LAMBDA d : d.id = order[i])])
            \o SelectSeq(q, LAMBDA d : d.id \notin Range(order))

-----------------------------------------------------------------------------
(* buildHeadingIndex.                                                      *)
AxRole(id) == IF id \in DOMAIN ax THEN ax[id].role ELSE Null
AxName(id) == IF id \in DOMAIN ax THEN ax[id].name ELSE ""

(* The empty name that the accessibility tree may have for a heading is    *)
(* kept (??=); the text is for headings that are not in the tree.          *)
HeadingName(id) ==
    IF AxRole(id) # "heading" /\ dom[id].tag # "H1" THEN ""
    ELSE IF id \in DOMAIN ax THEN ax[id].name ELSE dom[id].text

(* A node with the heading that is the last when it is entered: the last   *)
(* when it is left, and the headings of the nodes below.                   *)
HeadingOf(id, before) == IF HeadingName(id) # "" THEN HeadingName(id) ELSE before

Entered(id, heading) == [last |-> heading, index |-> IF heading = "" THEN <<>> ELSE id :> heading]
Left(sofar, below) == [last |-> below.last, index |-> below.index @@ sofar.index]

TraverseHeadings_Leaks(id, before) ==
    LET walk[n \in DOMAIN dom, heading \in STRING] ==
            FoldLeft(LAMBDA sofar, child : Left(sofar, walk[child, sofar.last]),
                     Entered(n, HeadingOf(n, heading)), Below(dom, n))
    IN  walk[id, before]

TraverseHeadings(id, before) ==
    LET walk[n \in DOMAIN dom, heading \in STRING] ==
            LET light == FoldLeft(LAMBDA sofar, child : Left(sofar, walk[child, sofar.last]),
                                  Entered(n, HeadingOf(n, heading)), LightAndShadow(dom, n))
            IN  [light EXCEPT !.index = FoldLeft(LAMBDA index, doc : walk[doc, ""].index @@ index,
                                                 @, dom[n].docs)]
    IN  walk[id, before]

HeadingIndex == IF dom = <<>> THEN <<>> ELSE TraverseHeadings(RootOf(dom), "").index

(* findHeadingContext, which names a group: the nearest heading among the  *)
(* siblings before it, else the last that is listed before it.             *)
IsHeading(d) == d.role = "heading" \/ (d.id \in DOMAIN dom /\ dom[d.id].tag = "H1")

FindHeadingContext(id) ==
    LET siblings == IF HasParent(dom, id) THEN dom[ParentIn(dom, id)].kids ELSE <<>>
        earlier == FlattenSeq([i \in DOMAIN siblings |-> SelectSeq(listed, LAMBDA d :
                       /\ d.id = siblings[i] /\ IsHeading(d)
                       /\ \E j \in DOMAIN siblings : i < j /\ siblings[j] = id)])
        before == {i \in DOMAIN listed : \E j \in DOMAIN listed :
                      i < j /\ listed[j].id = id /\ IsHeading(listed[i]) /\ listed[i].name # ""}
    IN  IF id \notin Range(siblings) THEN ""
        ELSE IF earlier # <<>> THEN Last(earlier).name
        ELSE IF before = {} THEN "" ELSE listed[CHOOSE i \in before : \A j \in before : j <= i].name

-----------------------------------------------------------------------------
(* resolveRegion and resolveGrouping.                                      *)
RegionOfRole(role) ==
    CASE role = "navigation" -> "nav"
      [] role \in {"dialog", "alertdialog"} -> "dialog"
      [] role \in {"main", "search", "form"} -> role
      [] role \in LIVE_REGION_AX_ROLES -> "alert"
      [] OTHER -> "unknown"

RegionOfTag(tag) ==
    CASE tag = "NAV" -> "nav"
      [] tag = "MAIN" -> "main"
      [] tag = "DIALOG" -> "dialog"
      [] tag = "FORM" -> "form"
      [] OTHER -> "unknown"

FirstKnown(q) ==
    LET known == SelectSeq(q, LAMBDA r : r # "unknown")
    IN  IF known = <<>> THEN "unknown" ELSE known[1]

ResolveRegion(d) ==
    LET Of(id) == FirstKnown(<<RegionOfRole(AxRole(id)), RegionOfTag(dom[id].tag),
                               RegionOfRole(dom[id].domRole)>>)
        above == Ancestors(dom, d.id)
    IN  FirstKnown(<<RegionOfRole(d.role)>>
                   \o (IF d.id \in DOMAIN dom
                       THEN <<RegionOfRole(dom[d.id].domRole), RegionOfTag(dom[d.id].tag)>>
                       ELSE <<>>)
                   \o [i \in DOMAIN above |-> Of(above[i])])

IsGroupingContainer(id) ==
    \/ {AxRole(id), dom[id].domRole} \cap {"form", "navigation", "list", "listbox", "group"} # {}
    \/ dom[id].tag \in {"FORM", "NAV", "UL", "SECTION"}

GroupRole(id) == IF AxRole(id) # Null THEN AxRole(id) ELSE dom[id].tag

ResolveGrouping(id) ==
    LET groups == SelectSeq(Ancestors(dom, id), IsGroupingContainer)
        name == AxName(groups[1])
        heading == FindHeadingContext(groups[1])
    IN  IF groups = <<>> THEN Null
        ELSE <<GroupRole(groups[1]),
               IF name # "" THEN name ELSE IF heading # "" THEN heading ELSE groups[1]>>

-----------------------------------------------------------------------------
(* The reads, in their order.  Between any two the page may change.        *)
MayFail(new, failed) == {new, failed}

BeginCompile ==
    /\ phase = "idle"
    /\ compiles < MaxCompiles
    /\ compiles' = compiles + 1
    /\ phase' = "dom"
    /\ snapshot' = <<>>
    /\ UNCHANGED <<page, dom, ax, axFailed, loaders, listed, unchecked, listenerCache, signals>>

ExtractDom ==
    /\ phase = "dom"
    /\ phase' = "ax"
    /\ dom' \in MayFail(page.nodes, <<>>)
    /\ UNCHANGED <<page, compiles, ax, axFailed, loaders, listed, unchecked, listenerCache,
                   signals, snapshot>>

(* The tree of each frame is asked for by its own call; ignored nodes are  *)
(* not in the tree.                                                        *)
Inside(nodes, id) ==
    LET up == <<id>> \o Ancestors(nodes, id)
        docs == UNION {Range(nodes[p].docs) : p \in DOMAIN nodes}
        hosts == SelectSeq(up, LAMBDA p : p \in docs)
    IN  IF hosts = <<>> THEN RootOf(nodes) ELSE hosts[1]

ExtractAx ==
    LET frames == UNION {Range(dom[id].docs) : id \in DOMAIN dom}
    IN  /\ phase = "ax"
        /\ phase' = "frames"
        /\ \/ \E answered \in SUBSET frames :
                 /\ ax' = [id \in {id \in DOMAIN page.nodes :
                                      /\ page.nodes[id].role # Null
                                      /\ Inside(page.nodes, id) \in answered \cup {page.root}}
                              |-> [role |-> page.nodes[id].role, name |-> page.nodes[id].name,
                                   disabled |-> page.nodes[id].disabled]]
                 /\ axFailed' = FALSE
           \/ ax' = <<>> /\ axFailed' = TRUE
        /\ UNCHANGED <<page, compiles, dom, loaders, listed, unchecked, listenerCache, signals,
                       snapshot>>

-----------------------------------------------------------------------------
(* What is listed when the frame tree is there: nodes of the accessibility *)
(* tree, or tags of the DOM, with options, canvases and toasts added.      *)
Ascending(ids) ==
    [i \in 1 .. Cardinality(ids) |->
        CHOOSE id \in ids : Cardinality({m \in ids : m < id}) = i - 1]

Data(id, role, name) == [id |-> id, role |-> role, name |-> name, z |-> 0]

IsListedRole(role) ==
    \/ ClassifyAxRole(role) \in {"interactive", "readable", "live"}
    \/ role \in {"form", "dialog", "alertdialog"}

FromAx == LET ids == Ascending({id \in DOMAIN ax : IsListedRole(ax[id].role)})
          IN  [i \in DOMAIN ids |-> Data(ids[i], ax[ids[i]].role, ax[ids[i]].name)]

FromDom == LET ids == Ascending({id \in DOMAIN dom : dom[id].tag \in
                                   {"BUTTON", "A", "INPUT", "SELECT", "FORM", "DIALOG", "CANVAS"}})
           IN  [i \in DOMAIN ids |-> Data(ids[i], Null, "")]

IdsIn(q) == {q[i].id : i \in DOMAIN q}

Adding(q, ids, role, Name(_)) ==
    LET new == Ascending(ids \ IdsIn(q))
    IN  q \o [i \in DOMAIN new |-> Data(new[i], role, Name(new[i]))]

SynthesizeOptionNodes(q) ==
    LET selects == {id \in IdsIn(q) \cap DOMAIN dom : dom[id].tag = "SELECT"}
    IN  Adding(q, {id \in UNION {Range(dom[s].kids) : s \in selects} : dom[id].tag = "OPTION"},
               "option", LAMBDA id : dom[id].text)

SynthesizeCanvasNodes(q) ==
    Adding(q, {id \in DOMAIN dom : dom[id].tag = "CANVAS"}, "canvas", LAMBDA id : "")

Toasts == {id \in DOMAIN dom : dom[id].toast}

PromoteToastNodes(q) ==
    Adding([i \in DOMAIN q |-> IF q[i].id \in Toasts THEN Data(q[i].id, "alert", "") ELSE q[i]],
           Toasts, "alert", LAMBDA id : "")

(* Candidates: what is listed and not interactive, then nodes of unknown   *)
(* role that are not listed.                                               *)
NonInteractive(q) == SelectSeq(q, LAMBDA d : MapRoleToKind(d.role) \notin INTERACTIVE_KINDS)

CaseB(q) ==
    LET ids == Ascending({id \in DOMAIN ax : id \notin IdsIn(q)
                                           /\ ClassifyAxRole(ax[id].role) = "unknown"})
    IN  SubSeq(ids, 1, IF Len(ids) < MaxCaseB THEN Len(ids) ELSE MaxCaseB)

(* The singletons name what each step of the code hands to the next.       *)
GetFrameTree ==
    /\ phase = "frames"
    /\ \E extracted \in {IF axFailed THEN FromDom ELSE FromAx} :
       \E withOptions \in {SynthesizeOptionNodes(extracted)} :
       \E synthesized \in {SynthesizeCanvasNodes(withOptions)} :
       \E promoted \in {PromoteToastNodes(synthesized)} :
       \E q \in {InDomOrder(dom, promoted)} :
           LET those == NonInteractive(q) IN
               /\ phase' = "push"
               /\ loaders' \in MayFail(page.frames, <<>>)
               /\ listed' = q
               /\ unchecked' = IF dom = <<>> THEN <<>>
                               ELSE [i \in DOMAIN those |-> those[i].id] \o CaseB(q)
               /\ listenerCache' = <<>>
               /\ signals' = <<>>
               /\ UNCHANGED <<page, compiles, dom, ax, axFailed, snapshot>>

-----------------------------------------------------------------------------
(* detectInteractivity, one candidate at a time.                           *)
Listens(id) == id \in DOMAIN page.nodes /\ page.nodes[id].listens

(* checkAncestorListeners: up to the first that is cached or listens.      *)
CheckAncestorListeners(id) ==
    LET up == Ancestors(dom, id)
        near == SubSeq(up, 1, IF Len(up) < MaxAncestors THEN Len(up) ELSE MaxAncestors)
        stops == {i \in DOMAIN near : near[i] \in DOMAIN listenerCache \/ Listens(near[i])}
        stop == IF stops = {} THEN 0 ELSE CHOOSE i \in stops : \A j \in stops : i <= j
        read == IF stop = 0 THEN Range(near)
                ELSE {near[i] : i \in 1 .. stop} \ DOMAIN listenerCache
    IN  [listens |-> /\ stop # 0
                     /\ IF near[stop] \in DOMAIN listenerCache THEN listenerCache[near[stop]]
                        ELSE TRUE,
         cache |-> [a \in read |-> Listens(a)] @@ listenerCache]

(* The free sign of a candidate; the others are for the elements that are  *)
(* still in the page when the candidates are resolved, and only the free   *)
(* sign counts when they cannot be.                                        *)
Tabindex(id) == IF dom[id].tabindex THEN {"tabindex"} ELSE {}

PushNodes ==
    /\ phase = "push"
    /\ phase' = "signals"
    /\ \/ /\ unchecked' = SelectSeq(unchecked, LAMBDA id : id \in DOMAIN page.nodes)
          /\ UNCHANGED signals
       \/ /\ unchecked # <<>>
          /\ unchecked' = <<>>
          /\ signals' = [id \in {id \in Range(unchecked) \cap DOMAIN dom : Tabindex(id) # {}}
                            |-> Tabindex(id)]
    /\ UNCHANGED <<page, compiles, dom, ax, axFailed, loaders, listed, listenerCache, snapshot>>

(* A positive sign that is free or cheap ends the search for listeners.    *)
CheckCandidate ==
    LET id == Head(unchecked)
        tab == IF id \in DOMAIN dom THEN Tabindex(id) ELSE {}
        pointer == id \in DOMAIN page.nodes /\ page.nodes[id].pointer
        cheap == tab \cup (IF pointer THEN {"pointer"} ELSE {})
        walk == CheckAncestorListeners(id)
        found == CASE cheap # {} -> cheap
                    [] cheap = {} /\ Listens(id) -> {"self"}
                    [] OTHER -> IF walk.listens THEN {"ancestor"} ELSE {}
    IN  /\ phase = "signals"
        /\ unchecked # <<>>
        /\ unchecked' = Tail(unchecked)
        /\ signals' = IF found = {} THEN signals ELSE (id :> found) @@ signals
        /\ listenerCache' = IF cheap = {} /\ ~Listens(id) THEN walk.cache ELSE listenerCache
        /\ UNCHANGED <<page, compiles, phase, dom, ax, axFailed, loaders, listed, snapshot>>

(* sliceWithOverlayPriority: overlays, up to three tenths, before others.  *)
SliceWithOverlayPriority(q) ==
    LET overlays == SelectSeq(q, LAMBDA d : d.z > 100)
        share == (3 * MaxNodes) \div 10
        taken == SubSeq(overlays, 1, IF Len(overlays) < share THEN Len(overlays) ELSE share)
        main == SelectSeq(q, LAMBDA d : d.z <= 100)
        room == MaxNodes - Len(taken)
        kept == IdsIn(taken) \cup IdsIn(SubSeq(main, 1, IF Len(main) < room THEN Len(main) ELSE room))
    IN  IF Len(q) <= MaxNodes THEN q ELSE SelectSeq(q, LAMBDA d : d.id \in kept)

WithCaseB_Unsorted(q) ==
    LET new == SelectSeq(CaseB(q), LAMBDA id : id \in DOMAIN signals)
    IN  q \o [i \in DOMAIN new |-> Data(new[i], ax[new[i]].role, ax[new[i]].name)]

WithCaseB(q) ==
    LET new == SelectSeq(CaseB(q), LAMBDA id : id \in DOMAIN signals)
    IN  IF new = <<>> THEN q
        ELSE InDomOrder(dom, WithCaseB_Unsorted(q))

FinishSignals ==
    /\ phase = "signals"
    /\ unchecked = <<>>
    /\ \E q \in {WithCaseB(listed)} :
           /\ phase' = "layout"
           /\ listed' = SliceWithOverlayPriority(q)
           /\ UNCHANGED <<page, compiles, dom, ax, axFailed, loaders, unchecked, listenerCache,
                          signals, snapshot>>

-----------------------------------------------------------------------------
(* transformNode and what comes after it.                                  *)
FrameOf(id) ==
    IF id \in DOMAIN dom /\ dom[id].frame # Null THEN dom[id].frame
    ELSE IF loaders = <<>> THEN "unknown" ELSE "main"

(* A widget with listeners of its own or a pointer is not disabled.        *)
ExtractEnabled(d) ==
    LET sign == IF d.id \in DOMAIN signals THEN signals[d.id] ELSE {}
        disabled == IF d.id \in DOMAIN ax /\ d.role = ax[d.id].role THEN ax[d.id].disabled
                    ELSE d.id \in DOMAIN dom /\ dom[d.id].disabled
    IN  ~disabled \/ sign \cap {"self", "pointer"} # {}

LabelOf(d) ==
    IF d.name = "" /\ d.role \in LIVE_REGION_AX_ROLES /\ d.id \in DOMAIN dom
    THEN dom[d.id].text ELSE d.name

TransformNode(d, layout, index) ==
    LET there == layout /\ d.id \in DOMAIN page.nodes
        frame == FrameOf(d.id)
    IN  [id |-> d.id, name |-> LabelOf(d), region |-> ResolveRegion(d),
         kind |-> IF d.role # Null THEN MapRoleToKind(d.role)
                  ELSE IF d.id \in DOMAIN dom THEN GetKindFromTag(dom[d.id].tag) ELSE "generic",
         group |-> ResolveGrouping(d.id),
         heading |-> IF dom = <<>> THEN FindHeadingContext(d.id)
                     ELSE IF d.id \in DOMAIN index THEN index[d.id] ELSE "",
         frame |-> frame,
         loader |-> IF frame \in DOMAIN loaders THEN loaders[frame] ELSE "",
         z |-> IF there THEN page.nodes[d.id].z ELSE 0,
         visible |-> there => page.nodes[d.id].visible \/ page.nodes[d.id].tag = "OPTION",
         enabled |-> ExtractEnabled(d), implicit |-> d.id \in DOMAIN signals]

(* filterNoiseNodes: empty lists without anything interactive in them, and *)
(* texts that repeat their parent.                                         *)
LightDescendants(id) ==
    LET below[n \in DOMAIN dom] == UNION {{k} \cup below[k] : k \in Range(dom[n].kids)}
    IN  below[id]

IsNoise(n, nodes) ==
    \/ /\ n.kind \in {"list", "listitem"}
       /\ n.name = ""
       /\ n.id \in DOMAIN dom =>
             ~\E m \in Range(nodes) : m.kind \in INTERACTIVE_KINDS /\ m.id \in LightDescendants(n.id)
    \/ /\ n.kind = "text"
       /\ n.id \in DOMAIN dom /\ HasParent(dom, n.id)
       /\ LET parent == ParentIn(dom, n.id)
              label == IF \E m \in Range(nodes) : m.id = parent
                       THEN (CHOOSE m \in Range(nodes) : m.id = parent).name
                       ELSE AxName(parent)
          IN  n.name # "" /\ label = n.name

ExtractLayout ==
    /\ phase = "layout"
    /\ \E layout \in BOOLEAN :
       \E index \in {HeadingIndex} :
       \E all \in {[i \in DOMAIN listed |-> TransformNode(listed[i], layout, index)]} :
       \E visible \in {SelectSeq(all, LAMBDA n : n.visible)} :
           /\ phase' = "idle"
           /\ snapshot' = SelectSeq(visible, LAMBDA n : ~IsNoise(n, visible))
           /\ UNCHANGED <<page, compiles, dom, ax, axFailed, loaders, listed, unchecked,
                          listenerCache, signals>>

(* The page changes, or is left for another.                               *)
PageChanges ==
    \E t \in Trees \ {page} :
        /\ compiles < MaxCompiles
        /\ compiles' = compiles + 1
        /\ page' = t
        /\ UNCHANGED <<phase, dom, ax, axFailed, loaders, listed, unchecked, listenerCache,
                       signals, snapshot>>

SnapshotsNext ==
    \/ BeginCompile
    \/ ExtractDom
    \/ ExtractAx
    \/ GetFrameTree
    \/ PushNodes
    \/ CheckCandidate
    \/ FinishSignals
    \/ ExtractLayout
    \/ PageChanges

-----------------------------------------------------------------------------
(* Each element is in a snapshot once, and those of the DOM are in its     *)
(* order: five places add nodes to the list.                               *)
OneNodeEachInOrder ==
    \A i, j \in DOMAIN snapshot :
        i < j => /\ snapshot[i].id # snapshot[j].id
                 /\ LET order == DomOrder(dom)
                        Place(id) == CHOOSE k \in DOMAIN order : order[k] = id
                    IN  {snapshot[i].id, snapshot[j].id} \subseteq DOMAIN dom
                            => Place(snapshot[i].id) < Place(snapshot[j].id)

(* The heading of a node is the last one before it in its own document:    *)
(* nothing comes in through a frame or out of it, while a shadow tree      *)
(* counts with its host.                                                   *)
HeadingIsLastBefore ==
    LET order == DomOrder(dom)
        Before(id) ==
            SelectSeq(SubSeq(order, 1, CHOOSE k \in DOMAIN order : order[k] = id),
                      LAMBDA h : HeadingName(h) # "" /\ Inside(dom, h) = Inside(dom, id))
    IN  \A n \in Range(snapshot) :
            n.id \in DOMAIN dom =>
                n.heading = IF Before(n.id) = <<>> THEN "" ELSE HeadingName(Last(Before(n.id)))

(* "ancestor chain ... siblings share parents": two elements beside each   *)
(* other, alike in all, are both found to be clickable or both not.        *)
SiblingsAgree ==
    phase = "layout" /\ dom = page.nodes =>
        \A m, n \in Range(listed) :
            /\ {m.id, n.id} \subseteq DOMAIN dom
            /\ HasParent(dom, m.id) /\ HasParent(dom, n.id)
            /\ dom[m.id] = dom[n.id] /\ ParentIn(dom, m.id) = ParentIn(dom, n.id)
            => m.id \in DOMAIN signals <=> n.id \in DOMAIN signals

(* "preserving high z-index overlay content".                              *)
OverlayIsKept ==
    phase = "layout" /\ dom = page.nodes /\ Len(listed) = MaxNodes =>
        \A id \in DOMAIN dom :
            AxRole(id) = "button" /\ dom[id].z > 100 => id \in IdsIn(listed)

(* "CDP frame ID containing this node".                                    *)
FrameContainsNode ==
    \A n \in Range(snapshot) :
        n.id \in DOMAIN dom /\ loaders # <<>> =>
            LET document == Inside(dom, n.id)
                owners == {id \in DOMAIN dom : document \in Range(dom[id].docs)}
            IN  n.frame = IF owners = {} THEN "main" ELSE dom[CHOOSE o \in owners : TRUE].frame

=============================================================================
