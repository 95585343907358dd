------------------------------- MODULE Layers -------------------------------
(***************************************************************************)
(* The layers of a page, from the nodes of a snapshot:                     *)
(* src/src/state/layer-detector.ts, layer-detectors/*.ts, node-layer.ts,   *)
(* and the kinds of actionables-filter.ts.                                 *)
(*                                                                         *)
(* A node is a record.  "mark" stands for the class and data attributes    *)
(* that name a component of a known library, "wide" for a box larger than  *)
(* 200 by 200, "edge" for one at the left or right edge.                   *)
(***************************************************************************)
EXTENDS Integers, Sequences, FiniteSets, SequencesExt, Values

INTERACTIVE_KINDS ==
    {"link", "button", "input", "textarea", "select", "combobox", "checkbox", "radio",
     "switch", "slider", "tab", "menuitem", "canvas"}

LIVE_REGION_KINDS == {"alert", "status", "log", "tooltip", "progressbar", "timer"}

IsInteractive(n) == n.kind \in INTERACTIVE_KINDS
IsLiveRegion(n) == n.kind \in LIVE_REGION_KINDS

(* The nodes that get an eid in the registry.                              *)
IsTracked(n) == IsInteractive(n) \/ n.implicit \/ IsLiveRegion(n)

-----------------------------------------------------------------------------
(* The detectors.  Confidences are in hundredths; those of one detector    *)
(* that are on the same side of the limit are one.                         *)
IsPortalContainer(n) == n.z >= 100 /\ (n.mark = "modal" \/ (n.wide /\ n.z > 500))

DetectModal(n) ==
    \/ n.role \in {"dialog", "alertdialog"} /\ n.ariaModal
    \/ n.kind = "dialog" /\ n.open
    \/ n.role = "alertdialog"
    \/ n.role = "dialog" /\ n.z > 1000
    \/ IsPortalContainer(n)

DetectDrawer(n) ==
    \/ n.role = "complementary" /\ n.z > 100
    \/ n.role = "navigation" /\ n.z > 100 /\ n.edge
    \/ n.mark = "drawer" /\ n.z > 50

DetectPopover(n) ==
    /\ n.z > 100
    /\ \/ n.role \in {"menu", "listbox", "tooltip", "tree"}
       \/ n.role = "dialog" /\ ~n.ariaModal
       \/ n.mark = "popover"

DetectToast(n) ==
    n.z > 100 /\ ~n.ariaModal /\ (n.role \in {"alert", "status"} \/ IsLiveRegion(n))

Found(n, type, confidence) == [type |-> type, z |-> n.z, confidence |-> confidence]

Candidate(n) ==
    IF DetectModal(n) THEN Found(n, "modal", 75)
    ELSE IF DetectDrawer(n) THEN Found(n, "drawer", 70)
    ELSE IF DetectPopover(n)
         THEN Found(n, "popover", IF n.role = "dialog" THEN 60 ELSE 65)
    ELSE IF DetectToast(n) THEN Found(n, "toast", 70)
    ELSE Found(n, Null, 0)

(* Array.prototype.sort is stable.                                         *)
SortedBy(q, Before(_, _)) ==
    LET place == [i \in DOMAIN q |->
                     Cardinality({j \in DOMAIN q : \/ Before(q[j], q[i])
                                                   \/ ~Before(q[i], q[j]) /\ j <= i})]
    IN  [k \in DOMAIN q |-> q[CHOOSE i \in DOMAIN q : place[i] = k]]

(* The elements of a sequence that are in a set, in their order.           *)
Chosen(q, S) ==
    LET at == {i \in DOMAIN q : q[i] \in S}
    IN  [k \in 1 .. Cardinality(at) |->
            q[CHOOSE i \in at : Cardinality({j \in at : j <= i}) = k]]

Main == [type |-> "main", z |-> 0]

(* The candidates are pushed on the stack from the highest z-index down.   *)
DetectLayers(nodes) ==
    LET candidates == SelectSeq([i \in DOMAIN nodes |-> Candidate(nodes[i])],
                                LAMBDA c : c.confidence > 60)
        sorted == SortedBy(candidates, LAMBDA c, d : c.z > d.z)
    IN  <<Main>> \o [i \in DOMAIN sorted |-> [type |-> sorted[i].type, z |-> sorted[i].z]]

ActiveEntry(stack) == Last(SelectSeq(stack, LAMBDA l : l.type # "toast"))
ActiveLayer(nodes) == ActiveEntry(DetectLayers(nodes)).type

-----------------------------------------------------------------------------
INCLUSIVE_OVERLAY_LAYERS == {"popover", "drawer"}

GetNodeLayer(n, active) ==
    CASE n.region = "dialog" -> "modal"
      [] n.region # "dialog" /\ active \in INCLUSIVE_OVERLAY_LAYERS /\ n.z > 1 -> active
      [] OTHER -> "main"

InLayer(n, active) ==
    active \in INCLUSIVE_OVERLAY_LAYERS \/ GetNodeLayer(n, active) = active

=============================================================================
