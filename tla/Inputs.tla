------------------------------- MODULE Inputs -------------------------------
(***************************************************************************)
(* The input actions on an element, command by command: each CDP command   *)
(* may fail, may be answered too late, or may find that the page has drawn *)
(* the element anew; some calls then look for the element and try again.   *)
(* src/src/snapshot/element-resolver.ts, src/src/tools/execute-action.ts,  *)
(* stale-element-retry.ts, viewport-tools.ts and canvas-tools.ts.          *)
(***************************************************************************)
EXTENDS Integers, Sequences, FiniteSets, SequencesExt, Values

CONSTANTS
    InputCalls,     \* bound: calls at a time, each made once
    Operations,     \* the operations they may be
    MaxNodes        \* bound: times the page draws the element

(* The input operations there are.                                         *)
ASSUME OperationsAssumption ==
    Operations \subseteq {"click", "clickSmall", "clickAt", "type", "press", "hover", "select",
                          "scrollTo", "scrollPage", "dragElement", "wheel", "inspect"}

VARIABLES
    present,        \* backend id of the element now, 0 while there is none
    drawn,          \* backend ids given so far
    pressed,        \* the mouse button is down
    overlays,       \* elements with the id of the overlay
    inputs,         \* the calls
    delivered,      \* call -> the commands of its program that reached the page
    spoiled         \* history: a command that changes the page failed

inputVars == <<present, drawn, pressed, overlays, inputs, delivered, spoiled>>

Idle == [op |-> Null, node |-> 0, at |-> 0, retried |-> FALSE, result |-> Null]

InputsInit ==
    /\ present = 1
    /\ drawn = 1
    /\ pressed = FALSE
    /\ overlays = 0
    /\ inputs = [c \in InputCalls |-> Idle]
    /\ delivered = [c \in InputCalls |-> <<>>]
    /\ spoiled = FALSE

-----------------------------------------------------------------------------
(* scrollAndGetContentQuad, clickAtCoordinates, clearFocusedText and the   *)
(* functions made of them.  An element smaller than MIN_CLICKABLE_SIZE is  *)
(* clicked through an ancestor.                                            *)
ContentQuad == <<"scroll", "box">>
ClickAtCoordinates == <<"moved", "pressed", "released">>
ClickByBackendNodeId == ContentQuad \o ClickAtCoordinates
FindClickableAncestor == ContentQuad \o <<"ancestor">>
ClickAncestor == FindClickableAncestor \o ClickByBackendNodeId
ClearFocusedText == <<"selectDown", "selectUp", "deleteDown", "deleteUp">>
TypeByBackendNodeId == ClickByBackendNodeId \o ClearFocusedText \o <<"insert">>
PressKey == <<"keyDown", "keyUp">>
SelectOption == <<"resolve", "choose">>
HoverByBackendNodeId == ContentQuad \o <<"moved">>
ScrollIntoView == <<"scroll">>
ScrollPage == <<"scrollBy">>
DragElement == ContentQuad \o <<"pressed", "moving", "released">>
WheelElement == ContentQuad \o <<"wheel">>
InspectCanvas ==
    <<"scroll", "box", "resolve", "detect", "overlay", "shot", "cleanup", "release">>

Program(op) ==
    CASE op = "click" -> ClickByBackendNodeId
      [] op = "clickSmall" -> ClickAncestor
      [] op = "clickAt" -> ClickAtCoordinates
      [] op = "type" -> TypeByBackendNodeId
      [] op = "press" -> PressKey
      [] op = "hover" -> HoverByBackendNodeId
      [] op = "select" -> SelectOption
      [] op = "scrollTo" -> ScrollIntoView
      [] op = "scrollPage" -> ScrollPage
      [] op = "dragElement" -> DragElement
      [] op = "wheel" -> WheelElement
      [] op = "inspect" -> InspectCanvas

(* The command of a call's program that is next.                           *)
Following(c) == Program(inputs[c].op)[inputs[c].at]

(* What only looks, and needs the element to be there.                     *)
OfElement == {"scroll", "box", "resolve", "ancestor"}
LooksOnly == OfElement \cup {"detect", "shot", "release"}
Uncounted == LooksOnly \cup {"cleanup"}
Effects(op) == {p \in DOMAIN Program(op) : Program(op)[p] \notin Uncounted}

(* executeActionWithRetry and the like are for these.                      *)
WithRetry == {"type", "hover", "select", "scrollTo"}

-----------------------------------------------------------------------------
(* The page.                                                               *)
Redraw ==
    /\ drawn < MaxNodes
    /\ drawn' = drawn + 1
    /\ present' \in {0, drawn + 1}
    /\ UNCHANGED <<pressed, overlays, inputs, delivered, spoiled>>

(* The effect of a command that reached the page.  Cleanup removes the     *)
(* element that has the id of the overlay.                                 *)
Reaches(c) ==
    /\ delivered' = IF Following(c) \in Uncounted THEN delivered
                    ELSE [delivered EXCEPT ![c] = Append(@, inputs[c].at)]
    /\ pressed' = CASE Following(c) = "pressed" -> TRUE
                     [] Following(c) = "released" -> FALSE
                     [] OTHER -> pressed
    /\ overlays' = CASE Following(c) = "overlay" -> overlays + 1
                     [] Following(c) = "cleanup" /\ overlays > 0 -> overlays - 1
                     [] OTHER -> overlays

Unreached == UNCHANGED <<delivered, pressed, overlays>>

-----------------------------------------------------------------------------
(* A tool resolves its element from the stored snapshot, which may be      *)
(* older than what the page shows.                                         *)
Begins(c) ==
    /\ inputs[c] = Idle
    /\ \E op \in Operations, n \in 1 .. drawn :
          inputs' = [inputs EXCEPT ![c] = [Idle EXCEPT !.op = op, !.node = n, !.at = 1]]
    /\ UNCHANGED <<present, drawn, pressed, overlays, delivered, spoiled>>

Working(c) == inputs[c].at # 0
Stale(c) == Following(c) \in OfElement /\ inputs[c].node # present

Continue(c, at, result) ==
    inputs' = [inputs EXCEPT ![c].at = at, ![c].result = result]

(* Invalid coordinates and unknown keys are refused before any input.      *)
Refused(c) ==
    /\ Working(c)
    /\ Following(c) \in {"moved", "pressed", "wheel", "keyDown"}
    /\ delivered[c] = <<>>
    /\ Continue(c, 0, "failed")
    /\ UNCHANGED <<present, drawn, pressed, overlays, delivered, spoiled>>

Proceeds(c) ==
    IF inputs[c].at = Len(Program(inputs[c].op))
    THEN Continue(c, 0, IF inputs[c].result = Null THEN "done" ELSE inputs[c].result)
    ELSE Continue(c, inputs[c].at + 1, inputs[c].result)

Succeeds(c) ==
    /\ Working(c)
    /\ ~Stale(c)
    /\ Reaches(c)
    /\ Proceeds(c)
    /\ UNCHANGED <<present, drawn, spoiled>>

(* findClickableAncestor swallows its failure; the element is clicked.     *)
AncestorFails(c) ==
    /\ Working(c)
    /\ Following(c) = "ancestor"
    /\ Continue(c, Len(FindClickableAncestor \o ContentQuad) + 1, inputs[c].result)
    /\ UNCHANGED <<present, drawn, pressed, overlays, delivered, spoiled>>

(* The call is answered with its error.  Inspection cleans up after a      *)
(* failed screenshot; a failed cleanup is ignored.                         *)
Failing(c) ==
    CASE Following(c) = "shot" -> Continue(c, inputs[c].at + 1, "failed")
      [] Following(c) \in {"cleanup", "release"} -> Proceeds(c)
      [] OTHER -> Continue(c, 0, "failed")

(* isStaleElementError, which takes any error of a scroll for one, then    *)
(* handleStaleElementRetry or its copy: one new look at the page, for an   *)
(* element of the same kind and label.                                     *)
Retries_AnyError(c) == inputs[c].op \in WithRetry /\ ~inputs[c].retried

Retries(c) ==
    /\ inputs[c].op \in WithRetry
    /\ ~inputs[c].retried
    /\ Stale(c) \/ Following(c) = "scroll"

TriesAgain(c) ==
    IF present = 0
    THEN inputs' = [inputs EXCEPT ![c].retried = TRUE, ![c].at = 0, ![c].result = "failed"]
    ELSE inputs' = [inputs EXCEPT ![c].retried = TRUE, ![c].node = present, ![c].at = 1]

(* The command fails: the element is gone, has no box, or the session is   *)
(* gone; or it times out, having reached the page or not.                  *)
Fails(c) ==
    /\ Working(c)
    /\ Following(c) # "ancestor"
    /\ \/ Unreached
       \/ ~Stale(c) /\ Reaches(c)
    /\ spoiled' = (spoiled \/ Following(c) \notin LooksOnly)
    /\ \/ Retries(c) /\ TriesAgain(c)
       \/ Failing(c)
    /\ UNCHANGED <<present, drawn>>

InputsNext ==
    \/ Redraw
    \/ \E c \in InputCalls : \/ Begins(c)
                             \/ Refused(c)
                             \/ Succeeds(c)
                             \/ AncestorFails(c)
                             \/ Fails(c)

-----------------------------------------------------------------------------
InputsTypeOK ==
    /\ present \in {0} \cup 1 .. drawn
    /\ drawn \in 1 .. MaxNodes
    /\ overlays \in 0 .. Cardinality(InputCalls)
    /\ \A c \in InputCalls : /\ inputs[c].node \in 0 .. drawn
                             /\ inputs[c].result \in {Null, "done", "failed"}

(* Whatever fails and is tried again, the page gets each event of an       *)
(* action at most once and in order, none before an earlier one, and all   *)
(* when the call is answered as done: text is not typed twice, a click has *)
(* no second press.                                                        *)
InOrder(c) ==
    \A i, j \in DOMAIN delivered[c] : i < j => delivered[c][i] < delivered[c][j]

NoneSkipped(c) ==
    \A i \in DOMAIN delivered[c] : \A p \in Effects(inputs[c].op) :
        p < delivered[c][i] => p \in Range(delivered[c])

ActedOnce ==
    \A c \in InputCalls :
        /\ InOrder(c)
        /\ NoneSkipped(c)
        /\ inputs[c].result = "done" => Effects(inputs[c].op) \subseteq Range(delivered[c])

(* When no call is at work, nothing of one is left in the page, unless a   *)
(* command that changes the page failed: the button is up and the overlay  *)
(* of every inspection is gone, even of two at once.                       *)
NothingIsLeft ==
    (\A c \in InputCalls : ~Working(c)) /\ ~spoiled => ~pressed /\ overlays = 0

=============================================================================
