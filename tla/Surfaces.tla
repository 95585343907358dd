------------------------------ MODULE Surfaces ------------------------------
(***************************************************************************)
(* What blocks a page without being part of it, JavaScript dialogs, file   *)
(* choosers and permission prompts, and how the tools that act on the page *)
(* meet it: DialogManager, PermissionDetector and the surface store of     *)
(* src/src/non-dom with src/src/tools/interaction-tools.ts.                *)
(*                                                                         *)
(* Events and the answers to Page.handleJavaScriptDialog reach the process *)
(* in the order the browser sent them (wire).  A dialog blocks the         *)
(* renderer: nothing but its own command is answered until it closes, and  *)
(* what waits longer than the protocol allows fails.  The script of the    *)
(* detector counts its requests from 1 in every document.                  *)
(***************************************************************************)
EXTENDS Naturals, Sequences, Values

CONSTANTS
    Actions,        \* bound: tool calls in flight
    DialogTypes,    \* bound: of alert, confirm, prompt, beforeunload
    Permissions,    \* bound: BrowserPermission
    MaxRequests,    \* bound: permission requests of a document
    MaxWire         \* bound: messages under way that the page starts

VARIABLES
    dialog,         \* the type of the dialog that is open
    wire,           \* messages from the browser
    requests,       \* the script's reg, Null what was replayed
    decided,        \* the browser's state of a permission
    premature,      \* history: a request was replayed undecided
    pendingDialog,  \* DialogManager._pendingDialog
    chooser,        \* DialogManager._fileChooser.opened
    pendingRequest, \* PermissionDetector._pending: id and permission
    surface,        \* the surface store
    live,           \* the CDP session of the handle works
    attached,       \* it is the one that the manager listens to
    detecting,      \* and the detector
    rebound,        \* history: a session has died or was rebound
    missed,         \* history: to resolve the open dialog has failed
    actions         \* the tool calls

surfaceVars ==
    <<dialog, wire, requests, decided, premature, pendingDialog, chooser,
      pendingRequest, surface, live, attached, detecting, rebound, missed, actions>>

pageSide == <<requests, decided, premature>>
bindings == <<live, attached, detecting, rebound>>
bound == <<live, attached, detecting, rebound, missed>>

(* fresh: the surface is of the document that is loaded.                   *)
NoRequest == [id |-> 0, permission |-> Null]
Blank == [kind |-> Null, value |-> FALSE, request |-> NoRequest, fresh |-> FALSE]
NoAction == [kind |-> Null, pc |-> "idle", early |-> FALSE, since |-> FALSE,
             accept |-> FALSE, request |-> NoRequest, fresh |-> FALSE]

BuildDialogSurface == [Blank EXCEPT !.kind = "dialog"]
BuildFilePickerSurface == [Blank EXCEPT !.kind = "file-picker"]
BuildPermissionSurface(r, fresh) ==
    [Blank EXCEPT !.kind = "permission", !.request = r, !.fresh = fresh]

(* The synthetic controls.  A click does not ask whether its control is on *)
(* the surface, and only typing does; the text of a prompt is left out.    *)
HasInput(s) == s.kind = "file-picker"

SurfacesInit ==
    /\ dialog = Null
    /\ wire = <<>>
    /\ requests = <<>>
    /\ decided = [p \in Permissions |-> "prompt"]
    /\ premature = FALSE
    /\ pendingDialog = Null
    /\ chooser = FALSE
    /\ pendingRequest = NoRequest
    /\ surface = Blank
    /\ live = TRUE
    /\ attached = TRUE
    /\ detecting = TRUE
    /\ rebound = FALSE
    /\ missed = FALSE
    /\ actions = [a \in Actions |-> NoAction]

Goes(a, pc) == actions' = [actions EXCEPT ![a].pc = pc]
Ends(a) == actions' = [actions EXCEPT ![a] = NoAction]
Captures(a) == actions' = [actions EXCEPT ![a] = [NoAction EXCEPT !.pc = "capture"]]

Message(what, arg) == [what |-> what, arg |-> arg]
Sent(what, arg) == Append(wire, Message(what, arg))

(* Answers of the browser that a call waits for are not bounded.           *)
Room == Len(wire) < MaxWire

-----------------------------------------------------------------------------
(* The browser.  An event only reaches a client that has handlers for it.  *)
Opens(t) ==
    /\ dialog' = t
    /\ wire' = IF attached THEN Sent("opening", t) ELSE wire

(* A page opens a dialog on its own; a dialog is closed by the user.       *)
DialogOpens ==
    /\ dialog = Null
    /\ Room
    /\ \E t \in DialogTypes : Opens(t)
    /\ UNCHANGED <<pageSide, pendingDialog, chooser, pendingRequest, surface, bound, actions>>

ClosingSent == IF attached THEN Sent("closed", Null) ELSE wire

DialogCloses ==
    /\ dialog # Null
    /\ Room
    /\ dialog' = Null
    /\ wire' = ClosingSent
    /\ missed' = FALSE
    /\ UNCHANGED <<pageSide, pendingDialog, chooser, pendingRequest, surface, bindings, actions>>

(* The requests of a document end with it; the detector does not hear.     *)
NewDocument ==
    /\ requests' = <<>>
    /\ surface' = [surface EXCEPT !.fresh = FALSE]
    /\ actions' = [a \in Actions |-> [actions[a] EXCEPT !.fresh = FALSE]]

PageNavigates ==
    /\ dialog = Null
    /\ NewDocument
    /\ UNCHANGED <<dialog, wire, decided, premature, pendingDialog, chooser, pendingRequest, bound>>

(* The patched permission functions: what is decided passes through, but   *)
(* getUserMedia does not ask first.                                        *)
Media == {"camera", "microphone"}

Asks(p) ==
    /\ decided[p] = "prompt" \/ p \in Media
    /\ Len(requests) < MaxRequests
    /\ requests' = Append(requests, p)
    /\ wire' = IF detecting
               THEN Sent("request", [id |-> Len(requests'), permission |-> p])
               ELSE wire

PageAsks ==
    /\ dialog = Null
    /\ Room
    /\ \E p \in Permissions : Asks(p)
    /\ UNCHANGED <<dialog, decided, premature, pendingDialog, chooser, pendingRequest, surface,
                   bound, actions>>

-----------------------------------------------------------------------------
(* The handlers of DialogManager.attach and PermissionDetector.attach, and *)
(* the continuations of resolveDialog and applyDefaultPolicy.              *)
HandlesEvent_ClosedIsIgnored(m) ==
    /\ pendingDialog' = IF m.what = "opening" THEN m.arg ELSE pendingDialog
    /\ pendingRequest' = IF m.what = "request" THEN m.arg ELSE pendingRequest
    /\ UNCHANGED <<chooser, actions, surface>>

HandlesEvent(m) ==
    /\ pendingDialog' = IF m.what = "opening" THEN m.arg
                        ELSE IF m.what = "closed" THEN Null ELSE pendingDialog
    /\ pendingRequest' = IF m.what = "request" THEN m.arg ELSE pendingRequest
    /\ chooser' = (chooser \/ m.what = "chooser")
    /\ actions' = IF m.what = "chooser"
                  THEN [a \in Actions |-> IF actions[a].pc \in {"pressing", "settle"}
                                          THEN [actions[a] EXCEPT !.since = TRUE]
                                          ELSE actions[a]]
                  ELSE actions
    /\ UNCHANGED surface

Resolved(a, ok) ==
    /\ pendingDialog' = Null
    /\ IF ok
       THEN surface' = Blank /\ Captures(a)
       ELSE Ends(a) /\ UNCHANGED surface
    /\ UNCHANGED <<pendingRequest, chooser>>

Dismissed(a, ok) ==
    /\ pendingDialog' = IF ok THEN Null ELSE pendingDialog
    /\ surface' = Blank
    /\ Captures(a)
    /\ UNCHANGED <<pendingRequest, chooser>>

Deliver ==
    /\ wire # <<>>
    /\ wire' = Tail(wire)
    /\ LET m == Head(wire)
       IN  IF m.what = "answer"
           THEN IF actions[m.arg.call].pc = "resolving"
                THEN Resolved(m.arg.call, m.arg.ok)
                ELSE Dismissed(m.arg.call, m.arg.ok)
           ELSE HandlesEvent(m)
    /\ UNCHANGED <<dialog, pageSide, bound>>

(* Page.handleJavaScriptDialog: it fails if no dialog is open.  To accept  *)
(* the one before an unload leaves the page.                               *)
HandleDialog(a) ==
    LET reaches == attached /\ dialog # Null
        leaves == reaches /\ dialog = "beforeunload" /\ actions[a].accept
        answer == Message("answer", [call |-> a, ok |-> reaches])
    IN  /\ actions[a].pc \in {"resolving", "dismissing"}
        /\ \A i \in DOMAIN wire : wire[i].what = "answer" => wire[i].arg.call # a
        /\ dialog' = IF reaches THEN Null ELSE dialog
        /\ wire' = Append(IF reaches THEN ClosingSent ELSE wire, answer)
        /\ missed' = (missed /\ ~reaches)
        /\ IF leaves THEN NewDocument ELSE UNCHANGED <<requests, surface, actions>>
        /\ UNCHANGED <<decided, premature, pendingDialog, chooser, pendingRequest, bindings>>

(* No answer comes within the 30 s of the client, or its session is dead:  *)
(* to the caller that is the same error.  A command that the browser obeys *)
(* later closes the dialog as a user does.                                 *)
HandleDialogFails(a) ==
    /\ actions[a].pc \in {"resolving", "dismissing"}
    /\ \A i \in DOMAIN wire : wire[i].what = "answer" => wire[i].arg.call # a
    /\ IF actions[a].pc = "resolving"
       THEN Resolved(a, FALSE) /\ missed' = (missed \/ dialog # Null)
       ELSE Dismissed(a, FALSE) /\ UNCHANGED missed
    /\ UNCHANGED <<dialog, wire, pageSide, bindings>>

-----------------------------------------------------------------------------
(* The tools that act on the page: click on an element, and the others     *)
(* (type, press, select, hover, click at a point), which are called act.   *)
Begin(a, kind) ==
    /\ actions[a] = NoAction
    /\ actions' = [actions EXCEPT ![a].kind = kind, ![a].pc = "probe"]
    /\ UNCHANGED <<dialog, wire, pageSide, pendingDialog, chooser, pendingRequest, surface, bound>>

(* When a session ends, its events are lost and its commands fail.         *)
Rejected(w) ==
    LET answers == SelectSeq(w, LAMBDA m : m.what = "answer")
    IN  [i \in DOMAIN answers |-> [answers[i] EXCEPT !.arg.ok = FALSE]]

SessionEnds ==
    /\ attached' = FALSE
    /\ detecting' = FALSE
    /\ rebound' = TRUE
    /\ wire' = Rejected(wire)

SessionDies ==
    /\ live
    /\ live' = FALSE
    /\ SessionEnds
    /\ UNCHANGED <<dialog, pageSide, pendingDialog, chooser, pendingRequest, surface, missed,
                   actions>>

(* ensureCdpSession.  A probe that fails, it may wait for the renderer, is *)
(* answered by a new session, to which nothing attaches the manager and the*)
(* detector; or there is none to be had.                                   *)
SessionHolds == live /\ UNCHANGED <<live, attached, detecting, rebound, wire>>
Rebinds == live' = TRUE /\ SessionEnds
RebindFails == live' = FALSE /\ SessionEnds

(* dismissBlockingDialogIfPending, up to its await.  On a closed session   *)
(* the policy has no effect, but the surface goes.                         *)
DismissesBlocking_ClearsOnly(a) ==
    /\ surface' = Blank
    /\ Captures(a)

DismissesBlocking(a) ==
    IF attached'
    THEN /\ actions' = [actions EXCEPT ![a].pc = "dismissing", ![a].accept = FALSE]
         /\ UNCHANGED surface
    ELSE /\ surface' = Blank
         /\ Captures(a)

Probe(a) ==
    /\ actions[a].pc = "probe"
    /\ \/ /\ SessionHolds \/ ((dialog # Null \/ ~live) /\ Rebinds)
          /\ IF pendingDialog # Null
             THEN DismissesBlocking(a)
             ELSE Goes(a, "press") /\ UNCHANGED surface
       \/ /\ dialog # Null \/ ~live
          /\ RebindFails
          /\ Ends(a)
          /\ UNCHANGED surface
    /\ UNCHANGED <<dialog, pageSide, pendingDialog, chooser, pendingRequest, missed>>

(* A click attaches the manager anew, and then reads the clock.            *)
Press(a) ==
    /\ actions[a].pc = "press"
    /\ attached' = (attached \/ (live /\ actions[a].kind = "click"))
    /\ IF dialog = Null
       THEN actions' = [actions EXCEPT ![a].pc = "pressing", ![a].since = FALSE,
                                       ![a].early = (actions[a].kind = "click")]
       ELSE Ends(a)
    /\ UNCHANGED <<dialog, wire, pageSide, pendingDialog, chooser, pendingRequest, surface,
                   live, detecting, rebound, missed>>

(* What the input may start besides what the page does on its own.         *)
ChooserOpens(a) ==
    /\ actions[a].pc = "pressing"
    /\ dialog = Null
    /\ Room
    /\ attached
    /\ wire' = Sent("chooser", Null)
    /\ UNCHANGED <<dialog, pageSide, pendingDialog, chooser, pendingRequest, surface, bound, actions>>

(* clickWithEarlyDialogDetection: a dialog that is seen while the click is *)
(* not acknowledged ends the call with the stored snapshot.                *)
Shows(a) ==
    /\ surface' = BuildDialogSurface
    /\ Ends(a)

DialogSeen(a) ==
    /\ actions[a].pc = "pressing"
    /\ actions[a].early
    /\ pendingDialog # Null
    /\ Shows(a)
    /\ UNCHANGED <<dialog, wire, pageSide, pendingDialog, chooser, pendingRequest, bound>>

(* DIALOG_CLICK_RACE_TIMEOUT_MS                                            *)
RaceEnds(a) ==
    /\ actions[a].pc = "pressing"
    /\ actions[a].early
    /\ pendingDialog = Null
    /\ actions' = [actions EXCEPT ![a].early = FALSE]
    /\ UNCHANGED <<dialog, wire, pageSide, pendingDialog, chooser, pendingRequest, surface, bound>>

(* The input is acknowledged, or fails, by the timeout of the client too.  *)
Pressed(a) ==
    /\ actions[a].pc = "pressing"
    /\ \E ok \in BOOLEAN :
          /\ ok => dialog = Null
          /\ IF actions[a].kind = "click" /\ pendingDialog # Null
             THEN Shows(a)
             ELSE /\ IF ok \/ actions[a].kind = "act" THEN Goes(a, "settle") ELSE Ends(a)
                  /\ UNCHANGED surface
    /\ UNCHANGED <<dialog, wire, pageSide, pendingDialog, chooser, pendingRequest, bound>>

Current(r) == r.id \in DOMAIN requests /\ requests[r.id] = r.permission

(* stabilizeAfterAction never throws; after it a click looks for a chooser *)
(* and for a request.                                                      *)
Settle(a) ==
    /\ actions[a].pc = "settle"
    /\ IF actions[a].kind = "click" /\ chooser /\ actions[a].since
       THEN surface' = BuildFilePickerSurface /\ chooser' = FALSE
       ELSE /\ surface' = IF actions[a].kind = "click" /\ pendingRequest # NoRequest
                          THEN BuildPermissionSurface(pendingRequest, Current(pendingRequest))
                          ELSE surface
            /\ UNCHANGED chooser
    /\ Captures(a)
    /\ UNCHANGED <<dialog, wire, pageSide, pendingDialog, pendingRequest, bound>>

(* captureSnapshotWithRecovery: it probes again, blocks with the page, and *)
(* rebinds when the snapshot is empty.                                     *)
Capture(a) ==
    /\ actions[a].pc = "capture"
    /\ SessionHolds \/ Rebinds \/ RebindFails
    /\ Ends(a)
    /\ UNCHANGED <<dialog, pageSide, pendingDialog, chooser, pendingRequest, surface, missed>>

-----------------------------------------------------------------------------
(* A click on a file input shows the surface without clicking; the tools   *)
(* that only look at the page.                                             *)
FileInput(a) ==
    /\ actions[a].pc = "press"
    /\ actions[a].kind = "click"
    /\ surface' = BuildFilePickerSurface
    /\ Captures(a)
    /\ UNCHANGED <<dialog, wire, pageSide, pendingDialog, chooser, pendingRequest, bound>>

Look(a) ==
    /\ actions[a] = NoAction
    /\ surface.kind # "dialog"
    /\ Captures(a)
    /\ UNCHANGED <<dialog, wire, pageSide, pendingDialog, chooser, pendingRequest, surface, bound>>

(* handleNonDomType: a synchronous change of the surface.                  *)
TypeIntoSurface ==
    /\ HasInput(surface)
    /\ surface' = [surface EXCEPT !.value = TRUE]
    /\ UNCHANGED <<dialog, wire, pageSide, pendingDialog, chooser, pendingRequest, bound, actions>>

(* handleNonDomClick on nd-dialog-ok and nd-dialog-dismiss: an error leaves*)
(* the surface as it is.                                                   *)
ResolveDialog(a) ==
    /\ actions[a] = NoAction
    /\ surface.kind \in {"dialog", "file-picker"}
    /\ attached' = (attached \/ (live /\ surface.kind # "dialog"))
    /\ pendingDialog # Null
    /\ IF attached'
       THEN /\ \E accept \in BOOLEAN :
                  actions' = [actions EXCEPT ![a].pc = "resolving",
                                             ![a].accept = accept]
            /\ UNCHANGED pendingDialog
       ELSE pendingDialog' = Null /\ UNCHANGED actions
    /\ UNCHANGED <<dialog, wire, pageSide, chooser, pendingRequest, surface, live, detecting,
                   rebound, missed>>

(* nd-picker-choose uploads what was typed, nd-picker-cancel takes any     *)
(* surface that is no prompt away.  The upload may fail.                   *)
PickerChoose(a) ==
    /\ actions[a] = NoAction
    /\ surface.kind = "file-picker"
    /\ surface.value
    /\ attached' = (attached \/ live)
    /\ surface' = Blank
    /\ Captures(a)
    /\ UNCHANGED <<dialog, wire, pageSide, pendingDialog, chooser, pendingRequest, live, detecting,
                   rebound, missed>>

PickerCancel(a) ==
    /\ actions[a] = NoAction
    /\ surface.kind \in {"dialog", "file-picker"}
    /\ attached' = (attached \/ (live /\ surface.kind # "dialog"))
    /\ surface' = Blank
    /\ Captures(a)
    /\ UNCHANGED <<dialog, wire, pageSide, pendingDialog, chooser, pendingRequest, live, detecting,
                   rebound, missed>>

(* handlePermissionResolution: first the state of the permission, then the *)
(* request is replayed in the document that is there then.                 *)
ResolvePermission(a) ==
    /\ actions[a] = NoAction
    /\ surface.kind = "permission"
    /\ \E granted \in BOOLEAN :
          actions' = [actions EXCEPT ![a].pc = "deciding",
                                     ![a].accept = granted, ![a].request = surface.request,
                                     ![a].fresh = surface.fresh]
    /\ UNCHANGED <<dialog, wire, pageSide, pendingDialog, chooser, pendingRequest, surface, bound>>

SetPermissions(a) ==
    /\ actions[a].pc = "deciding"
    /\ \/ /\ decided' = [decided EXCEPT ![actions[a].request.permission] =
                             IF actions[a].accept THEN "granted" ELSE "denied"]
          /\ Goes(a, "replaying")
       \/ Ends(a) /\ UNCHANGED decided
    /\ UNCHANGED <<dialog, wire, requests, premature, pendingDialog, chooser, pendingRequest,
                   surface, bound>>

Replay(a) ==
    LET id == actions[a].request.id
        runs == /\ detecting
                /\ dialog = Null
                /\ id \in DOMAIN requests
                /\ requests[id] # Null
    IN  /\ actions[a].pc = "replaying"
        /\ requests' = IF runs THEN [requests EXCEPT ![id] = Null] ELSE requests
        /\ premature' = \/ premature
                        \/ runs /\ actions[a].fresh /\ decided[requests[id]] = "prompt"
        /\ pendingRequest' = IF pendingRequest.id = id THEN NoRequest ELSE pendingRequest
        /\ surface' = Blank
        /\ Captures(a)
        /\ UNCHANGED <<dialog, wire, decided, pendingDialog, chooser, bound>>

SurfacesNext ==
    \/ DialogOpens \/ DialogCloses \/ PageNavigates \/ PageAsks
    \/ Deliver \/ TypeIntoSurface \/ SessionDies
    \/ \E a \in Actions :
          \/ Begin(a, "click") \/ Begin(a, "act")
          \/ Probe(a) \/ Press(a) \/ ChooserOpens(a)
          \/ DialogSeen(a) \/ RaceEnds(a) \/ Pressed(a)
          \/ Settle(a) \/ Capture(a) \/ HandleDialog(a) \/ HandleDialogFails(a)
          \/ FileInput(a) \/ Look(a)
          \/ ResolveDialog(a) \/ PickerChoose(a) \/ PickerCancel(a)
          \/ ResolvePermission(a) \/ SetPermissions(a) \/ Replay(a)

-----------------------------------------------------------------------------
Calls == [kind : {Null, "click", "act"},
          pc : {"idle", "probe", "press", "pressing", "settle", "capture", "resolving",
                "dismissing", "deciding", "replaying"},
          early : BOOLEAN, since : BOOLEAN, accept : BOOLEAN, fresh : BOOLEAN,
          request : [id : 0 .. MaxRequests, permission : Permissions \cup {Null}]]

(* Each variable has its values; a surface is one of the three kinds.      *)
SurfacesTypeOK ==
    /\ {dialog, pendingDialog} \subseteq DialogTypes \cup {Null}
    /\ Len(requests) <= MaxRequests
    /\ decided \in [Permissions -> {"prompt", "granted", "denied"}]
    /\ pendingRequest.id \in 0 .. MaxRequests
    /\ surface.kind \in {Null, "dialog", "file-picker", "permission"}
    /\ {premature, chooser, live, attached, detecting, rebound, missed} \subseteq BOOLEAN
    /\ DOMAIN actions = Actions
    /\ \A a \in Actions : actions[a] \in Calls

(* The pending dialog that decides whether a tool may touch the page is    *)
(* the dialog that blocks it, once what the browser said is heard: a       *)
(* handler, the default policy or a resolution, though it fails, never     *)
(* takes the word of an older dialog for that of the newer one.  Only to   *)
(* resolve the dialog that is open and fail leaves the manager without it; *)
(* and the first session alone has its handlers.                           *)
PendingIsShown == ~rebound /\ ~missed /\ wire = <<>> => pendingDialog = dialog

(* "Return the currently pending JavaScript dialog, or null if none."      *)
OpenIsPending == ~rebound /\ wire = <<>> /\ dialog # Null => pendingDialog = dialog

(* A request of the page is replayed after its permission was decided,     *)
(* when the surface that asked was of this document ("Replay the page-side *)
(* native call now that CDP state is decided"), whatever asks meanwhile.   *)
ReplayIsDecided == ~premature

(* A dialog that blocks the page ends, as long as the client goes on to    *)
(* act on the page, in the first session: the next tool dismisses it,      *)
(* whether its opening was noticed by the call that caused it or not, and  *)
(* the next one again if that fails, but for a dialog that was missed.     *)
DialogEnds == dialog # Null ~> dialog = Null \/ rebound \/ missed

(* The browser answers, and calls go on by themselves.                     *)
Continues(a) ==
    \/ Probe(a) \/ Press(a) \/ Pressed(a) \/ Settle(a) \/ Capture(a)
    \/ SetPermissions(a) \/ Replay(a)

=============================================================================
