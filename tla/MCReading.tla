----------------------------- MODULE MCReading -----------------------------
(***************************************************************************)
(* What a client reads of a page, each part checked alone: a behaviour is  *)
(* one of one part, the variables of the others keep their initial values. *)
(***************************************************************************)
EXTENDS Answers, Queries, Forms, Snapshots

VARIABLE part

-----------------------------------------------------------------------------
(* Snapshots that answers are made of.                                     *)
Plain ==
    [id |-> 0, kind |-> "button", role |-> Null, name |-> "save", counter |-> 0, region |-> "main",
     z |-> 0, ariaModal |-> FALSE, open |-> FALSE, mark |-> Null, wide |-> FALSE, edge |-> FALSE,
     implicit |-> FALSE, closes |-> FALSE, aboveFold |-> FALSE, visible |-> TRUE, enabled |-> TRUE,
     checked |-> FALSE, focused |-> FALSE, value |-> Null]

Save == [Plain EXCEPT !.id = 1, !.focused = TRUE]
Saves == {Save, [Save EXCEPT !.counter = 1], [Save EXCEPT !.focused = FALSE]}
Delete == [Plain EXCEPT !.id = 2, !.name = "delete", !.region = "unknown"]
Delete2 == [Delete EXCEPT !.id = 3]
Deleted == [Delete2 EXCEPT !.counter = 1]
Renamed == [Delete EXCEPT !.counter = 1]
Box == [Plain EXCEPT !.id = 4, !.kind = "checkbox", !.name = "box"]
Card == [Plain EXCEPT !.id = 5, !.kind = "generic", !.implicit = TRUE, !.name = "card"]
Dialog == [Plain EXCEPT !.id = 6, !.kind = "dialog", !.role = "dialog", !.ariaModal = TRUE,
                        !.region = "dialog", !.z = 1000, !.name = "sure"]
Cancel == [Plain EXCEPT !.id = 7, !.name = "cancel", !.region = "dialog", !.z = 1000,
                        !.closes = TRUE, !.enabled = FALSE]
Confirm == [Cancel EXCEPT !.id = 8, !.name = "confirm", !.closes = FALSE, !.enabled = TRUE]
Menu == [Plain EXCEPT !.id = 9, !.kind = "menu", !.role = "menu", !.name = "menu", !.z = 200]
Toast == [Plain EXCEPT !.id = 10, !.kind = "status", !.role = "status", !.name = "saved", !.z = 300]

Overlays == {<<>>, <<Dialog, Cancel, Confirm>>, <<Dialog, Cancel, Menu>>, <<Menu>>}

At(path, bodies) == {[url |-> [path |-> path, query |-> 0], nodes |-> b] : b \in bodies}

MCSnapshots ==
    At("/a", {<<s>> \o o : s \in Saves, o \in Overlays})
        \cup At("/a", {<<Delete, Save>>, <<Delete, Delete2, Save>>, <<Box, Delete, Save>>,
                      <<Save, Card>>, <<Save, Toast>>, <<Delete, Deleted>>, <<Renamed>>})
        \cup At("/b", {<<s>> : s \in Saves} \cup {<<Save, Card>>})

MCTrimLimits ==
    [r \in {"main", "dialog"} |->
        IF r = "dialog" THEN [head |-> 2, tail |-> 0] ELSE [head |-> 1, tail |-> 1]]

-----------------------------------------------------------------------------
(* Pages that are searched, and what is asked of them.                     *)
MCLower(w) == IF w = "Save" THEN "save" ELSE w

MCBeginsWith == {<<"saved", "save">>, <<"saved", "sav">>, <<"save", "sav">>}
MCSimilarity == [p \in {<<"save", "safe">>} |-> 80]

Btn ==
    [id |-> 1, kind |-> "button", role |-> Null, label |-> <<"Save">>, region |-> "main",
     group |-> "bar", heading |-> "edit", inside |-> {}, implicit |-> FALSE,
     state |-> [k \in {"visible", "enabled"} |-> TRUE]]
BtnOff ==
    [Btn EXCEPT !.id = 2, !.label = <<"save", "as">>, !.region = "dialog", !.inside = {6},
                !.state = [k \in {"visible", "enabled"} |-> k = "visible"]]
Lnk == [Btn EXCEPT !.id = 3, !.kind = "link", !.label = <<"save">>, !.region = "unknown",
                   !.group = Null, !.state = <<>>]
Chk == [Btn EXCEPT !.id = 4, !.kind = "checkbox", !.label = <<"Save", "as">>, !.heading = Null,
                   !.state = [k \in {"visible", "enabled", "checked"} |-> k # "visible"]]
Fld == [Btn EXCEPT !.id = 5, !.kind = "input", !.label = <<"name">>, !.group = Null]
Img == [Fld EXCEPT !.id = 8, !.kind = "image", !.label = <<>>]
Dlg == [Btn EXCEPT !.id = 6, !.kind = "dialog", !.role = "dialog", !.label = <<"saved">>,
                   !.region = "dialog", !.group = Null]
Alrt == [Dlg EXCEPT !.id = 7, !.kind = "alert", !.role = "alert", !.region = "main"]

MCPages ==
    {<<Btn, BtnOff, Lnk, Chk>>, <<Btn, BtnOff, Fld, Img, Dlg, Alrt>>,
     <<[Btn EXCEPT !.id = 11], [BtnOff EXCEPT !.id = 12, !.group = Null]>>}

NoLabel ==
    [text |-> <<>>, mode |-> Null, caseSensitive |-> FALSE,
     options |-> [minTokenOverlap |-> 50, prefixMatch |-> TRUE, minSimilarity |-> 80]]

Labels ==
    {NoLabel} \cup {[NoLabel EXCEPT !.text = <<w>>, !.mode = mode] :
                        w \in {"Save", "safe"}, mode \in {"exact", "contains", "fuzzy"}}
      \cup {[NoLabel EXCEPT !.text = <<"save", "as">>, !.mode = "fuzzy",
                            !.options.minTokenOverlap = o, !.options.prefixMatch = FALSE] :
               o \in {50, 100}}

Everything ==
    [given |-> {}, kinds |-> {}, label |-> NoLabel, regions |-> {}, state |-> <<>>,
     group |-> Null, heading |-> Null, minScore |-> 0, sorted |-> FALSE, limit |-> -1,
     suggest |-> TRUE]

(* Those of the tool, without suggestions, and others that the engine      *)
(* accepts.                                                                *)
Clickable == [Everything EXCEPT !.given = {"kind"}, !.kinds = {"button", "link"}]
Contained(words) == [NoLabel EXCEPT !.text = words, !.mode = "contains"]

MCRequests ==
    {[r EXCEPT !.label = l, !.limit = lim, !.sorted = lim > 0] :
        r \in {Everything, Clickable}, l \in Labels, lim \in {-1, 2}}
      \cup {[Everything EXCEPT !.given = {"state"}, !.state = [k \in {"checked"} |-> v],
                               !.heading = h] : v \in BOOLEAN, h \in {Null, "edit"}}
      \cup {[Clickable EXCEPT !.label = Contained(<<"Save">>), !.limit = 2, !.suggest = FALSE],
            [Everything EXCEPT !.minScore = 80],
            [Everything EXCEPT !.label = [Contained(<<"Save">>) EXCEPT !.caseSensitive = TRUE]],
            [Everything EXCEPT !.label = Contained(<<>>), !.limit = 9],
            [Everything EXCEPT !.given = {"kind"}]}

MCObserved ==
    {[tag |-> "div", role |-> "dialog", text |-> <<"saved">>, isDialog |-> TRUE],
     [tag |-> "button", role |-> Null, text |-> <<"save">>, isDialog |-> FALSE],
     [tag |-> "div", role |-> "alert", text |-> <<"saved">>, isDialog |-> FALSE]}

-----------------------------------------------------------------------------
(* Pages with forms.                                                       *)
Empty ==
    [id |-> 0, kind |-> "input", role |-> Null, region |-> "main", group |-> Null,
     heading |-> Null, box |-> [x |-> 0, y |-> 0, w |-> 100, h |-> 20], words |-> {},
     hints |-> {}, labelled |-> TRUE, act |-> "action", submits |-> FALSE, required |-> FALSE,
     starred |-> FALSE, radio |-> Null, value |-> Null, checked |-> FALSE, selected |-> FALSE,
     invalid |-> FALSE, enabled |-> TRUE, visible |-> TRUE, implicit |-> FALSE]

LoginForm == [Empty EXCEPT !.id = 1, !.kind = "form", !.box.h = 200, !.words = {"login"}]
Email == [Empty EXCEPT !.id = 2, !.box.y = 20, !.words = {"email"}, !.required = TRUE]
Tenant == [Empty EXCEPT !.id = 3, !.box.y = 60, !.starred = TRUE, !.enabled = FALSE,
                        !.value = "t"]
Yes == [Empty EXCEPT !.id = 4, !.kind = "radio", !.box.y = 100, !.radio = "r", !.checked = TRUE]
No == [Yes EXCEPT !.id = 5, !.checked = FALSE]
Send == [Empty EXCEPT !.id = 6, !.kind = "button", !.box.y = 200, !.act = "submit"]
Close == [Send EXCEPT !.id = 7, !.act = "cancel", !.box.y = 900]
Country == [Empty EXCEPT !.id = 8, !.kind = "select", !.box.y = 400, !.group = "g"]
Note == [Empty EXCEPT !.id = 9, !.kind = "textarea", !.box.y = 600, !.hints = {"message"}]
Item == [Empty EXCEPT !.id = 10, !.kind = "listitem", !.group = "g", !.box.y = 420]
SearchBox == [LoginForm EXCEPT !.id = 11, !.role = "search", !.kind = "generic",
                               !.words = {"search"}]

MCFormPages ==
    {<<LoginForm, [Email EXCEPT !.value = "e"], Tenant, Send, Close>>,
     <<LoginForm, Email, [Tenant EXCEPT !.enabled = TRUE], [Send EXCEPT !.enabled = FALSE]>>,
     <<SearchBox, LoginForm, [Email EXCEPT !.invalid = TRUE], Send>>,
     <<[Yes EXCEPT !.required = TRUE], No, Country, Item, Note, Send>>}

MCIntents == <<"login", "search", "contact">>

MCKeywordWeight ==
    [i \in {"login", "contact", "search"} |->
        CASE i = "login" -> [k \in {"login", "email"} |-> IF k = "login" THEN 30 ELSE 5]
          [] i = "contact" -> [k \in {"message"} |-> 10]
          [] i = "search" -> [k \in {"search"} |-> 30]]

-----------------------------------------------------------------------------
(* Pages that snapshots are compiled from.                                 *)
El ==
    [tag |-> "DIV", kids |-> <<>>, shadow |-> <<>>, docs |-> <<>>, role |-> "generic",
     domRole |-> Null, name |-> "", text |-> "", disabled |-> FALSE, tabindex |-> FALSE,
     pointer |-> FALSE, listens |-> FALSE, toast |-> FALSE, z |-> 0, visible |-> TRUE,
     frame |-> Null]
ButtonEl == [El EXCEPT !.tag = "BUTTON", !.role = "button", !.name = "go"]
Heading(name) == [El EXCEPT !.tag = "H1", !.role = "heading", !.name = name]
ItemEl == [El EXCEPT !.tag = "LI", !.role = "listitem", !.name = "i"]

(* A heading in a shadow tree, one without a name, one in a frame after a  *)
(* button, and a list whose clicks are taken by an element around it.      *)
Article ==
    [frames |-> [f \in {"main", "child"} |-> "l1"], root |-> 1,
     nodes |-> <<[El EXCEPT !.tag = "BODY", !.role = "main", !.kids = <<2, 13, 4, 6, 9>>],
                 [El EXCEPT !.shadow = <<3>>, !.pointer = TRUE],
                 Heading("top"),
                 [El EXCEPT !.listens = TRUE, !.kids = <<5>>],
                 [El EXCEPT !.tag = "UL", !.role = "list", !.kids = <<10, 11>>],
                 [El EXCEPT !.tag = "IFRAME", !.role = "Iframe", !.frame = "child", !.docs = <<7>>],
                 [El EXCEPT !.tag = "#document", !.role = Null, !.kids = <<12, 8>>],
                 Heading("ad"),
                 [ButtonEl EXCEPT !.disabled = TRUE, !.listens = TRUE],
                 ItemEl, ItemEl, ButtonEl, [Heading("") EXCEPT !.text = "top"]>>]

(* More than fits, options and canvases that the accessibility tree does   *)
(* not list, and an overlay.                                               *)
Shop ==
    [frames |-> [f \in {"main"} |-> "l2"], root |-> 1,
     nodes |-> <<[El EXCEPT !.tag = "BODY", !.role = Null, !.kids = <<2, 4, 5, 6, 9, 10, 7>>],
                 [El EXCEPT !.tag = "SELECT", !.role = "combobox", !.kids = <<3>>],
                 [El EXCEPT !.tag = "OPTION", !.role = Null, !.text = "red", !.visible = FALSE],
                 [El EXCEPT !.tag = "CANVAS", !.role = "canvas", !.tabindex = TRUE],
                 [El EXCEPT !.role = "status", !.text = "sold", !.toast = TRUE],
                 [El EXCEPT !.tag = "UL", !.role = "list"],
                 [ButtonEl EXCEPT !.z = 1000, !.kids = <<8>>],
                 [El EXCEPT !.role = "text", !.name = "go"],
                 [ButtonEl EXCEPT !.name = "buy"], [ButtonEl EXCEPT !.name = "pay"]>>]

MCTrees == {Article, Shop}

-----------------------------------------------------------------------------
vars == <<part, answerVars, queryVars, formVars, snapshotVars>>

Init ==
    /\ part \in {"answers", "queries", "forms", "snapshots"}
    /\ AnswersInit
    /\ QueriesInit
    /\ FormsInit
    /\ SnapshotsInit
    /\ part # "queries" => nodes = CHOOSE p \in Pages : TRUE
    /\ part # "forms" => stored = CHOOSE p \in FormPages : TRUE
    /\ part # "snapshots" => page = Shop

AnswersStep ==
    /\ part = "answers"
    /\ AnswersNext
    /\ UNCHANGED <<part, queryVars, formVars, snapshotVars>>

QueriesStep ==
    /\ part = "queries"
    /\ QueriesNext
    /\ UNCHANGED <<part, answerVars, formVars, snapshotVars>>

FormsStep ==
    /\ part = "forms"
    /\ FormsNext
    /\ UNCHANGED <<part, answerVars, queryVars, snapshotVars>>

SnapshotsStep ==
    /\ part = "snapshots"
    /\ SnapshotsNext
    /\ UNCHANGED <<part, answerVars, queryVars, formVars>>

Next ==
    \/ AnswersStep
    \/ QueriesStep
    \/ FormsStep
    \/ SnapshotsStep

(* A read ends by its timeout, and the call goes on when all have ended.   *)
Fairness ==
    /\ WF_formVars(part = "forms" /\ ReadSingleFieldValue)
    /\ WF_formVars(part = "forms" /\ FinishUnderstanding)

Spec == Init /\ [][Next]_vars /\ Fairness
=============================================================================
