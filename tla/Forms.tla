------------------------------- MODULE Forms -------------------------------
(***************************************************************************)
(* What get_form and get_field say: the forms found in a snapshot, their   *)
(* state after the values were read from the running page, the next step   *)
(* they suggest, and the dependencies learnt from earlier actions.         *)
(* src/src/form/*.ts, src/src/tools/form-tools.ts, effect-tracker.ts.      *)
(*                                                                         *)
(* A node has a box [x, y, w, h], the keywords of its label ("words") and  *)
(* of its placeholder ("hints"), and for a button what its label says it   *)
(* does ("act").  A value is Null or a token.  What the purpose of a field *)
(* is called, and the masking of values, are left out.                     *)
(***************************************************************************)
EXTENDS Layers, Functions

CONSTANTS
    FormPages,       \* sequences of nodes
    Intents,         \* the intents of a form, in the order of INTENT_KEYWORDS
    KeywordWeight,   \* intent -> keyword -> tenths
    ConcurrencyLimit,\* reads at a time
    MaxFieldsToRead,
    Acted,           \* ids of the elements that are acted on
    Fillable,        \* bound: ids of the fields that change on the page
    MaxEffects       \* bound: recorded effects

VARIABLES
    stored,          \* nodes of the stored snapshot
    previous,        \* nodes of the one before it, as the state manager keeps them
    live,            \* the page: id -> it holds a value
    forms,           \* the forms of the call that goes on
    requests,        \* ids of the fields it reads, in order
    permits,         \* permits of its semaphore
    waiting,         \* waitQueue: indices of requests
    reading,         \* indices of the requests under way
    results,         \* index -> "filled" | "empty" | "failed"
    reply,           \* the answer of the last step, with what was read
    dependencies     \* <<source, target, type>> -> observations

formVars == <<stored, previous, live, forms, requests, permits, waiting, reading, results, reply,
              dependencies>>
semaphore == <<permits, waiting, reading>>

NoReply == [forms |-> <<>>, read |-> <<>>, affected |-> {}]

Idle == forms = <<>>

FormsInit ==
    /\ stored \in FormPages
    /\ previous = <<>>
    /\ live = [id \in {stored[i].id : i \in DOMAIN stored} |-> FALSE]
    /\ forms = <<>>
    /\ requests = <<>>
    /\ permits = ConcurrencyLimit
    /\ waiting = <<>>
    /\ reading = {}
    /\ results = <<>>
    /\ reply = NoReply
    /\ dependencies = <<>>

-----------------------------------------------------------------------------
(* Detection.                                                              *)
INPUT_KINDS ==
    {"input", "textarea", "select", "combobox", "checkbox", "radio", "switch", "slider"}

IsInput(n) == n.kind \in INPUT_KINDS
IsSubmitButton(n) == n.kind = "button" /\ (n.act = "submit" \/ n.submits)
IsFormNode(n) == n.kind = "form" \/ n.role \in {"form", "search"}

Same(a, b) == a # Null /\ a = b

Within(a, low, high) == low <= a /\ a <= high

IsNodeWithinForm(n, f) ==
    /\ n.region = f.region
    /\ \/ Same(f.group, n.group)
       \/ Same(f.heading, n.heading)
       \/ /\ Within(n.box.x, f.box.x - 50, f.box.x + f.box.w + 50)
          /\ Within(n.box.y, f.box.y - 50, f.box.y + f.box.h + 50)

Least(S) == CHOOSE x \in S : \A y \in S : x <= y
Greatest(S) == CHOOSE x \in S : \A y \in S : x >= y

ComputeClusterBbox(ns) ==
    LET x == Least({n.box.x : n \in ns})
        y == Least({n.box.y : n \in ns})
    IN  [x |-> x, y |-> y,
         w |-> Greatest({n.box.x + n.box.w : n \in ns}) - x,
         h |-> Greatest({n.box.y + n.box.h : n \in ns}) - y]

IsButtonNearBbox(n, box) ==
    /\ Within(n.box.x, box.x - 100, box.x + box.w + 100)
    /\ Within(n.box.y, box.y - 50, box.y + box.h + 150)

HasSubmitButtonNear(nodes, box) ==
    \E n \in Range(nodes) : IsSubmitButton(n) /\ IsButtonNearBbox(n, box)

(* The first intent of those with the greatest score.                      *)
IntentScore(words, intent) ==
    FoldFunctionOnSet(+, 0, KeywordWeight[intent], words \cap DOMAIN KeywordWeight[intent])

InferIntent(words) ==
    LET best == Greatest({IntentScore(words, Intents[i]) : i \in DOMAIN Intents})
        first == Least({i \in DOMAIN Intents : IntentScore(words, Intents[i]) = best})
    IN  IF best = 0 THEN "unknown" ELSE Intents[first]

WordsOf(fields) == UNION {n.words \cup n.hints : n \in Range(fields)}

FormCandidate(root, fields, words, box) ==
    [root |-> root, fields |-> fields, intent |-> InferIntent(words), box |-> box]

(* Every explicit form is above the least confidence by its tag or role.   *)
ExplicitForms(nodes) ==
    LET roots == SelectSeq(nodes, IsFormNode)
    IN  [i \in DOMAIN roots |->
            LET fields == SelectSeq(nodes, LAMBDA n : IsInput(n) /\ IsNodeWithinForm(n, roots[i]))
            IN  FormCandidate(roots[i].id, fields, roots[i].words \cup WordsOf(fields),
                           roots[i].box)]

(* clusterInputs: by region, and in a region by their vertical distance.   *)
Clusters(inputs) ==
    LET regions == SetToSeq({n.region : n \in Range(inputs)})
        Split(clusters, n) ==
            IF clusters # <<>> /\ n.box.y - (Last(Last(clusters)).box.y + Last(Last(clusters)).box.h)
                                     <= 200
            THEN Append(Front(clusters), Append(Last(clusters), n))
            ELSE Append(clusters, <<n>>)
        InRegion(r) ==
            FoldLeft(Split, <<>>, SortedBy(SelectSeq(inputs, LAMBDA n : n.region = r),
                                           LAMBDA m, n : m.box.y < n.box.y))
    IN  FlattenSeq([i \in DOMAIN regions |-> InRegion(regions[i])])

(* In ten-thousandths.                                                     *)
ClusterConfidence(nodes, cluster) ==
    LET labelled == Len(SelectSeq(cluster, LAMBDA n : n.labelled))
        keywords == \E n \in Range(cluster) : n.words # {}
    IN  (2500 * (IF Len(cluster) < 3 THEN Len(cluster) ELSE 3)) \div 3
            + (2000 * labelled) \div Len(cluster)
            + (IF keywords THEN 1200 ELSE 0)
            + (IF HasSubmitButtonNear(nodes, ComputeClusterBbox(Range(cluster))) THEN 2700 ELSE 0)

ImplicitForms(nodes, claimed) ==
    LET inputs == SelectSeq(nodes, LAMBDA n : IsInput(n) /\ n.id \notin claimed)
        clusters == SelectSeq(Clusters(inputs), LAMBDA c : ClusterConfidence(nodes, c) >= 3000)
    IN  [i \in DOMAIN clusters |->
            FormCandidate(0, clusters[i], WordsOf(clusters[i]),
                       ComputeClusterBbox(Range(clusters[i])))]

-----------------------------------------------------------------------------
(* Fields and actions.                                                     *)
SameRadioGroup(a, b) ==
    /\ a.region = b.region
    /\ IF a.radio # Null /\ b.radio # Null THEN a.radio = b.radio
       ELSE a.heading = b.heading \/ a.group = b.group

OptionOf(n, selected) == [id |-> n.id, selected |-> selected, disabled |-> ~n.enabled]

ExtractOptions(n, nodes) ==
    LET radios == {m \in Range(nodes) : m.kind = "radio" /\ SameRadioGroup(n, m)}
        items == {m \in Range(nodes) : /\ m.kind \in {"listitem", "menuitem"}
                                       /\ Same(n.group, m.group)}
    IN  CASE n.kind = "radio" -> {OptionOf(m, m.checked) : m \in radios}
          [] n.kind \in {"combobox", "select"} /\ items # {} ->
                {OptionOf(m, m.selected) : m \in items}
          [] n.kind \in {"combobox", "select"} /\ items = {} /\ n.value # Null ->
                {OptionOf(n, TRUE)}
          [] OTHER -> {}

(* resolveFormEids: an element the registry knows goes by its eid.         *)
NodeId(id) == <<"node", id>>
EidOf(n) == IF IsTracked(n) THEN <<"eid", n.id>> ELSE NodeId(n.id)

ExtractField(n, nodes) ==
    [id |-> n.id, eid |-> EidOf(n), required |-> n.required \/ n.starred,
     options |-> ExtractOptions(n, nodes), filled |-> n.value # Null \/ n.checked,
     valid |-> ~n.invalid, enabled |-> n.enabled, dependsOn |-> {}]

FormActions(nodes, box) ==
    LET near == SelectSeq(nodes, LAMBDA n : n.kind = "button" /\ IsButtonNearBbox(n, box))
    IN  [i \in DOMAIN near |->
            [id |-> near[i].id, enabled |-> near[i].enabled,
             type |-> IF IsSubmitButton(near[i]) THEN "submit" ELSE near[i].act]]

(* computeFormState.                                                       *)
CanSubmit(fields) ==
    LET required == {f \in Range(fields) : f.required}
    IN  /\ \A f \in Range(fields) : f.valid
        /\ IF required # {} THEN \A f \in required : f.filled
           ELSE fields = <<>> \/ \E f \in Range(fields) : f.filled

CompletionPct(fields) ==
    LET required == SelectSeq(fields, LAMBDA f : f.required)
        counted == IF required # <<>> THEN required ELSE fields
    IN  IF counted = <<>> THEN 100
        ELSE (100 * Len(SelectSeq(counted, LAMBDA f : f.filled))) \div Len(counted)

ComputeFormState(fields) ==
    [canSubmit |-> CanSubmit(fields), completion |-> CompletionPct(fields)]

BuildFormRegion(candidate, nodes, index) ==
    LET fields == [i \in DOMAIN candidate.fields |-> ExtractField(candidate.fields[i], nodes)]
    IN  [formId |-> <<candidate.intent, candidate.root,
                      IF candidate.root = 0 THEN index ELSE 0, Len(fields)>>,
         fields |-> fields,
         actions |-> FormActions(nodes, candidate.box),
         state |-> ComputeFormState(fields)]

DetectForms(nodes) ==
    LET explicit == ExplicitForms(nodes)
        claimed == {n.id : n \in UNION {Range(explicit[i].fields) : i \in DOMAIN explicit}}
        candidates == explicit \o ImplicitForms(nodes, claimed)
    IN  [i \in DOMAIN candidates |-> BuildFormRegion(candidates[i], nodes, i)]

DetectedForms == [nodes \in FormPages |-> DetectForms(nodes)]

(* suggestNextAction.                                                      *)
Nothing == [id |-> 0, reason |-> Null]

FirstIn(q, Test(_), reason) ==
    LET those == {i \in DOMAIN q : Test(q[i])}
    IN  IF those = {} THEN Nothing ELSE [id |-> q[Least(those)].id, reason |-> reason]

SuggestNextAction(form) ==
    LET required == FirstIn(form.fields, LAMBDA f : f.required /\ ~f.filled /\ f.enabled, "required")
        optional == FirstIn(form.fields, LAMBDA f : ~f.filled /\ f.enabled, "optional")
        submit == FirstIn(form.actions, LAMBDA a : a.type = "submit" /\ a.enabled, "submit")
    IN  CASE required # Nothing -> required
          [] required = Nothing /\ optional # Nothing -> optional
          [] OTHER -> IF form.state.canSubmit THEN submit ELSE Nothing

-----------------------------------------------------------------------------
(* getFormUnderstanding up to its await: all reads are begun at once, the  *)
(* semaphore lets the first of them go.                                    *)
BeginUnderstanding ==
    /\ Idle
    /\ DetectedForms[stored] # <<>>
    /\ forms' = DetectedForms[stored]
    /\ \E ids \in {FlattenSeq([i \in DOMAIN forms' |->
                        [j \in DOMAIN forms'[i].fields |-> forms'[i].fields[j].id]])} :
           requests' = SubSeq(ids, 1, IF Len(ids) < MaxFieldsToRead THEN Len(ids)
                                      ELSE MaxFieldsToRead)
    /\ reading' = {i \in DOMAIN requests' : i <= ConcurrencyLimit}
    /\ permits' = ConcurrencyLimit - Cardinality(reading')
    /\ waiting' = [i \in 1 .. Len(requests') - Cardinality(reading') |-> i + Cardinality(reading')]
    /\ results' = <<>>
    /\ reply' = NoReply
    /\ UNCHANGED <<stored, previous, live, dependencies>>

(* Semaphore.release, when the read of index i is over.                    *)
Release_NoWake(i) ==
    /\ permits' = permits + 1
    /\ reading' = reading \ {i}
    /\ UNCHANGED waiting

Release(i) ==
    IF waiting = <<>>
    THEN /\ permits' = permits + 1
         /\ reading' = reading \ {i}
         /\ UNCHANGED waiting
    ELSE /\ reading' = (reading \ {i}) \cup {Head(waiting)}
         /\ waiting' = Tail(waiting)
         /\ UNCHANGED permits

(* A value is read, or the read fails or takes longer than the timeout.    *)
ReadSingleFieldValue ==
    \E i \in reading, r \in {"filled", "empty", "failed"} :
        /\ r # "failed" => requests[i] \in DOMAIN live /\ live[requests[i]] = (r = "filled")
        /\ results' = [j \in DOMAIN results \cup {i} |-> IF j = i THEN r ELSE results[j]]
        /\ Release(i)
        /\ UNCHANGED <<stored, previous, live, forms, requests, reply, dependencies>>

(* The last result of an id counts, one that failed as well.               *)
RuntimeValue(id) ==
    LET those == {i \in DOMAIN results : requests[i] = id}
    IN  IF those = {} THEN "failed" ELSE results[Greatest(those)]

MinConfidence == 30
Confidence(type, observations) ==
    LET boost == IF type = "reveals" THEN 10 ELSE 15
        score == 30 + (50 * (IF observations < 3 THEN observations ELSE 3)) \div 3 + boost
    IN  IF score < 100 THEN score ELSE 100

DependenciesFor(eid) ==
    {d \in DOMAIN dependencies : d[2] = eid /\ Confidence(d[3], dependencies[d]) >= MinConfidence}

Enriched(field) ==
    [field EXCEPT !.filled = IF RuntimeValue(field.id) = "failed" THEN field.filled
                             ELSE RuntimeValue(field.id) = "filled",
                  !.dependsOn = {d[1] : d \in DependenciesFor(field.eid)}]

Understood_Stale(form) ==
    [form EXCEPT !.fields = [i \in DOMAIN @ |-> Enriched(@[i])]]

Understood(form) ==
    LET fields == [i \in DOMAIN form.fields |-> Enriched(form.fields[i])]
    IN  [form EXCEPT !.fields = fields, !.state = ComputeFormState(fields)]

(* history: the fields something was learnt of                             *)
Affected == {id \in DOMAIN live : \E d \in DOMAIN dependencies : d[2] = NodeId(id)}

Answered(form) == [form |-> form, next |-> SuggestNextAction(form)]

(* The rest of it, when all reads are over.                                *)
FinishUnderstanding ==
    /\ ~Idle
    /\ reading = {}
    /\ waiting = <<>>
    /\ reply' = [forms |-> [i \in DOMAIN forms |-> Answered(Understood(forms[i]))],
                 read |-> [id \in Range(requests) |-> RuntimeValue(id)],
                 affected |-> Affected]
    /\ forms' = <<>>
    /\ requests' = <<>>
    /\ results' = <<>>
    /\ UNCHANGED <<stored, previous, live, permits, waiting, reading, dependencies>>

(* getFieldContext reads nothing from the page.                            *)
InContext(form, f) ==
    [form EXCEPT !.fields = [j \in DOMAIN @ |->
        IF @[j].eid = f.eid
        THEN [@[j] EXCEPT !.dependsOn = {d[1] : d \in DependenciesFor(f.eid)}]
        ELSE @[j]]]

GetFieldContext ==
    /\ Idle
    /\ \E form \in Range(DetectedForms[stored]) : \E f \in Range(form.fields) :
           reply' = [forms |-> <<Answered(InContext(form, f))>>, read |-> <<>>,
                     affected |-> Affected]
    /\ UNCHANGED <<stored, previous, live, forms, requests, semaphore, results, dependencies>>

-----------------------------------------------------------------------------
(* computeObservedEffect and recordEffect: elements go by their node ids.  *)
In(nodes, id) == \E n \in Range(nodes) : n.id = id
NodeOf(nodes, id) == CHOOSE n \in Range(nodes) : n.id = id
IdsOf(nodes) == {n.id : n \in Range(nodes)}
EnabledIn(nodes) == {n.id : n \in {n \in Range(nodes) : n.enabled}}
VisibleIn(nodes) == {n.id : n \in {n \in Range(nodes) : n.visible}}

ValueChanges(prev, curr, trigger) ==
    {id \in IdsOf(curr) \ {trigger} :
        /\ NodeOf(curr, id).value # Null
        /\ In(prev, id) => NodeOf(prev, id).value # NodeOf(curr, id).value}

ObservedEffect(prev, curr, trigger) ==
    LET enables == (EnabledIn(curr) \ EnabledIn(prev))
                       \cup ((EnabledIn(prev) \ EnabledIn(curr)) \cap IdsOf(curr))
        reveals == (VisibleIn(curr) \ VisibleIn(prev)) \cup (VisibleIn(prev) \ VisibleIn(curr))
    IN  {<<NodeId(trigger), NodeId(id), "enables">> : id \in enables}
        \cup {<<NodeId(trigger), NodeId(id), "reveals">> : id \in reveals}
        \cup {<<NodeId(trigger), NodeId(id), "populates">> :
                 id \in ValueChanges(prev, curr, trigger)}

(* An action on an element, after which the snapshot is another one.  What *)
(* it did is told by the snapshot before the last, if there is one.        *)
RecordEffect ==
    \E curr \in FormPages, trigger \in Acted \cap IdsOf(stored) :
        LET seen == IF previous = <<>> THEN {} ELSE ObservedEffect(previous, curr, trigger)
        IN  /\ FoldFunction(+, 0, dependencies) < MaxEffects
            /\ stored' = curr
            /\ previous' = stored
            /\ live' = [id \in IdsOf(curr) |-> FALSE]
            /\ dependencies' = [d \in DOMAIN dependencies \cup seen |->
                                   (IF d \in DOMAIN dependencies THEN dependencies[d] ELSE 0)
                                       + (IF d \in seen THEN 1 ELSE 0)]
            /\ reply' = NoReply
            /\ UNCHANGED <<forms, requests, semaphore, results>>

(* The action navigates: clearPage.                                        *)
ClearPage ==
    /\ dependencies # <<>>
    /\ dependencies' = <<>>
    /\ reply' = NoReply
    /\ UNCHANGED <<stored, previous, live, forms, requests, semaphore, results>>

(* A person or a script fills a field or empties it.                       *)
PageFills ==
    \E id \in Fillable \cap DOMAIN live :
        /\ live' = [live EXCEPT ![id] = ~@]
        /\ reply' = NoReply
        /\ UNCHANGED <<stored, previous, forms, requests, semaphore, results, dependencies>>

FormsNext ==
    \/ BeginUnderstanding
    \/ ReadSingleFieldValue
    \/ FinishUnderstanding
    \/ GetFieldContext
    \/ RecordEffect
    \/ ClearPage
    \/ PageFills

-----------------------------------------------------------------------------
(* "Form ready to submit": each field that is required, or can be filled,  *)
(* held a value when it was read from the page, and none is invalid.  The  *)
(* form and its state are computed before the reads.                       *)
ReadyFormIsFilled ==
    \A i \in DOMAIN reply.forms :
        reply.forms[i].next.reason = "submit" =>
            \A f \in Range(reply.forms[i].form.fields) :
                /\ f.valid
                /\ (f.required \/ f.enabled) /\ f.id \in DOMAIN reply.read
                    => reply.read[f.id] \in {"filled", "failed"}

(* get_form answers: no read waits for ever for a permit.                  *)
FormIsAnswered == []<>Idle

(* "field dependencies": what an action was seen to enable, reveal or fill *)
(* is reported with the field it happened to.                              *)
DependenciesAreReported ==
    \A i \in DOMAIN reply.forms : \A f \in Range(reply.forms[i].form.fields) :
        f.id \in reply.affected => f.dependsOn # {}

=============================================================================
