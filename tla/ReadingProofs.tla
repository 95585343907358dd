--------------------------- MODULE ReadingProofs ---------------------------
(***************************************************************************)
(* Proofs about what a client reads of a page, for any snapshots, pages    *)
(* with forms, requests and limits: that a form which is said to be ready  *)
(* was filled, that the diffs between snapshots add up, and that suggested *)
(* refinements find what they promise. They are stated of the              *)
(* specification that composes the parts, as the run checks it; a step of  *)
(* one part changes no variable of another.                                *)
(***************************************************************************)
EXTENDS MCReading, FiniteSetTheorems, SequenceTheorems, WellFoundedInduction, TLAPS

-----------------------------------------------------------------------------

(* Forms. The forms are computed before their fields are read, and are     *)
(* held across the reads while snapshots and dependencies change.          *)

(* A field with what ExtractField says of it, and a form of such fields.   *)
IsField(f) ==
    f = [id |-> f.id, eid |-> f.eid, required |-> f.required, options |-> f.options,
         filled |-> f.filled, valid |-> f.valid, enabled |-> f.enabled,
         dependsOn |-> f.dependsOn]

(* A form as it was detected: of such fields, and submittable only if all  *)
(* are valid.                                                              *)
IsForm(form) ==
    /\ form = [formId |-> form.formId, fields |-> form.fields, actions |-> form.actions,
               state |-> form.state]
    /\ form.fields = [j \in DOMAIN form.fields |-> form.fields[j]]
    /\ \A j \in DOMAIN form.fields : IsField(form.fields[j])
    /\ form.state.canSubmit => \A f \in Range(form.fields) : f.valid

(* A form whose next step is to submit can be submitted, and has no field  *)
(* that waits to be filled.                                                *)
LEMMA Ready ==
    ASSUME NEW form, SuggestNextAction(form).reason = "submit"
    PROVE  /\ form.state.canSubmit
           /\ \A f \in Range(form.fields) : f.enabled => f.filled
BY DEF SuggestNextAction, FirstIn, Nothing, Range, Null

(* What a form that can be submitted says of its fields.                   *)
LEMMA Submittable ==
    ASSUME NEW fields, ComputeFormState(fields).canSubmit
    PROVE  \A f \in Range(fields) : f.valid /\ (f.required => f.filled)
BY DEF ComputeFormState, CanSubmit

(* The forms that are detected are such forms.                             *)
LEMMA Detected ==
    ASSUME NEW nodes_ \in FormPages, NEW i \in DOMAIN DetectedForms[nodes_]
    PROVE  IsForm(DetectedForms[nodes_][i])
<1> DEFINE all == DetectForms(nodes_)
<1>1. DetectedForms[nodes_] = all
    BY DEF DetectedForms
<1>2. PICK n, candidate : all[i] = BuildFormRegion(candidate, n, i)
    BY <1>1 DEF DetectForms
<1>3. IsForm(BuildFormRegion(candidate, n, i))
    <2> DEFINE fields == [j \in DOMAIN candidate.fields |-> ExtractField(candidate.fields[j], n)]
    <2>1. \A j \in DOMAIN fields : IsField(fields[j])
        BY DEF ExtractField, IsField
    <2>2. ComputeFormState(fields).canSubmit => \A f \in Range(fields) : f.valid
        BY Submittable
    <2>3. BuildFormRegion(candidate, n, i).fields = fields
        BY DEF BuildFormRegion
    <2> QED
        BY <2>1, <2>2, <2>3 DEF BuildFormRegion, IsForm
<1> QED
    BY <1>1, <1>2, <1>3

(* The value that was read counts for filled, unless the read has failed.  *)
LEMMA EnrichedField ==
    ASSUME NEW f, IsField(f)
    PROVE  LET e == Enriched(f)
           IN  /\ e.id = f.id /\ e.valid = f.valid
               /\ e.required = f.required /\ e.enabled = f.enabled
               /\ e.filled => RuntimeValue(f.id) \in {"filled", "failed"}
<1> DEFINE filled == IF RuntimeValue(f.id) = "failed" THEN f.filled
                     ELSE RuntimeValue(f.id) = "filled"
           others == {d[1] : d \in DependenciesFor(f.eid)}
<1>1. Enriched(f) = [f EXCEPT !.filled = filled, !.dependsOn = others]
    BY DEF Enriched
<1>2. filled => RuntimeValue(f.id) \in {"filled", "failed"}
    OBVIOUS
<1> HIDE DEF filled, others
<1>3. /\ Enriched(f).id = f.id /\ Enriched(f).valid = f.valid
      /\ Enriched(f).required = f.required /\ Enriched(f).enabled = f.enabled
      /\ Enriched(f).filled = filled
    BY <1>1 DEF IsField
<1> QED
    BY <1>2, <1>3

(* The fields are enriched, and the state is computed of these.            *)
LEMMA UnderstoodForm ==
    ASSUME NEW form, IsForm(form)
    PROVE  LET fields == [j \in DOMAIN form.fields |-> Enriched(form.fields[j])]
           IN  /\ Understood(form).fields = fields
               /\ Understood(form).state = ComputeFormState(fields)
<1> DEFINE fields == [j \in DOMAIN form.fields |-> Enriched(form.fields[j])]
           state == ComputeFormState(fields)
<1>1. Understood(form) = [form EXCEPT !.fields = fields, !.state = state]
    BY DEF Understood
<1> HIDE DEF fields, state
<1>2. Understood(form).fields = fields /\ Understood(form).state = state
    BY <1>1 DEF IsForm
<1> QED
    BY <1>2 DEF fields, state

(* So the fields of a form that is ready were filled when they were read.  *)
LEMMA UnderstoodIsFilled ==
    ASSUME NEW form, IsForm(form), SuggestNextAction(Understood(form)).reason = "submit",
           NEW f \in Range(Understood(form).fields)
    PROVE  /\ f.valid
           /\ f.required \/ f.enabled => RuntimeValue(f.id) \in {"filled", "failed"}
<1> DEFINE fields == [j \in DOMAIN form.fields |-> Enriched(form.fields[j])]
<1>1. Understood(form).fields = fields /\ Understood(form).state = ComputeFormState(fields)
    BY UnderstoodForm
<1>2. PICK j \in DOMAIN form.fields : f = Enriched(form.fields[j])
    BY <1>1 DEF Range
<1>3. /\ f.id = form.fields[j].id
      /\ f.filled => RuntimeValue(f.id) \in {"filled", "failed"}
    BY <1>2, EnrichedField DEF IsForm
<1>4. f.enabled => f.filled
    BY Ready
<1>5. f.valid /\ (f.required => f.filled)
    BY <1>1, Ready, Submittable
<1> QED
    BY <1>3, <1>4, <1>5

-----------------------------------------------------------------------------

(* The invariant: the forms that a call holds across its reads, and the    *)
(* answer.                                                                 *)
FormsInv ==
    /\ stored \in FormPages
    /\ \A i \in DOMAIN forms : IsForm(forms[i])
    /\ ReadyFormIsFilled

(* The forms that are taken were detected in the snapshot.                 *)
LEMMA BeginInv == FormsInv /\ BeginUnderstanding => FormsInv'
<1> SUFFICES ASSUME FormsInv, BeginUnderstanding PROVE FormsInv'
    OBVIOUS
<1>1. stored' \in FormPages /\ reply' = NoReply /\ forms' = DetectedForms[stored]
    BY DEF FormsInv, BeginUnderstanding
<1>2. \A i \in DOMAIN forms' : IsForm(forms'[i])
    BY <1>1, Detected DEF FormsInv
<1>3. (\A i \in DOMAIN forms : IsForm(forms[i]))'
    BY <1>2 DEF IsForm, IsField
<1>4. ReadyFormIsFilled'
    BY <1>1 DEF NoReply, ReadyFormIsFilled
<1> QED
    BY <1>1, <1>3, <1>4 DEF FormsInv

(* The forms are answered, as they were understood.                        *)
LEMMA FinishInv == FormsInv /\ FinishUnderstanding => FormsInv'
<1> SUFFICES ASSUME FormsInv, FinishUnderstanding PROVE FormsInv'
    OBVIOUS
<1> DEFINE replies == [i \in DOMAIN forms |-> Answered(Understood(forms[i]))]
           read == [id \in Range(requests) |-> RuntimeValue(id)]
<1>1. stored' \in FormPages /\ forms' = <<>>
    BY DEF FormsInv, FinishUnderstanding
<1>2. reply'.forms = replies /\ reply'.read = read
    BY DEF FinishUnderstanding
<1>3. ASSUME NEW i \in DOMAIN replies, replies[i].next.reason = "submit",
             NEW f \in Range(replies[i].form.fields)
      PROVE  /\ f.valid
             /\ (f.required \/ f.enabled) /\ f.id \in DOMAIN read
                    => read[f.id] \in {"filled", "failed"}
    <2>1. /\ replies[i].form = Understood(forms[i])
          /\ replies[i].next = SuggestNextAction(Understood(forms[i]))
        BY DEF Answered
    <2>2. IsForm(forms[i])
        BY DEF FormsInv
    <2>3. /\ f.valid
          /\ f.required \/ f.enabled => RuntimeValue(f.id) \in {"filled", "failed"}
        BY <1>3, <2>1, <2>2, UnderstoodIsFilled
    <2> QED
        BY <2>3
<1>4. ReadyFormIsFilled'
    <2> HIDE DEF replies, read
    <2> QED
        BY <1>2, <1>3 DEF ReadyFormIsFilled, Range
<1>5. (\A i \in DOMAIN forms : IsForm(forms[i]))'
    BY <1>1
<1> QED
    BY <1>1, <1>4, <1>5 DEF FormsInv

(* The answer of get_field: what it changes of the form is what its field  *)
(* depends on.                                                             *)
LEMMA ContextInv == FormsInv /\ GetFieldContext => FormsInv'
<1> SUFFICES ASSUME FormsInv, GetFieldContext PROVE FormsInv'
    OBVIOUS
<1>1. stored' = stored /\ forms' = forms
    BY DEF GetFieldContext
<1>2. \E form \in Range(DetectedForms[stored]) : \E f \in Range(form.fields) :
          reply' = [forms |-> <<Answered(InContext(form, f))>>, read |-> <<>>,
                    affected |-> Affected]
    BY DEF GetFieldContext
<1>a. PICK form \in Range(DetectedForms[stored]) : \E f \in Range(form.fields) :
          reply' = [forms |-> <<Answered(InContext(form, f))>>, read |-> <<>>,
                    affected |-> Affected]
    BY <1>2
<1>b. PICK f \in Range(form.fields) :
          reply' = [forms |-> <<Answered(InContext(form, f))>>, read |-> <<>>,
                    affected |-> Affected]
    BY <1>a
<1> DEFINE others == {d[1] : d \in DependenciesFor(f.eid)}
           fields == [j \in DOMAIN form.fields |->
                         IF form.fields[j].eid = f.eid
                         THEN [form.fields[j] EXCEPT !.dependsOn = others] ELSE form.fields[j]]
           told == [form EXCEPT !.fields = fields]
<1>3. IsForm(form)
    BY Detected DEF FormsInv, Range
<1>4. reply'.forms = <<Answered(told)>> /\ reply'.read = <<>>
    BY <1>b DEF InContext
<1>5. \A j \in DOMAIN form.fields : fields[j].valid = form.fields[j].valid
    BY <1>3 DEF IsForm, IsField
<1>6. DOMAIN fields = DOMAIN form.fields
    OBVIOUS
<1>7. told.fields = fields /\ told.state = form.state
    <2> HIDE DEF fields
    <2> QED
        BY <1>3 DEF IsForm
<1>8. ASSUME told.state.canSubmit, NEW g \in Range(told.fields) PROVE g.valid
    <2> HIDE DEF fields, told
    <2> QED
        BY <1>3, <1>5, <1>6, <1>7, <1>8 DEF IsForm, Range
<1>9. SuggestNextAction(told).reason = "submit" => \A g \in Range(told.fields) : g.valid
    <2> HIDE DEF told
    <2> QED
        BY <1>8, Ready
<1>10. ReadyFormIsFilled'
    <2> HIDE DEF told
    <2> QED
        BY <1>4, <1>9 DEF ReadyFormIsFilled, Answered
<1> QED
    BY <1>1, <1>10 DEF FormsInv

(* Every step keeps the invariant.                                         *)
LEMMA FormsStepInv == FormsInv /\ [FormsNext]_formVars => FormsInv'
<1> SUFFICES ASSUME FormsInv, [FormsNext]_formVars PROVE FormsInv'
    OBVIOUS
<1>1. CASE BeginUnderstanding
    BY <1>1, BeginInv
<1>2. CASE ReadSingleFieldValue
    BY <1>2 DEF ReadSingleFieldValue, FormsInv, ReadyFormIsFilled
<1>3. CASE FinishUnderstanding
    BY <1>3, FinishInv
<1>4. CASE GetFieldContext
    BY <1>4, ContextInv
<1>5. CASE RecordEffect
    <2>1. stored' \in FormPages /\ reply' = NoReply /\ forms' = forms
        BY <1>5 DEF RecordEffect
    <2> QED
        BY <2>1 DEF FormsInv, ReadyFormIsFilled, NoReply
<1>6. CASE ClearPage
    BY <1>6 DEF ClearPage, FormsInv, ReadyFormIsFilled, NoReply
<1>7. CASE PageFills
    BY <1>7 DEF PageFills, FormsInv, ReadyFormIsFilled, NoReply
<1>8. CASE UNCHANGED formVars
    BY <1>8 DEF formVars, FormsInv, ReadyFormIsFilled
<1> QED
    BY <1>1, <1>2, <1>3, <1>4, <1>5, <1>6, <1>7, <1>8 DEF FormsNext

(* A form that is said to be ready to submit was filled when it was read   *)
(* from the page, and none of its fields is invalid: ReadyFormIsFilled,    *)
(* for any pages, fields and limits.                                       *)
THEOREM ReadyIsFilled == Spec => []ReadyFormIsFilled
<1>1. Init => FormsInv
    BY DEF Init, FormsInit, FormsInv, ReadyFormIsFilled, NoReply
<1>2. FormsInv /\ [Next]_vars => FormsInv'
    BY FormsStepInv DEF Next, vars, AnswersStep, QueriesStep, FormsStep, SnapshotsStep
<1>3. FormsInv => ReadyFormIsFilled
    BY DEF FormsInv
<1> QED
    BY <1>1, <1>2, <1>3, PTL DEF Spec

-----------------------------------------------------------------------------

(* Answers. A client may rely on what it was shown of an element until the *)
(* element is named as changed: the eid of an item is then that of one     *)
(* node, and a node the diff does not name looks as it did.                *)

(* The sets that lie below the elements of a finite total order have 1, 2, *)
(* ... elements, up to all of them: each rank is taken.                    *)
LEMMA Ranks ==
    ASSUME NEW P, IsFiniteSet(P), NEW below \in [P -> SUBSET P],
           \A i \in P : i \in below[i],
           \A i, j \in P : i \in below[j] \/ j \in below[i],
           \A i, j \in P : i \in below[j] => below[i] \subseteq below[j],
           \A i, j \in P : i \in below[j] /\ j \in below[i] => i = j,
           NEW k \in 1 .. Cardinality(P)
    PROVE  \E i \in P : Cardinality(below[i]) = k
<1> DEFINE rank == [i \in P |-> Cardinality(below[i])]
           N == 1 .. Cardinality(P)
<1>1. Cardinality(P) \in Nat
    BY FS_CardinalityType
<1>2. ASSUME NEW i \in P PROVE IsFiniteSet(below[i]) /\ rank[i] \in N
    <2>1. below[i] \in SUBSET P /\ i \in below[i]
        OBVIOUS
    <2>2. IsFiniteSet(below[i]) /\ Cardinality(below[i]) <= Cardinality(P)
        BY <2>1, FS_Subset
    <2>3. Cardinality(below[i]) \in Nat /\ Cardinality(below[i]) # 0
        BY <2>1, <2>2, FS_CardinalityType, FS_EmptySet
    <2> QED
        BY <1>1, <2>2, <2>3
<1>3. ASSUME NEW i \in P, NEW j \in P, rank[i] = rank[j], i \in below[j]
      PROVE  i = j
    <2>1. below[i] \in SUBSET below[j]
        BY <1>3
    <2>2. below[i] = below[j]
        BY <1>2, <1>3, <2>1, FS_Subset
    <2> QED
        BY <1>3, <2>2
<1>4. \A i, j \in P : rank[i] = rank[j] => i = j
    BY <1>3
<1>5. IsFiniteSet(N) /\ Cardinality(N) = Cardinality(P)
    BY <1>1, FS_Interval
<1>6. rank \in Injection(P, N)
    <2>1. rank \in [P -> N]
        BY <1>2
    <2> HIDE DEF rank, N
    <2> QED
        BY <1>4, <2>1 DEF Injection, IsInjective
<1>7. rank \in Surjection(P, N)
    <2> HIDE DEF rank, N
    <2> QED
        BY <1>5, <1>6, FS_Injection
<1>8. k \in N
    OBVIOUS
<1>9. \E i \in P : rank[i] = k
    <2> HIDE DEF rank, N
    <2> QED
        BY <1>7, <1>8 DEF Surjection
<1> QED
    BY <1>9

(* The elements that are chosen of a sequence are a sequence of them.      *)
LEMMA ChosenIs ==
    ASSUME NEW X, NEW q \in Seq(X), NEW S
    PROVE  Chosen(q, S) \in Seq(Range(q) \cap S)
<1> DEFINE at == {i \in DOMAIN q : q[i] \in S}
           below == [i \in at |-> {j \in at : j <= i}]
           Nth(k) == CHOOSE i \in at : Cardinality({j \in at : j <= i}) = k
<1>1. at \in SUBSET (1 .. Len(q)) /\ Len(q) \in Nat
    OBVIOUS
<1>2. IsFiniteSet(at)
    BY <1>1, FS_Interval, FS_Subset
<1>3. Cardinality(at) \in Nat
    BY <1>2, FS_CardinalityType
<1>4. ASSUME NEW k \in 1 .. Cardinality(at) PROVE Nth(k) \in at
    <2>1. \E i \in at : Cardinality(below[i]) = k
        <3>1. below \in [at -> SUBSET at]
            OBVIOUS
        <3>2. /\ \A i \in at : i \in below[i]
              /\ \A i, j \in at : i \in below[j] \/ j \in below[i]
              /\ \A i, j \in at : i \in below[j] => below[i] \subseteq below[j]
              /\ \A i, j \in at : i \in below[j] /\ j \in below[i] => i = j
            <4> HIDE DEF at
            <4>1. \A i \in at : i \in Int
                BY <1>1
            <4> QED
                BY <4>1
        <3> HIDE DEF at, below
        <3> QED
            BY <1>2, <3>1, <3>2, Ranks
    <2>2. \E i \in at : Cardinality({j \in at : j <= i}) = k
        BY <2>1
    <2> HIDE DEF at
    <2> QED
        BY <2>2
<1>5. Chosen(q, S) = [k \in 1 .. Cardinality(at) |-> q[Nth(k)]]
    BY DEF Chosen
<1>6. \A i \in at : q[i] \in Range(q) \cap S
    BY DEF Range
<1> HIDE DEF at, Nth
<1> QED
    BY <1>3, <1>4, <1>5, <1>6, IsASeq

(* Scores are integers.                                                    *)
LEMMA ScoreIsInt == ASSUME NEW n PROVE ScoreActionable(n) \in Int
<1> DEFINE weight == RoleWeight(n.kind)
           enabled == Points(n.enabled, 20)
           inMain == Points(n.region = "main", 15)
           inDialog == Points(n.region = "dialog", 20)
           above == Points(n.aboveFold, 10)
           named == Points(n.name # "", 15)
           focused == Points(n.focused, 20)
           score == 50 + weight + enabled + inMain + inDialog + above + named + focused
<1>1. weight \in Int
    BY DEF RoleWeight
<1>2. /\ enabled \in Int /\ inMain \in Int /\ inDialog \in Int
      /\ above \in Int /\ named \in Int /\ focused \in Int
    BY DEF Points
<1>3. ScoreActionable(n) = IF score > 100 THEN 100 ELSE score
    BY DEF ScoreActionable
<1> HIDE DEF weight, enabled, inMain, inDialog, above, named, focused
<1> QED
    BY <1>1, <1>2, <1>3

(* The elements that are sorted by their score are those of the sequence:  *)
(* every place is taken, by the ranks of the scores.                       *)
LEMMA SortedIs ==
    ASSUME NEW X, NEW q \in Seq(X)
    PROVE  SortedBy(q, LAMBDA m, n : ScoreActionable(m) > ScoreActionable(n)) \in Seq(Range(q))
<1> DEFINE D == DOMAIN q
           below == [i \in D |->
                        {j \in D : \/ ScoreActionable(q[j]) > ScoreActionable(q[i])
                                   \/ ~(ScoreActionable(q[i]) > ScoreActionable(q[j])) /\ j <= i}]
           Nth(k) == CHOOSE i \in D : Cardinality(below[i]) = k
           sorted == SortedBy(q, LAMBDA m, n : ScoreActionable(m) > ScoreActionable(n))
<1>1. D = 1 .. Len(q) /\ Len(q) \in Nat
    OBVIOUS
<1>2. IsFiniteSet(D) /\ Cardinality(D) = Len(q)
    BY <1>1, FS_Interval
<1>3. \A i \in D : ScoreActionable(q[i]) \in Int /\ i \in Int
    BY <1>1, ScoreIsInt
<1>4. ASSUME NEW k \in D PROVE Nth(k) \in D
    <2>1. below \in [D -> SUBSET D]
        OBVIOUS
    <2>2. /\ \A i \in D : i \in below[i]
          /\ \A i, j \in D : i \in below[j] \/ j \in below[i]
          /\ \A i, j \in D : i \in below[j] => below[i] \subseteq below[j]
          /\ \A i, j \in D : i \in below[j] /\ j \in below[i] => i = j
        <3> HIDE DEF D
        <3> QED
            BY <1>3
    <2>3. \E i \in D : Cardinality(below[i]) = k
        <3>1. k \in 1 .. Cardinality(D)
            BY <1>1, <1>2
        <3> HIDE DEF D, below
        <3> QED
            BY <1>2, <2>1, <2>2, <3>1, Ranks
    <2> HIDE DEF D, below
    <2> QED
        BY <2>3
<1>5. sorted = [k \in D |-> q[Nth(k)]]
    <2> DEFINE place == [i \in D |->
                   Cardinality({j \in D :
                       \/ ScoreActionable(q[j]) > ScoreActionable(q[i])
                       \/ ~(ScoreActionable(q[i]) > ScoreActionable(q[j])) /\ j <= i})]
           Place(k) == CHOOSE i \in D : place[i] = k
    <2>1. sorted = [k \in D |-> q[Place(k)]]
        BY DEF SortedBy
    <2>2. \A i \in D : place[i] = Cardinality(below[i])
        OBVIOUS
    <2>3. ASSUME NEW k PROVE Place(k) = Nth(k)
        <3> HIDE DEF D, place, below
        <3> QED
            BY <2>2
    <2> HIDE DEF Place, Nth, sorted, D
    <2> QED
        BY <2>1, <2>3
<1>6. \A i \in D : q[i] \in Range(q)
    BY DEF Range
<1>7. [k \in D |-> q[Nth(k)]] \in Seq(Range(q))
    <2> HIDE DEF Nth
    <2> QED
        BY <1>1, <1>4, <1>6, IsASeq
<1> QED
    BY <1>5, <1>7

(* The first of a sequence.                                                *)
LEMMA FirstOfIs ==
    ASSUME NEW X, NEW q \in Seq(X), NEW n \in Nat
    PROVE  FirstOf(q, n) \in Seq(X)
BY SubSeqProperties DEF FirstOf

(* The elements of a sequence over a set are in the set.                   *)
LEMMA ElementsOf ==
    ASSUME NEW X, NEW q \in Seq(X)
    PROVE  Range(q) \subseteq X
BY DEF Range

(* The elements that are selected for an answer are nodes of the snapshot. *)
LEMMA SelectedIs ==
    ASSUME NEW X, NEW nodes_ \in Seq(X), NEW active
    PROVE  Selected(nodes_, active) \in Seq(Range(nodes_))
<1> DEFINE R == Range(nodes_)
           focused == Focused(nodes_, active)
           closing == CloseAffordances(nodes_, active)
           urgent == Urgent(nodes_, active)
           candidates == Chosen(nodes_, {n \in R : IsCandidate(n, active)})
           all == SelectActionables(nodes_, active)
           others == Without(all, urgent)
           room == MaxActionables - Len(urgent)
<1>1. ASSUME NEW S PROVE Chosen(nodes_, S) \in Seq(R)
    <2>1. Chosen(nodes_, S) \in Seq(R \cap S)
        BY ChosenIs
    <2> HIDE DEF R
    <2> QED
        BY <2>1, SeqMonotonic
<1>2. ASSUME NEW q \in Seq(R), NEW r PROVE Without(q, r) \in Seq(R)
    <2>1. Without(q, r) \in Seq(Range(q) \cap (Range(q) \ Range(r)))
        BY ChosenIs DEF Without
    <2>2. Range(q) \subseteq R
        BY ElementsOf
    <2> QED
        BY <2>1, <2>2, SeqMonotonic
<1>3. focused \in Seq(R)
    BY <1>1, FirstOfIs DEF Focused
<1>4. closing \in Seq(R)
    BY <1>1, FirstOfIs DEF CloseAffordances
<1>5. urgent \in Seq(R)
    <2> HIDE DEF R
    <2>1. urgent = focused \o Without(closing, focused)
        BY DEF Urgent
    <2> HIDE DEF urgent, focused, closing
    <2> QED
        BY <1>2, <1>3, <1>4, <2>1
<1>6. all \in Seq(R)
    <2>1. candidates \in Seq(R)
        BY <1>1
    <2> DEFINE sorted == SortedBy(candidates, LAMBDA m, n : ScoreActionable(m) > ScoreActionable(n))
    <2>2. sorted \in Seq(Range(candidates))
        <3> HIDE DEF candidates, R
        <3> QED
            BY <2>1, SortedIs
    <2>3. sorted \in Seq(R)
        <3> HIDE DEF sorted, candidates, R
        <3> QED
            BY <2>1, <2>2, ElementsOf, SeqMonotonic
    <2>4. all = FirstOf(sorted, MaxActionables)
        BY DEF SelectActionables
    <2> HIDE DEF sorted, all, R
    <2> QED
        BY <2>3, <2>4, FirstOfIs, LimitsAssumption
<1>7. others \in Seq(R)
    <2> HIDE DEF R, all, urgent
    <2> QED
        BY <1>2, <1>6
<1>8. FirstOf(others, IF room > 0 THEN room ELSE 0) \in Seq(R)
    <2>1. (IF room > 0 THEN room ELSE 0) \in Nat
        <3>1. Len(urgent) \in Nat
            BY <1>5
        <3> HIDE DEF urgent
        <3> QED
            BY <3>1, LimitsAssumption
    <2> HIDE DEF R, others, room
    <2> QED
        BY <1>7, <2>1, FirstOfIs
<1>9. Selected(nodes_, active) = urgent \o FirstOf(others, IF room > 0 THEN room ELSE 0)
    BY DEF Selected
<1> HIDE DEF urgent, others, room
<1> QED
    BY <1>5, <1>8, <1>9

(* The snapshots there can be as the current one.                          *)
Taken == Snapshots \cup {NoSnapshot}

(* The item of a node, and those of all nodes.                             *)
ItemOf(n, ns, active) ==
    [eid |-> EidOfNode(ns, n, active), id |-> n.id,
     region |-> IF n.region = "unknown" THEN "main" ELSE n.region, shown |-> Shown(n)]

Items(ns, active) == {ItemOf(n, ns, active) : n \in Range(ns)}

(* The nodes of a snapshot are a sequence, and told apart by their ids.    *)
LEMMA NodesAre ==
    ASSUME NEW s \in Taken
    PROVE  /\ s.nodes \in Seq(Range(s.nodes))
           /\ \A i, j \in DOMAIN s.nodes : s.nodes[i].id = s.nodes[j].id => i = j
           /\ \A m, n \in Range(s.nodes) : m.id = n.id => m = n
           /\ \A n \in Range(s.nodes) : n.region \in DOMAIN TrimLimits \cup {"unknown"}
<1>1. CASE s \in Snapshots
    BY <1>1, SnapshotsAssumption DEF Range
<1>2. CASE s = NoSnapshot
    <2>1. s.nodes = <<>>
        BY <1>2 DEF NoSnapshot
    <2> QED
        BY <2>1 DEF Range
<1> QED
    BY <1>1, <1>2 DEF Taken

(* What is formatted are items of nodes.                                   *)
LEMMA ItemsAre ==
    ASSUME NEW s \in Taken, NEW active
    PROVE  FormatActionables(s.nodes, active) \in Seq(Items(s.nodes, active))
<1> DEFINE ns == s.nodes
           chosen == Selected(ns, active)
<1>1. chosen \in Seq(Range(ns))
    BY NodesAre, SelectedIs
<1>2. FormatActionables(ns, active) = [i \in DOMAIN chosen |-> ItemOf(chosen[i], ns, active)]
    BY DEF FormatActionables, ItemOf
<1>3. \A i \in 1 .. Len(chosen) : ItemOf(chosen[i], ns, active) \in Items(ns, active)
    <2> HIDE DEF ns, chosen
    <2> QED
        BY <1>1 DEF Items
<1>4. Len(chosen) \in Nat /\ DOMAIN chosen = 1 .. Len(chosen)
    BY <1>1
<1> HIDE DEF chosen
<1> QED
    BY <1>2, <1>3, <1>4, IsASeq

(* The items of a region are items.                                        *)
LEMMA ItemsOfIs ==
    ASSUME NEW I, NEW items \in Seq(I), NEW r
    PROVE  ItemsOf(items, r) \in Seq({it \in I : it.region = r})
<1> DEFINE S == {it \in Range(items) : it.region = r}
<1>1. ItemsOf(items, r) \in Seq(Range(items) \cap S)
    BY ChosenIs DEF ItemsOf
<1>2. Range(items) \cap S \subseteq {it \in I : it.region = r}
    BY ElementsOf
<1> HIDE DEF S
<1> QED
    BY <1>1, <1>2, SeqMonotonic

(* And so are the first and the last of them.                              *)
LEMMA TrimmedIs ==
    ASSUME NEW I, NEW items \in Seq(I), NEW limits, limits.head \in Nat, limits.tail \in Nat
    PROVE  TrimRegionElements(items, limits) \in Seq(I)
<1>1. CASE Len(items) <= limits.head + limits.tail
    BY <1>1 DEF TrimRegionElements
<1>2. CASE ~(Len(items) <= limits.head + limits.tail)
    <2>1. SubSeq(items, 1, limits.head) \in Seq(I)
        BY <1>2, SubSeqProperties
    <2>2. SubSeq(items, Len(items) - limits.tail + 1, Len(items)) \in Seq(I)
        BY <1>2, SubSeqProperties
    <2> QED
        BY <1>2, <2>1, <2>2 DEF TrimRegionElements
<1> QED
    BY <1>1, <1>2

(* What is shown in an answer are items, whatever is filtered and trimmed. *)
LEMMA KeptAre ==
    ASSUME NEW I, NEW items \in Seq(I), \A it \in I : it.region \in DOMAIN TrimLimits,
           NEW diff, NEW active, NEW trim
    PROVE  KeptOf(Render(diff, items, active, trim)) \subseteq I
<1> DEFINE filtered == FilterActionablesForMode(items, diff, active)
           rendered == Render(diff, items, active, trim)
<1>1. filtered \in Seq(I)
    <2> DEFINE S == {it \in Range(items) : it.eid \in diff.added \cup diff.changed}
    <2>1. Chosen(items, S) \in Seq(Range(items) \cap S)
        BY ChosenIs
    <2>2. Range(items) \cap S \subseteq I
        BY ElementsOf
    <2>3. Chosen(items, S) \in Seq(I)
        <3> HIDE DEF S
        <3> QED
            BY <2>1, <2>2, SeqMonotonic
    <2> QED
        BY <2>3 DEF FilterActionablesForMode
<1>2. rendered = [r \in {filtered[i].region : i \in DOMAIN filtered} |->
                      RenderRegion(diff, r, filtered, trim)]
    BY DEF Render
<1>3. ASSUME NEW i \in DOMAIN filtered
      PROVE  Range(RenderRegion(diff, filtered[i].region, filtered, trim).kept) \subseteq I
    <2> DEFINE r == filtered[i].region
               those == ItemsOf(filtered, r)
    <2>1. those \in Seq(I)
        <3>1. {it \in I : it.region = r} \subseteq I
            OBVIOUS
        <3>2. those \in Seq({it \in I : it.region = r})
            <4> HIDE DEF filtered, r
            <4> QED
                BY <1>1, ItemsOfIs
        <3> HIDE DEF those
        <3> QED
            BY <3>1, <3>2, SeqMonotonic
    <2>2. r \in DOMAIN TrimLimits
        <3> HIDE DEF filtered
        <3> QED
            BY <1>1
    <2>3. TrimRegionElements(those, TrimLimits[r]) \in Seq(I)
        <3> HIDE DEF those, r
        <3> QED
            BY <2>1, <2>2, TrimmedIs, LimitsAssumption
    <2>4. <<>> \in Seq(I)
        OBVIOUS
    <2>5. RenderRegion(diff, r, filtered, trim).kept
              \in {<<>>, those, TrimRegionElements(those, TrimLimits[r])}
        <3> HIDE DEF filtered, r
        <3> QED
            BY DEF RenderRegion
    <2>6. RenderRegion(diff, r, filtered, trim).kept \in Seq(I)
        <3> HIDE DEF filtered, r, those
        <3> QED
            BY <2>1, <2>3, <2>4, <2>5
    <2> QED
        BY <2>6, ElementsOf
<1> HIDE DEF filtered, rendered
<1>4. \A r \in DOMAIN rendered : Range(rendered[r].kept) \subseteq I
    BY <1>2, <1>3
<1> QED
    BY <1>4 DEF KeptOf, rendered

(* The eid of the registry and that of the diff are computed differently;  *)
(* when they agree, the diff takes the two nodes for one.                  *)
LEMMA EidTells ==
    ASSUME NEW s \in Taken, NEW active, NEW m \in Range(s.nodes), NEW n,
           EidOfNode(s.nodes, m, active) = OfRegion(n)
    PROVE  OfRegion(m) = OfRegion(n)
<1> DEFINE ns == s.nodes
           i == CHOOSE i \in DOMAIN ns : ns[i].id = m.id
<1>1. i \in DOMAIN ns /\ ns[i] = m
    <2>1. PICK k \in DOMAIN ns : ns[k] = m
        BY DEF Range
    <2>2. \E k_ \in DOMAIN ns : ns[k_].id = m.id
        BY <2>1
    <2>3. i \in DOMAIN ns /\ ns[i].id = m.id
        <3> HIDE DEF ns
        <3> QED
            BY <2>2
    <2> HIDE DEF i
    <2> QED
        BY <2>1, <2>3, NodesAre
<1> DEFINE base == ComputeEid(ns[i], active)
           eid == RegistryEid(ns, i, active)
<1>2. EidOfNode(ns, m, active) = eid
    BY DEF EidOfNode
<1>3. \E c : eid = [base EXCEPT !.number = c]
    BY DEF RegistryEid
<1> HIDE DEF i, eid
<1>4. base = [role |-> RoleOf(m), name |-> m.name, region |-> m.region, layer |-> active,
              number |-> 1]
    BY <1>1 DEF ComputeEid
<1>5. eid.role = RoleOf(m) /\ eid.name = m.name /\ eid.region = m.region
    <2> HIDE DEF base
    <2> QED
        BY <1>3, <1>4
<1>6. /\ OfRegion(n).role = RoleOf(n) /\ OfRegion(n).name = n.name
      /\ OfRegion(n).region = n.region
    BY DEF OfRegion, ComputeEid
<1>7. RoleOf(m) = RoleOf(n) /\ m.name = n.name /\ m.region = n.region
    BY <1>2, <1>5, <1>6
<1> QED
    BY <1>7 DEF OfRegion, ComputeEid

(* The diff compares the nodes of a snapshot by their eid.                 *)
LEMMA MapHolds ==
    ASSUME NEW s \in Taken
    PROVE  /\ \A n \in Range(s.nodes) : IsDiffed(n) => OfRegion(n) \in DOMAIN EidMap(s.nodes)
           /\ \A e \in DOMAIN EidMap(s.nodes) :
                  /\ EidMap(s.nodes)[e] \in Range(s.nodes)
                  /\ IsDiffed(EidMap(s.nodes)[e])
                  /\ OfRegion(EidMap(s.nodes)[e]) = e
<1> DEFINE ns == s.nodes
           diffed == {i \in DOMAIN ns : IsDiffed(ns[i])}
           Of(e) == {i \in diffed : OfRegion(ns[i]) = e}
           Greatest_(e) == CHOOSE i \in Of(e) : \A j \in Of(e) : j <= i
           eids == {OfRegion(ns[i]) : i \in diffed}
<1>1. EidMap(ns) = [e \in eids |-> ns[Greatest_(e)]]
    BY DEF EidMap
<1>2. DOMAIN ns = 1 .. Len(ns) /\ Len(ns) \in Nat
    BY NodesAre
<1>3. ASSUME NEW e \in eids PROVE Greatest_(e) \in Of(e)
    <2> DEFINE at == Of(e)
               below == [i \in at |-> {j \in at : j <= i}]
    <2>1. at # {} /\ at \in SUBSET (1 .. Len(ns))
        BY <1>2
    <2>2. IsFiniteSet(at)
        <3>1. IsFiniteSet(1 .. Len(ns))
            BY <1>2, FS_Interval
        <3> HIDE DEF at, ns
        <3> QED
            BY <2>1, <3>1, FS_Subset
    <2>3. Cardinality(at) \in 1 .. Cardinality(at)
        <3> HIDE DEF at
        <3>1. Cardinality(at) \in Nat /\ Cardinality(at) # 0
            BY <2>1, <2>2, FS_CardinalityType, FS_EmptySet
        <3> QED
            BY <3>1
    <2>4. \A i \in at : i \in Int
        BY <2>1
    <2> HIDE DEF at
    <2>5. PICK i \in at : Cardinality(below[i]) = Cardinality(at)
        <3>1. below \in [at -> SUBSET at]
            OBVIOUS
        <3>2. /\ \A i \in at : i \in below[i]
              /\ \A i, j \in at : i \in below[j] \/ j \in below[i]
              /\ \A i, j \in at : i \in below[j] => below[i] \subseteq below[j]
              /\ \A i, j \in at : i \in below[j] /\ j \in below[i] => i = j
            BY <2>4
        <3> HIDE DEF below
        <3> QED
            BY <2>2, <2>3, <3>1, <3>2, Ranks
    <2>6. below[i] = at
        <3>1. below[i] \in SUBSET at
            OBVIOUS
        <3> HIDE DEF below
        <3> QED
            BY <2>2, <2>5, <3>1, FS_Subset
    <2>7. \A j \in at : j <= i
        BY <2>6
    <2>8. \E i_ \in Of(e) : \A j \in Of(e) : j <= i_
        BY <2>7 DEF at
    <2> HIDE DEF Of
    <2> QED
        BY <2>8
<1>4. ASSUME NEW e \in eids
      PROVE  /\ EidMap(ns)[e] \in Range(ns) /\ IsDiffed(EidMap(ns)[e])
             /\ OfRegion(EidMap(ns)[e]) = e
    <2>1. Greatest_(e) \in Of(e)
        BY <1>3
    <2>2. EidMap(ns)[e] = ns[Greatest_(e)]
        BY <1>1
    <2> HIDE DEF Greatest_, eids
    <2> QED
        BY <2>1, <2>2 DEF Range
<1>5. ASSUME NEW n \in Range(ns), IsDiffed(n) PROVE OfRegion(n) \in eids
    BY <1>5 DEF Range
<1> HIDE DEF Greatest_, eids
<1> QED
    BY <1>1, <1>4, <1>5

(* The invariant: eids that two nodes of the snapshot have are withheld.   *)
AnswersInv ==
    /\ current \in Taken
    /\ Colliding(current.nodes) \subseteq withheld
    /\ DiffsAddUp

(* An eid that does not collide is that of one node.                       *)
LEMMA OnlyOne ==
    ASSUME NEW s \in Taken, NEW m \in Range(s.nodes), NEW n \in Range(s.nodes),
           OfRegion(m) = OfRegion(n), OfRegion(n) \notin Colliding(s.nodes)
    PROVE  m = n
<1>1. m.id = n.id
    BY DEF Colliding
<1> QED
    BY <1>1, NodesAre

(* Nodes the diff takes for equal are shown alike.                         *)
LEMMA ShownAlike ==
    ASSUME NEW m, NEW n, CompareNodes(m, n) = {}
    PROVE  Shown(m) = Shown(n)
<1>1. \A f \in Compared : m[f] = n[f]
    BY DEF CompareNodes
<1>2. /\ m.enabled = n.enabled /\ m.checked = n.checked /\ m.focused = n.focused
      /\ m.value = n.value /\ m.name = n.name /\ m.counter = n.counter
    BY <1>1 DEF Compared
<1> QED
    BY <1>2 DEF Shown

(* An answer. An eid that is shown is shown as its node is; one that is    *)
(* not shown and not withheld has not changed, so what was known of it     *)
(* holds.                                                                  *)
LEMMA GenerateInv ==
    ASSUME AnswersInv, NEW s \in Snapshots, NEW trim \in BOOLEAN, GenerateResponse(s, trim)
    PROVE  AnswersInv'
<1> DEFINE active == ActiveLayer(s.nodes)
           items == FormatActionables(s.nodes, active)
           diff == IF current = NoSnapshot \/ s.url.path # docPath THEN [mode |-> "baseline"]
                   ELSE ComputeDiff(current, s)
           rendered == Render(diff, items, active, trim)
           changed == IF diff.mode = "diff" THEN diff.added \cup diff.changed \cup diff.removed
                      ELSE {}
           kept == KeptOf(rendered)
           eids == {it.eid : it \in kept}
           leftOut == {it.eid : it \in LeftOut(rendered)}
           stays == IF diff.mode = "baseline" THEN DOMAIN known \cap leftOut
                    ELSE DOMAIN known \ eids
<1>1. /\ current' = s
      /\ known' = Learnt(rendered, diff.mode)
      /\ withheld' = ((withheld \cup changed \cup leftOut) \ eids) \cup Colliding(s.nodes)
    BY DEF GenerateResponse
<1>2. s \in Taken /\ current \in Taken
    BY DEF Taken, AnswersInv
<1>3. kept \subseteq Items(s.nodes, active)
    <2>1. items \in Seq(Items(s.nodes, active))
        BY <1>2, ItemsAre
    <2>2. ASSUME NEW it \in Items(s.nodes, active) PROVE it.region \in DOMAIN TrimLimits
        <3>1. PICK n \in Range(s.nodes) : it = ItemOf(n, s.nodes, active)
            BY DEF Items
        <3>2. it.region = IF n.region = "unknown" THEN "main" ELSE n.region
            BY <3>1 DEF ItemOf
        <3> QED
            BY <1>2, <3>2, NodesAre, LimitsAssumption
    <2> HIDE DEF items, diff, active
    <2> QED
        BY <2>1, <2>2, KeptAre
<1>4. known' = [e \in eids \cup stays |->
                   IF e \in eids
                   THEN LET it == CHOOSE it \in kept : it.eid = e
                        IN  [id |-> it.id, shown |-> it.shown]
                   ELSE known[e]]
    BY <1>1 DEF Learnt
<1>5. ASSUME NEW n \in Range(s.nodes), OfRegion(n) \in eids, OfRegion(n) \notin Colliding(s.nodes)
      PROVE  known'[OfRegion(n)].shown = Shown(n)
    <2> DEFINE e == OfRegion(n)
               it == CHOOSE it \in kept : it.eid = e
    <2>1. it \in kept /\ it.eid = e
        <3>1. \E it_ \in kept : it_.eid = e
            BY <1>5
        <3> HIDE DEF kept, e
        <3> QED
            BY <3>1
    <2>2. known'[e].shown = it.shown
        <3>1. known'[e] = [id |-> it.id, shown |-> it.shown]
            <4> HIDE DEF eids, stays, kept, e
            <4> QED
                BY <1>4, <1>5 DEF e
        <3> HIDE DEF it
        <3> QED
            BY <3>1
    <2> HIDE DEF it, kept
    <2>3. PICK m \in Range(s.nodes) : it = ItemOf(m, s.nodes, active)
        BY <1>3, <2>1 DEF Items
    <2>4. it.shown = Shown(m) /\ it.eid = EidOfNode(s.nodes, m, active)
        BY <2>3 DEF ItemOf
    <2>5. OfRegion(m) = OfRegion(n)
        <3>1. EidOfNode(s.nodes, m, active) = OfRegion(n)
            BY <2>1, <2>4
        <3> QED
            BY <1>2, <3>1, EidTells
    <2>6. m = n
        BY <1>2, <1>5, <2>5, OnlyOne
    <2> QED
        BY <2>2, <2>4, <2>6
<1>6. ASSUME NEW n \in Range(s.nodes), IsDiffed(n), OfRegion(n) \in DOMAIN known',
             OfRegion(n) \notin withheld'
      PROVE  known'[OfRegion(n)].shown = Shown(n)
    <2> DEFINE e == OfRegion(n)
    <2>1. e \notin Colliding(s.nodes)
        BY <1>1, <1>6
    <2>2. CASE e \in eids
        BY <1>5, <2>1, <2>2
    <2>3. CASE e \notin eids
        <3>1. e \in stays /\ known'[e] = known[e]
            <4> HIDE DEF eids, stays, kept, e
            <4> QED
                BY <1>4, <1>6, <2>3 DEF e
        <3>2. e \notin withheld /\ e \notin changed /\ e \notin leftOut
            <4> HIDE DEF eids, changed, leftOut
            <4> QED
                BY <1>1, <1>6, <2>3
        <3>3. diff.mode # "baseline" /\ e \in DOMAIN known
            <4> HIDE DEF diff, eids, leftOut
            <4> QED
                BY <3>1, <3>2
        <3>4. diff = ComputeDiff(current, s)
            <4>1. [mode |-> "baseline"].mode = "baseline"
                OBVIOUS
            <4> QED
                BY <3>3, <4>1
        <3>5. /\ diff.mode = "diff"
              /\ diff.added = FindAdded(current.nodes, s.nodes)
              /\ diff.changed = FindChanged(current.nodes, s.nodes)
            BY <3>4 DEF ComputeDiff
        <3>6. /\ e \notin FindAdded(current.nodes, s.nodes)
              /\ e \notin FindChanged(current.nodes, s.nodes)
            <4> HIDE DEF diff
            <4> QED
                BY <3>2, <3>5
        <3>7. e \in DOMAIN EidMap(s.nodes)
            BY <1>2, <1>6, MapHolds
        <3>8. e \in DOMAIN EidMap(current.nodes)
            BY <3>6, <3>7 DEF FindAdded
        <3> DEFINE m == EidMap(current.nodes)[e]
                   last == EidMap(s.nodes)[e]
        <3>9. CompareNodes(m, last) = {}
            BY <3>6, <3>7, <3>8 DEF FindChanged
        <3>10. last = n
            <4>1. last \in Range(s.nodes) /\ OfRegion(last) = e
                BY <1>2, <3>7, MapHolds
            <4> HIDE DEF last
            <4> QED
                BY <1>2, <2>1, <4>1, OnlyOne
        <3>11. m \in Range(current.nodes) /\ IsDiffed(m) /\ OfRegion(m) = e
            BY <1>2, <3>8, MapHolds
        <3>12. known[e].shown = Shown(m)
            <4> HIDE DEF m, e
            <4> QED
                BY <3>2, <3>3, <3>11 DEF AnswersInv, DiffsAddUp
        <3> HIDE DEF m, last
        <3> QED
            BY <3>1, <3>9, <3>10, <3>12, ShownAlike
    <2> QED
        BY <2>2, <2>3
<1>7. DiffsAddUp'
    BY <1>1, <1>6 DEF DiffsAddUp
<1> QED
    BY <1>1, <1>2, <1>7 DEF AnswersInv

(* Every step keeps the invariant.                                         *)
LEMMA AnswersStepInv == AnswersInv /\ [AnswersNext]_answerVars => AnswersInv'
<1> SUFFICES ASSUME AnswersInv, [AnswersNext]_answerVars PROVE AnswersInv'
    OBVIOUS
<1>1. CASE UNCHANGED answerVars
    BY <1>1 DEF answerVars, AnswersInv, DiffsAddUp, Taken
<1>2. CASE AnswerError
    BY <1>2 DEF AnswerError, AnswersInv, DiffsAddUp, Taken
<1>3. CASE \E s \in Snapshots, trim \in BOOLEAN : GenerateResponse(s, trim)
    BY <1>3, GenerateInv
<1>4. CASE \E s \in Snapshots : AnswerThrown(s)
    BY <1>4 DEF AnswerThrown, AnswersInv, DiffsAddUp, Taken
<1> QED
    BY <1>1, <1>2, <1>3, <1>4 DEF AnswersNext

(* What a client knows from any sequence of answers is what the page       *)
(* shows: DiffsAddUp, for any snapshots and limits.                        *)
THEOREM AnswersAddUp == Spec => []DiffsAddUp
<1>1. Init => AnswersInv
    <2> SUFFICES ASSUME Init PROVE AnswersInv
        OBVIOUS
    <2>1. current = NoSnapshot
        BY DEF Init, AnswersInit
    <2>2. Range(current.nodes) = {}
        BY <2>1 DEF NoSnapshot, Range
    <2> QED
        BY <2>1, <2>2 DEF AnswersInv, DiffsAddUp, Colliding, Taken
<1>2. AnswersInv /\ [Next]_vars => AnswersInv'
    BY AnswersStepInv DEF Next, vars, AnswersStep, QueriesStep, FormsStep, SnapshotsStep
<1>3. AnswersInv => DiffsAddUp
    BY DEF AnswersInv
<1> QED
    BY <1>1, <1>2, <1>3, PTL DEF Spec


-----------------------------------------------------------------------------

(* Queries. A suggestion counts those of the matches that pass one more    *)
(* filter, after they were sorted and cut off; the engine filters the      *)
(* nodes anew. Both count the same nodes, since a filter is decided of a   *)
(* node alone and sorting only renumbers the matches.                      *)

(* A part of N numbers and a part of N things that are paired off.         *)
Pairs(p, N, E, from, to) ==
    /\ N \in Nat
    /\ IsFiniteSet(E) /\ Cardinality(E) = N
    /\ p \in [1 .. N -> E]
    /\ \A k, l \in 1 .. N : p[k] = p[l] => k = l
    /\ from \in SUBSET (1 .. N)
    /\ to \in SUBSET E
    /\ \A k \in 1 .. N : k \in from <=> p[k] \in to

(* They count the same.                                                    *)
LEMMA SameCount ==
    ASSUME NEW p, NEW N, NEW E, NEW from, NEW to, Pairs(p, N, E, from, to)
    PROVE  Cardinality(from) = Cardinality(to)
<1> USE DEF Pairs
<1> DEFINE D == 1 .. N
           f == [k \in from |-> p[k]]
<1>1. IsFiniteSet(D) /\ Cardinality(D) = Cardinality(E)
    BY FS_Interval
<1>2. p \in Injection(D, E)
    BY DEF Injection, IsInjective
<1>3. p \in Surjection(D, E)
    BY <1>1, <1>2, FS_Injection
<1>4. f \in Injection(from, to)
    <2>1. f \in [from -> to] /\ \A k, l \in from : f[k] = f[l] => k = l
        OBVIOUS
    <2> HIDE DEF f
    <2> QED
        BY <2>1 DEF Injection, IsInjective
<1>5. f \in Surjection(from, to)
    <2>1. ASSUME NEW t \in to PROVE \E k \in from : f[k] = t
        <3>1. \E k \in D : p[k] = t
            BY <1>3 DEF Surjection
        <3> QED
            BY <3>1
    <2>2. f \in [from -> to]
        OBVIOUS
    <2> HIDE DEF f
    <2> QED
        BY <2>1, <2>2 DEF Surjection
<1>6. IsFiniteSet(from)
    BY <1>1, FS_Subset
<1>7. ExistsBijection(from, to)
    <2> HIDE DEF f
    <2> QED
        BY <1>4, <1>5 DEF ExistsBijection, Bijection
<1> QED
    BY <1>6, <1>7, FS_Bijection

(* In a stable order by a key every place is taken, once.                  *)
LEMMA PlacesTaken ==
    ASSUME NEW N \in Nat, NEW key \in [1 .. N -> Int], NEW k \in 1 .. N
    PROVE  \E i \in 1 .. N :
               Cardinality({j \in 1 .. N : \/ key[j] > key[i]
                                           \/ ~(key[i] > key[j]) /\ j <= i}) = k
<1> DEFINE D == 1 .. N
           below == [i \in D |-> {j \in D : \/ key[j] > key[i]
                                            \/ ~(key[i] > key[j]) /\ j <= i}]
<1>1. IsFiniteSet(D) /\ Cardinality(D) = N
    BY FS_Interval
<1>2. \A i \in D : key[i] \in Int /\ i \in Int
    OBVIOUS
<1>3. below \in [D -> SUBSET D]
    OBVIOUS
<1>4. /\ \A i \in D : i \in below[i]
      /\ \A i, j \in D : i \in below[j] \/ j \in below[i]
      /\ \A i, j \in D : i \in below[j] => below[i] \subseteq below[j]
      /\ \A i, j \in D : i \in below[j] /\ j \in below[i] => i = j
    <2> HIDE DEF D
    <2> QED
        BY <1>2
<1>5. \E i \in D : Cardinality(below[i]) = k
    <2>1. k \in 1 .. Cardinality(D)
        BY <1>1
    <2> HIDE DEF D, below
    <2> QED
        BY <1>1, <1>3, <1>4, <2>1, Ranks
<1> QED
    BY <1>5

(* How many places of a sequence hold one of some things.                  *)
Among(q, W) == Cardinality({i \in DOMAIN q : q[i] \in W})

(* What is chosen of a sequence is as often in it as before.               *)
LEMMA ChosenCounts ==
    ASSUME NEW X, NEW q \in Seq(X), NEW S, NEW W
    PROVE  Len(Chosen(q, S)) = Among(q, S) /\ Among(Chosen(q, S), W) = Among(q, S \cap W)
<1> DEFINE at == {i \in DOMAIN q : q[i] \in S}
           N == Cardinality(at)
           Nth(k) == CHOOSE i \in at : Cardinality({j \in at : j <= i}) = k
           p == [k \in 1 .. N |-> Nth(k)]
           V == {i \in DOMAIN q : q[i] \in W}
<1>1. at \in SUBSET (1 .. Len(q)) /\ Len(q) \in Nat
    OBVIOUS
<1>2. IsFiniteSet(at)
    BY <1>1, FS_Interval, FS_Subset
<1>3. N \in Nat
    BY <1>2, FS_CardinalityType
<1>4. ASSUME NEW k \in 1 .. N
      PROVE  Nth(k) \in at /\ Cardinality({j \in at : j <= Nth(k)}) = k
    <2> DEFINE below == [i \in at |-> {j \in at : j <= i}]
    <2>1. \E i \in at : Cardinality(below[i]) = k
        <3>1. below \in [at -> SUBSET at]
            OBVIOUS
        <3>2. /\ \A i \in at : i \in below[i]
              /\ \A i, j \in at : i \in below[j] \/ j \in below[i]
              /\ \A i, j \in at : i \in below[j] => below[i] \subseteq below[j]
              /\ \A i, j \in at : i \in below[j] /\ j \in below[i] => i = j
            <4> HIDE DEF at
            <4>1. \A i \in at : i \in Int
                BY <1>1
            <4> QED
                BY <4>1
        <3> HIDE DEF at, below
        <3> QED
            BY <1>2, <3>1, <3>2, Ranks
    <2>2. \E i \in at : Cardinality({j \in at : j <= i}) = k
        BY <2>1
    <2> HIDE DEF at
    <2> QED
        BY <2>2
<1>5. Chosen(q, S) = [k \in 1 .. N |-> q[Nth(k)]]
    BY DEF Chosen
<1>6. p \in [1 .. N -> at] /\ \A k, l \in 1 .. N : p[k] = p[l] => k = l
    <2> HIDE DEF Nth, at, N
    <2>1. \A k \in 1 .. N : p[k] = Nth(k)
        OBVIOUS
    <2> HIDE DEF p
    <2>2. p \in [1 .. N -> at]
        <3> USE DEF p
        <3> HIDE DEF Nth
        <3> QED
            BY <1>4
    <2>3. ASSUME NEW k \in 1 .. N, NEW l \in 1 .. N, p[k] = p[l]
          PROVE  k = l
        <3>1. Nth(k) = Nth(l)
            BY <2>1, <2>3
        <3> QED
            BY <1>4, <3>1
    <2> QED
        BY <2>2, <2>3
<1>7. Cardinality({k \in 1 .. N : p[k] \in V}) = Cardinality(at \cap V)
    <2> DEFINE from == {k \in 1 .. N : p[k] \in V}
               to == at \cap V
    <2> HIDE DEF p, V, at
    <2>1. /\ from \in SUBSET (1 .. N) /\ to \in SUBSET at
          /\ \A k \in 1 .. N : k \in from <=> p[k] \in to
        BY <1>6
    <2>2. Cardinality(at) = N
        OBVIOUS
    <2> HIDE DEF N, from, to
    <2>3. Pairs(p, N, at, from, to)
        BY <1>2, <1>3, <1>6, <2>1, <2>2 DEF Pairs
    <2>4. Cardinality(from) = Cardinality(to)
        BY <2>3, SameCount
    <2> QED
        BY <2>4 DEF from, to
<1>8. Len(Chosen(q, S)) = N /\ DOMAIN Chosen(q, S) = 1 .. N
    <2> HIDE DEF Nth, N
    <2> QED
        BY <1>3, <1>5
<1>9. {k \in 1 .. N : p[k] \in V} = {k \in DOMAIN Chosen(q, S) : Chosen(q, S)[k] \in W}
    <2>1. \A k \in 1 .. N : p[k] = Nth(k) /\ Chosen(q, S)[k] = q[Nth(k)] /\ Nth(k) \in DOMAIN q
        <3>1. \A k \in 1 .. N : Nth(k) \in DOMAIN q
            BY <1>4
        <3> HIDE DEF Nth, N
        <3> QED
            BY <1>5, <3>1
    <2> HIDE DEF Nth, p, N
    <2> QED
        BY <1>8, <2>1
<1>10. at \cap V = {i \in DOMAIN q : q[i] \in S \cap W}
    OBVIOUS
<1> HIDE DEF p, V, Nth, at, N
<1> QED
    BY <1>7, <1>8, <1>9, <1>10 DEF N, at, Among

(* The same elements in another order.                                     *)
Renumbers(s, q) ==
    /\ s \in Seq(Range(q))
    /\ DOMAIN s = DOMAIN q
    /\ \E p \in [DOMAIN q -> DOMAIN q] :
          /\ \A k, l \in DOMAIN q : p[k] = p[l] => k = l
          /\ \A k \in DOMAIN q : s[k] = q[p[k]]

(* They are counted alike.                                                 *)
LEMMA RenumberedCounts ==
    ASSUME NEW X, NEW q \in Seq(X), NEW s, Renumbers(s, q), NEW W
    PROVE  Among(s, W) = Among(q, W)
<1> DEFINE N == Len(q)
           D == DOMAIN q
           from == {k \in DOMAIN s : s[k] \in W}
           to == {i \in D : q[i] \in W}
<1>1. N \in Nat /\ D = 1 .. N /\ DOMAIN s = 1 .. N
    BY DEF Renumbers
<1>2. PICK p \in [D -> D] : /\ \A k, l \in D : p[k] = p[l] => k = l
                            /\ \A k \in D : s[k] = q[p[k]]
    BY DEF Renumbers
<1>3. IsFiniteSet(D) /\ Cardinality(D) = N
    <2> HIDE DEF N, D
    <2> QED
        BY <1>1, FS_Interval
<1>4. p \in [1 .. N -> D] /\ \A k, l \in 1 .. N : p[k] = p[l] => k = l
    <2> HIDE DEF N, D
    <2> QED
        BY <1>1, <1>2
<1>5. /\ from \in SUBSET (1 .. N) /\ to \in SUBSET D
      /\ \A k \in 1 .. N : k \in from <=> p[k] \in to
    <2> HIDE DEF N
    <2> QED
        BY <1>1, <1>2
<1>6. N \in Nat
    OBVIOUS
<1> HIDE DEF N, D, from, to
<1>7. Pairs(p, N, D, from, to)
    BY <1>3, <1>4, <1>5, <1>6 DEF Pairs
<1>8. Cardinality(from) = Cardinality(to)
    BY <1>7, SameCount
<1> QED
    BY <1>8 DEF from, to, D, Among

(* Sorting by a key gives each element its place: it renumbers the         *)
(* sequence.                                                               *)
LEMMA SortedByKey ==
    ASSUME NEW X, NEW q \in Seq(X), NEW key \in [DOMAIN q -> Int],
           NEW below \in [DOMAIN q -> SUBSET DOMAIN q],
           \A i, j \in DOMAIN q :
               j \in below[i] <=> key[j] > key[i] \/ (~(key[i] > key[j]) /\ j <= i),
           NEW p,
           \A k \in DOMAIN q : (\E i \in DOMAIN q : Cardinality(below[i]) = k)
                               => p[k] \in DOMAIN q /\ Cardinality(below[p[k]]) = k,
           NEW sorted,
           sorted = [k \in DOMAIN q |-> q[p[k]]]
    PROVE  Renumbers(sorted, q)
<1> DEFINE N == Len(q)
           D == DOMAIN q
           f == [k \in D |-> p[k]]
<1>1. N \in Nat /\ D = 1 .. N
    OBVIOUS
<1>2. ASSUME NEW k \in D PROVE p[k] \in D /\ Cardinality(below[p[k]]) = k
    <2>1. \E i \in 1 .. N : Cardinality({j \in 1 .. N :
                                \/ key[j] > key[i]
                                \/ ~(key[i] > key[j]) /\ j <= i}) = k
        <3>1. key \in [1 .. N -> Int] /\ k \in 1 .. N
            BY <1>1
        <3> HIDE DEF N
        <3> QED
            BY <1>1, <3>1, PlacesTaken
    <2>2. ASSUME NEW i \in D
          PROVE  below[i] = {j \in 1 .. N : \/ key[j] > key[i]
                                            \/ ~(key[i] > key[j]) /\ j <= i}
        BY <1>1
    <2>3. \E i \in D : Cardinality(below[i]) = k
        <3> HIDE DEF N, D
        <3> QED
            BY <1>1, <2>1, <2>2
    <2> QED
        BY <2>3
<1>3. f \in [D -> D] /\ \A k, l \in D : f[k] = f[l] => k = l
    <2>1. \A k \in D : f[k] = p[k]
        OBVIOUS
    <2>2. f \in [D -> D]
        BY <1>2
    <2> HIDE DEF f, D
    <2> QED
        BY <1>2, <2>1, <2>2
<1>4. DOMAIN sorted = D /\ \A k \in D : sorted[k] = q[f[k]]
    OBVIOUS
<1>5. sorted \in Seq(Range(q))
    <2>1. \A k \in D : q[p[k]] \in Range(q)
        BY <1>2 DEF Range
    <2>2. [k \in 1 .. N |-> q[p[k]]] \in Seq(Range(q))
        <3> HIDE DEF N, D
        <3> QED
            BY <1>1, <2>1, IsASeq
    <2> QED
        BY <1>1, <2>2
<1> HIDE DEF f
<1> QED
    BY <1>3, <1>4, <1>5 DEF Renumbers

(* Suggestions, those first that leave the least.                          *)
LEMMA SuggestionsSorted ==
    ASSUME NEW X, NEW q \in Seq(X), \A i \in DOMAIN q : q[i].expected \in Int
    PROVE  SortedBy(q, LAMBDA s, t : s.expected < t.expected) \in Seq(Range(q))
<1> DEFINE sorted == SortedBy(q, LAMBDA s, t : s.expected < t.expected)
           D == DOMAIN q
           key == [i \in D |-> 0 - q[i].expected]
           below == [i \in D |-> {j \in D : \/ q[j].expected < q[i].expected
                                            \/ /\ ~(q[i].expected < q[j].expected)
                                               /\ j <= i}]
           place == [i \in D |-> Cardinality({j \in D : \/ q[j].expected < q[i].expected
                                                        \/ /\ ~(q[i].expected < q[j].expected)
                                                           /\ j <= i})]
           p == [k \in D |-> CHOOSE i \in D : place[i] = k]
<1>1. key \in [D -> Int]
    OBVIOUS
<1>2. /\ below \in [D -> SUBSET D]
      /\ \A i \in D : place[i] = Cardinality(below[i])
    OBVIOUS
<1>3. \A i, j \in D : j \in below[i] <=> key[j] > key[i] \/ (~(key[i] > key[j]) /\ j <= i)
    OBVIOUS
<1>4. sorted = [k \in D |-> q[p[k]]]
    BY DEF SortedBy
<1>5. \A k \in D : (\E i \in D : Cardinality(below[i]) = k)
                   => p[k] \in D /\ Cardinality(below[p[k]]) = k
    <2> HIDE DEF place, below, D
    <2> QED
        BY <1>2
<1> HIDE DEF key, below, place, p, sorted
<1>6. Renumbers(sorted, q)
    BY <1>1, <1>2, <1>3, <1>4, <1>5, SortedByKey
<1> QED
    BY <1>6 DEF sorted, Renumbers

(* Matches, those first that match best.                                   *)
BestFirst(q, request) ==
    SortedBy(q, LAMBDA m, n : ScoreMatch(m, request) > ScoreMatch(n, request))

(* They are the same matches in another order.                             *)
LEMMA MatchesSorted ==
    ASSUME NEW X, NEW q \in Seq(X), NEW request,
           \A i \in DOMAIN q : ScoreMatch(q[i], request) \in Int
    PROVE  Renumbers(BestFirst(q, request), q)
<1> DEFINE sorted == SortedBy(q, LAMBDA m, n : ScoreMatch(m, request) > ScoreMatch(n, request))
           D == DOMAIN q
           key == [i \in D |-> ScoreMatch(q[i], request)]
           below == [i \in D |->
                        {j \in D : \/ ScoreMatch(q[j], request) > ScoreMatch(q[i], request)
                                   \/ /\ ~(ScoreMatch(q[i], request) > ScoreMatch(q[j], request))
                                      /\ j <= i}]
           place == [i \in D |-> Cardinality(
                        {j \in D : \/ ScoreMatch(q[j], request) > ScoreMatch(q[i], request)
                                   \/ /\ ~(ScoreMatch(q[i], request) > ScoreMatch(q[j], request))
                                      /\ j <= i})]
           p == [k \in D |-> CHOOSE i \in D : place[i] = k]
<1>1. key \in [D -> Int]
    OBVIOUS
<1>2. /\ below \in [D -> SUBSET D]
      /\ \A i \in D : place[i] = Cardinality(below[i])
    OBVIOUS
<1>3. \A i, j \in D : j \in below[i] <=> key[j] > key[i] \/ (~(key[i] > key[j]) /\ j <= i)
    OBVIOUS
<1>4. sorted = [k \in D |-> q[p[k]]]
    BY DEF SortedBy
<1>5. \A k \in D : (\E i \in D : Cardinality(below[i]) = k)
                   => p[k] \in D /\ Cardinality(below[p[k]]) = k
    <2> HIDE DEF place, below, D
    <2> QED
        BY <1>2
<1> HIDE DEF key, below, place, p, sorted
<1>6. Renumbers(sorted, q)
    BY <1>1, <1>2, <1>3, <1>4, <1>5, SortedByKey
<1> QED
    BY <1>6 DEF sorted, BestFirst

(* A set of naturals that is not empty has a least element.                *)
LEMMA LeastOf ==
    ASSUME NEW T \in SUBSET Nat, T # {}
    PROVE  \E n \in T : \A m \in T : n <= m
<1> DEFINE R == {p \in Nat \X Nat : p[1] < p[2]}
<1>1. OpToRel(<, Nat) = R
    BY DEF OpToRel
<1>2. IsWellFoundedOn(R, Nat)
    BY <1>1, NatLessThanWellFounded
<1>3. PICK n \in T : \A m \in T : <<m, n>> \notin R
    <2> HIDE DEF R
    <2> QED
        BY <1>2, WFMin
<1>4. ASSUME NEW m \in T
      PROVE  n <= m
    <2>1. m \in Nat /\ n \in Nat /\ ~(m < n)
        BY <1>3
    <2> QED
        BY <2>1
<1> QED
    BY <1>4

(* Induction, stated of the set of the numbers for which something holds.  *)
LEMMA NatSet ==
    ASSUME NEW S, 0 \in S, \A n \in Nat : n \in S => n + 1 \in S
    PROVE  Nat \subseteq S
<1> SUFFICES ASSUME Nat \ S # {}
             PROVE  FALSE
    OBVIOUS
<1>1. PICK n \in Nat \ S : \A m \in Nat \ S : n <= m
    BY LeastOf
<1>2. n # 0 /\ n - 1 \in Nat
    OBVIOUS
<1>3. n - 1 \in S
    BY <1>1, <1>2
<1> QED
    BY <1>2, <1>3

(* The greatest of some of the numbers from 1 to n.                        *)
LEMMA MaxOf ==
    ASSUME NEW n \in Nat, NEW s \in SUBSET (1 .. n), s # {}
    PROVE  Max(s) \in s /\ \A x \in s : x <= Max(s)
<1> DEFINE T == {n - x : x \in s}
<1>1. T \in SUBSET Nat /\ T # {}
    <2>1. \A x \in s : n - x \in Nat
        OBVIOUS
    <2>2. PICK x \in s : TRUE
        OBVIOUS
    <2>3. n - x \in T
        OBVIOUS
    <2> QED
        BY <2>1, <2>3
<1>2. PICK t \in T : \A u \in T : t <= u
    BY <1>1, LeastOf
<1>3. PICK x \in s : t = n - x
    OBVIOUS
<1>4. \A y \in s : x >= y
    <2> SUFFICES ASSUME NEW y \in s
                 PROVE  x >= y
        OBVIOUS
    <2>1. n - y \in T
        OBVIOUS
    <2> QED
        BY <1>2, <1>3, <2>1
<1>5. Max(s) \in s /\ \A y \in s : Max(s) >= y
    BY <1>3, <1>4, Zenon DEF Max
<1> QED
    BY <1>5

(* The points of some words: a sum of them is a number, and all of them    *)
(* when each word has all: by induction over the words.                    *)
LEMMA SumIs ==
    ASSUME NEW points, points \in Seq(0 .. 100)
    PROVE  /\ Sum(points) \in Nat
           /\ (\A i \in DOMAIN points : points[i] = 100) => Sum(points) = 100 * Len(points)
<1> DEFINE n == Len(points)
           D == 1 .. n
           Step(s, v) == v + points[Max(s)]
           Iterates(g, k) ==
               g = [s \in SUBSET (1 .. k) |->
                       IF s = {} THEN 0 ELSE Step(s, g[s \ {Max(s)}])]
           Some == {k \in Nat : \E g : Iterates(g, k)}
<1>1. D = DOMAIN points /\ n \in Nat
    OBVIOUS
<1>2. ASSUME NEW k \in Nat, NEW s \in SUBSET (1 .. k + 1), s # {}
      PROVE  Max(s) \in s /\ s \ {Max(s)} \in SUBSET (1 .. k)
    <2>1. Max(s) \in s /\ \A x \in s : x <= Max(s)
        <3>1. k + 1 \in Nat
            OBVIOUS
        <3> QED
            BY <1>2, <3>1, MaxOf
    <2>2. ASSUME NEW x \in s \ {Max(s)}
          PROVE  x \in 1 .. k
        <3> DEFINE m == Max(s)
        <3>1. m \in 1 .. k + 1 /\ x \in 1 .. k + 1 /\ x <= m /\ x # m
            BY <2>1
        <3> HIDE DEF m
        <3> QED
            BY <3>1
    <2> QED
        BY <2>1, <2>2
<1>3. Nat \subseteq Some
    <2>1. 0 \in Some
        <3> DEFINE g == [s \in SUBSET (1 .. 0) |-> 0]
        <3>1. \A s \in SUBSET (1 .. 0) : s = {}
            OBVIOUS
        <3>2. Iterates(g, 0)
            <4> HIDE DEF Step
            <4> QED
                BY <3>1
        <3> HIDE DEF Iterates
        <3> QED
            BY <3>2
    <2>2. ASSUME NEW k \in Nat, k \in Some
          PROVE  k + 1 \in Some
        <3> HIDE DEF Step
        <3>1. PICK g : Iterates(g, k)
            BY <2>2
        <3> DEFINE h == [s \in SUBSET (1 .. k + 1) |->
                            IF s = {} THEN 0 ELSE Step(s, g[s \ {Max(s)}])]
        <3>2. ASSUME NEW s \in SUBSET (1 .. k)
              PROVE  h[s] = g[s]
            <4>1. s \in SUBSET (1 .. k + 1)
                OBVIOUS
            <4>2. h[s] = IF s = {} THEN 0 ELSE Step(s, g[s \ {Max(s)}])
                BY <4>1
            <4>3. g[s] = IF s = {} THEN 0 ELSE Step(s, g[s \ {Max(s)}])
                BY <3>1
            <4> QED
                BY <4>2, <4>3
        <3>3. \A s \in SUBSET (1 .. k + 1) : s # {} => h[s \ {Max(s)}] = g[s \ {Max(s)}]
            BY <1>2, <3>2
        <3>4. Iterates(h, k + 1)
            <4>1. \A s \in SUBSET (1 .. k + 1) :
                     h[s] = IF s = {} THEN 0 ELSE Step(s, h[s \ {Max(s)}])
                BY <3>3
            <4>2. h = [s \in SUBSET (1 .. k + 1) |-> h[s]]
                OBVIOUS
            <4> HIDE DEF h
            <4> QED
                BY <4>1, <4>2
        <3> HIDE DEF Iterates, h
        <3> QED
            BY <2>2, <3>4
    <2> HIDE DEF Some
    <2> QED
        BY <2>1, <2>2, NatSet
<1> DEFINE iter == CHOOSE g : Iterates(g, n)
<1>4. Iterates(iter, n)
    <2>1. \E g : Iterates(g, n)
        <3> HIDE DEF Iterates
        <3> QED
            BY <1>1, <1>3
    <2> HIDE DEF Iterates
    <2> QED
        BY <2>1
<1>5. Sum(points) = iter[D]
    BY <1>1 DEF Sum, FoldLeft, MapThenFoldSet
<1> HIDE DEF iter
<1>6. \A s \in SUBSET D : iter[s] = IF s = {} THEN 0 ELSE Step(s, iter[s \ {Max(s)}])
    BY <1>4
<1> DEFINE full == \A i \in DOMAIN points : points[i] = 100
           Good == {k \in Nat : k <= n => iter[1 .. k] \in Nat /\ (full => iter[1 .. k] = 100 * k)}
<1>7. 0 \in Good
    <2>1. 1 .. 0 = {} /\ {} \in SUBSET D
        OBVIOUS
    <2>2. iter[{}] = 0
        <3> HIDE DEF Step
        <3> QED
            BY <1>6, <2>1
    <2> HIDE DEF full
    <2> QED
        BY <2>1, <2>2
<1>8. ASSUME NEW k \in Nat, k \in Good
      PROVE  k + 1 \in Good
    <2> SUFFICES ASSUME k + 1 <= n
                 PROVE  iter[1 .. k + 1] \in Nat /\ (full => iter[1 .. k + 1] = 100 * (k + 1))
        BY <1>1
    <2> DEFINE s == 1 .. k + 1
    <2>1. s \in SUBSET D /\ s \in SUBSET (1 .. k + 1) /\ s # {} /\ k + 1 \in s /\ k + 1 \in Nat
        <3>1. k + 1 \in Nat /\ n \in Nat /\ k + 1 <= n
            BY <1>1
        <3> HIDE DEF n
        <3>2. \A x \in 1 .. k + 1 : x \in 1 .. n
            BY <3>1
        <3>3. k + 1 \in 1 .. k + 1
            BY <3>1
        <3> QED
            BY <3>1, <3>2, <3>3
    <2>2. Max(s) = k + 1
        <3>1. Max(s) \in s /\ \A x \in s : x <= Max(s)
            BY <2>1, MaxOf
        <3> QED
            BY <2>1, <3>1
    <2>3. s \ {k + 1} = 1 .. k
        OBVIOUS
    <2>4. iter[s] = iter[1 .. k] + points[k + 1]
        <3>1. iter[s] = iter[s \ {Max(s)}] + points[Max(s)]
            <4> HIDE DEF s, D
            <4> QED
                BY <1>6, <2>1
        <3> HIDE DEF s
        <3> QED
            BY <2>2, <2>3, <3>1
    <2>5. iter[1 .. k] \in Nat /\ (full => iter[1 .. k] = 100 * k)
        <3> HIDE DEF full
        <3> QED
            BY <1>1, <1>8
    <2>6. points[k + 1] \in 0 .. 100 /\ (full => points[k + 1] = 100)
        <3>1. k + 1 \in DOMAIN points
            BY <1>1
        <3> QED
            BY <3>1
    <2> HIDE DEF full
    <2>8. iter[1 .. k] + points[k + 1] \in Nat
        <3>1. \A a \in Nat, b \in 0 .. 100 : a + b \in Nat
            OBVIOUS
        <3>2. iter[1 .. k] \in Nat
            BY <2>5
        <3>3. points[k + 1] \in 0 .. 100
            BY <2>6
        <3> QED
            BY ONLY <3>1, <3>2, <3>3
    <2>9. full => iter[1 .. k] + points[k + 1] = 100 * (k + 1)
        BY <2>5, <2>6
    <2> QED
        BY <2>4, <2>8, <2>9
<1>9. Nat \subseteq Good
    <2> HIDE DEF Good
    <2> QED
        BY <1>7, <1>8, NatSet
<1>10. iter[D] \in Nat /\ (full => iter[D] = 100 * n)
    <2> HIDE DEF full
    <2> QED
        BY <1>1, <1>9
<1> QED
    BY <1>5, <1>10

(* How alike two words are: in hundredths, and all when they are the same. *)
LEMMA TokenScoreIs ==
    ASSUME NEW t, NEW q, NEW options
    PROVE  TokenScore(t, q, options) \in 0 .. 100 /\ (t = q => TokenScore(t, q, options) = 100)
BY SimilarityAssumption DEF TokenScore

(* The best of some scores is one of them, and none is better.             *)
LEMMA BestIs ==
    ASSUME NEW scores \in SUBSET (0 .. 100)
    PROVE  Best(scores) \in 0 .. 100 /\ (100 \in scores => Best(scores) = 100)
<1> DEFINE all == scores \cup {0}
           T == {100 - s : s \in all}
<1>1. T \in SUBSET Nat /\ T # {}
    OBVIOUS
<1>2. PICK t \in T : \A u \in T : t <= u
    BY <1>1, LeastOf
<1>3. PICK s \in all : t = 100 - s
    OBVIOUS
<1>4. \A r \in all : r <= s
    <2> SUFFICES ASSUME NEW r \in all PROVE r <= s
        OBVIOUS
    <2>1. 100 - r \in T
        OBVIOUS
    <2>2. r \in 0 .. 100 /\ s \in 0 .. 100
        OBVIOUS
    <2>3. 100 - s <= 100 - r
        <3> HIDE DEF T, all
        <3> QED
            BY <1>2, <1>3, <2>1
    <2> HIDE DEF T, all
    <2> QED
        BY <2>2, <2>3
<1>5. Best(scores) \in all /\ \A r \in all : r <= Best(scores)
    BY <1>3, <1>4, Zenon DEF Best
<1>6. Best(scores) \in 0 .. 100
    <2>1. all \subseteq 0 .. 100
        OBVIOUS
    <2> HIDE DEF all
    <2> QED
        BY <1>5, <2>1
<1>7. 100 \in scores => 100 <= Best(scores)
    BY <1>5
<1> QED
    BY <1>6, <1>7

(* The words a text is matched by, of a text that is a sequence.           *)
LEMMA TokensAre ==
    ASSUME NEW X, NEW text \in Seq(X)
    PROVE  TokenizeForMatching(text) \in Seq(Range(text))
<1>1. Chosen(text, Range(text) \ ShortWords) \in Seq(Range(text))
    <2>1. Chosen(text, Range(text) \ ShortWords)
              \in Seq(Range(text) \cap (Range(text) \ ShortWords))
        BY ChosenIs
    <2> QED
        BY <2>1
<1> QED
    BY <1>1, SubSeqProperties DEF TokenizeForMatching, AtMost

(* A text in lower case is one.                                            *)
LEMMA FoldedIs ==
    ASSUME NEW text, text \in Seq(Range(text)), NEW caseSensitive
    PROVE  Folded(text, caseSensitive) \in Seq(Range(Folded(text, caseSensitive)))
<1> DEFINE lower == [i \in DOMAIN text |-> Lower(text[i])]
<1>1. lower \in Seq(Range(lower))
    <2>1. DOMAIN text = 1 .. Len(text) /\ Len(text) \in Nat
        OBVIOUS
    <2>2. \A i \in DOMAIN text : lower[i] \in Range(lower)
        BY DEF Range
    <2> HIDE DEF lower
    <2>3. lower = [i \in 1 .. Len(text) |-> lower[i]]
        BY <2>1 DEF lower
    <2> QED
        BY <2>1, <2>2, <2>3, IsASeq
<1> QED
    BY <1>1 DEF Folded

(* What a text is said to match: its score is a number, and a text matches *)
(* the same words, if there are any.                                       *)
LEMMA FuzzyIs ==
    ASSUME NEW X, NEW text \in Seq(X), NEW Y, NEW asked \in Seq(Y), NEW options,
           options.minTokenOverlap \in 0 .. 100
    PROVE  LET match == FuzzyTokensMatch(text, asked, options)
           IN  /\ match.score \in Int
               /\ match.isMatch => asked # <<>>
               /\ text = asked /\ asked # <<>> => match.isMatch
<1> DEFINE best(q) == Best({TokenScore(t, q, options) : t \in Range(text)})
           points == [i \in DOMAIN asked |-> best(asked[i])]
           total == Sum(points)
           match == FuzzyTokensMatch(text, asked, options)
<1>1. ASSUME NEW q
      PROVE  best(q) \in 0 .. 100 /\ (q \in Range(text) => best(q) = 100)
    <2> DEFINE scores == {TokenScore(t, q, options) : t \in Range(text)}
    <2>1. scores \in SUBSET (0 .. 100)
        <3>1. \A t : TokenScore(t, q, options) \in 0 .. 100
            BY TokenScoreIs
        <3> QED
            BY <3>1
    <2>2. q \in Range(text) => 100 \in scores
        BY TokenScoreIs
    <2> HIDE DEF scores
    <2>3. Best(scores) \in 0 .. 100 /\ (100 \in scores => Best(scores) = 100)
        BY <2>1, BestIs
    <2> QED
        BY <2>2, <2>3 DEF scores
<1> HIDE DEF best
<1>2. points \in Seq(0 .. 100)
    <2>1. DOMAIN asked = 1 .. Len(asked) /\ Len(asked) \in Nat
        OBVIOUS
    <2> QED
        BY <1>1, <2>1, IsASeq
<1>3. DOMAIN points = DOMAIN asked /\ Len(points) = Len(asked)
    OBVIOUS
<1>4. text = asked => \A i \in DOMAIN points : points[i] = 100
    <2> SUFFICES ASSUME text = asked, NEW i \in DOMAIN asked
                 PROVE  points[i] = 100
        OBVIOUS
    <2>1. asked[i] \in Range(text)
        BY DEF Range
    <2> QED
        BY <1>1, <2>1
<1> HIDE DEF points
<1>5. total \in Nat /\ (text = asked => total = 100 * Len(asked))
    BY <1>2, <1>3, <1>4, SumIs
<1> HIDE DEF total
<1>6. /\ match.isMatch = (asked # <<>> /\ total >= options.minTokenOverlap * Len(asked))
      /\ match.score = IF asked = <<>> THEN 0 ELSE total \div Len(asked)
    BY DEF FuzzyTokensMatch, total, points, best
<1> HIDE DEF match
<1>7. Len(asked) \in Nat /\ (asked # <<>> => Len(asked) > 0)
    OBVIOUS
<1>8. 100 * Len(asked) >= options.minTokenOverlap * Len(asked)
    <2>1. \A a \in Nat, b \in 0 .. 100 : 100 * a >= b * a
        <3> SUFFICES ASSUME NEW a \in Nat, NEW b \in 0 .. 100
                     PROVE  (100 - b) * a >= 0
            OBVIOUS
        <3>1. 100 - b \in Nat
            OBVIOUS
        <3> QED
            BY <3>1
    <2> QED
        BY <1>7, <2>1
<1>9. match.score \in Int
    BY <1>5, <1>6, <1>7
<1> QED
    BY <1>5, <1>6, <1>8, <1>9 DEF match

(* A node as the pages have them.                                          *)
IsNode(n) ==
    /\ n.label \in Seq(Range(n.label))
    /\ \A key \in DOMAIN n.state : n.state[key] \in BOOLEAN

(* The words of a label and of what is asked for it.                       *)
LEMMA LabelIs ==
    ASSUME NEW n, IsNode(n), NEW label, label.text \in Seq(Range(label.text)),
           label.options.minTokenOverlap \in 0 .. 100
    PROVE  LET asked == TokenizeForMatching(Folded(label.text, label.caseSensitive))
           IN  /\ FuzzyLabel(n, label).score \in Int
               /\ FuzzyLabel(n, label).isMatch => asked # <<>>
               /\ asked # <<>> /\ Folded(n.label, label.caseSensitive)
                                    = Folded(label.text, label.caseSensitive)
                    => FuzzyLabel(n, label).isMatch
<1> DEFINE text == Folded(n.label, label.caseSensitive)
           wanted == Folded(label.text, label.caseSensitive)
           had == TokenizeForMatching(text)
           asked == TokenizeForMatching(wanted)
<1>1. text \in Seq(Range(text)) /\ wanted \in Seq(Range(wanted))
    BY FoldedIs DEF IsNode
<1>2. FuzzyLabel(n, label) = FuzzyTokensMatch(had, asked, label.options)
    BY DEF FuzzyLabel
<1> HIDE DEF text, wanted
<1>3. had \in Seq(Range(text)) /\ asked \in Seq(Range(wanted))
    BY <1>1, TokensAre
<1>4. text = wanted => had = asked
    OBVIOUS
<1> HIDE DEF had, asked
<1>5. LET match == FuzzyTokensMatch(had, asked, label.options)
      IN  /\ match.score \in Int
          /\ match.isMatch => asked # <<>>
          /\ had = asked /\ asked # <<>> => match.isMatch
    BY <1>3, FuzzyIs
<1> QED
    BY <1>2, <1>4, <1>5 DEF had, asked, text, wanted

(* How well a node matches is a number.                                    *)
LEMMA MatchScoreIs ==
    ASSUME NEW n, IsNode(n), NEW request, IsRequest(request)
    PROVE  ScoreMatch(n, request) \in Int
<1> DEFINE label == IF request.label.mode = "fuzzy"
                    THEN (LabelWeight("fuzzy") * FuzzyLabel(n, request.label).score) \div 100
                    ELSE LabelWeight(request.label.mode)
           states == {key \in DOMAIN request.state \cap DOMAIN n.state :
                          n.state[key] = request.state[key]}
           kinds == Weight("kind" \in request.given, 150)
           inRegion == Weight("region" \in request.given, 120)
           group == Weight(request.group # Null, 80)
           heading == Weight(request.heading # Null, 80)
           visible == Weight("visible" \in DOMAIN n.state /\ n.state["visible"], 20)
<1>1. label \in Int
    <2>1. CASE request.label.mode = "fuzzy"
        <3>1. request.label.mode # Null
            BY <2>1 DEF IsRequest, Null
        <3>2. FuzzyLabel(n, request.label).score \in Int
            BY <3>1, LabelIs DEF IsRequest
        <3>3. LabelWeight("fuzzy") = 250
            BY DEF LabelWeight
        <3> QED
            BY <2>1, <3>2, <3>3
    <2>2. CASE request.label.mode # "fuzzy"
        BY <2>2 DEF LabelWeight
    <2> QED
        BY <2>1, <2>2
<1>2. Cardinality(states) \in Nat
    <2>1. IsFiniteSet(DOMAIN request.state) /\ states \in SUBSET DOMAIN request.state
        BY DEF IsRequest
    <2> HIDE DEF states
    <2> QED
        BY <2>1, FS_Subset, FS_CardinalityType
<1>3. \A given, w : w \in Int => Weight(given, w) \in Int
    BY DEF Weight
<1>4. kinds \in Int /\ inRegion \in Int /\ group \in Int /\ heading \in Int /\ visible \in Int
    <2>1. 150 \in Int /\ 120 \in Int /\ 80 \in Int /\ 20 \in Int
        OBVIOUS
    <2> QED
        BY ONLY <1>3, <2>1
<1>5. ScoreMatch(n, request)
        = label + kinds + inRegion + 30 * Cardinality(states) + group + heading + visible
    BY DEF ScoreMatch
<1> HIDE DEF label, states, kinds, inRegion, group, heading, visible
<1> QED
    BY <1>1, <1>2, <1>4, <1>5

-----------------------------------------------------------------------------
(* A request that is narrowed is one, and a node matches it when it        *)
(* matched and passes the filter that was added: a filter by kind, ...     *)
LEMMA NarrowedByKind ==
    ASSUME NEW request, IsRequest(request), "kind" \notin request.given, NEW kind
    PROVE  LET narrowed == [request EXCEPT !.given = @ \cup {"kind"}, !.kinds = {kind}]
           IN  /\ IsRequest(narrowed) /\ narrowed.minScore = request.minScore
               /\ \A n : Matches(n, narrowed) <=> Matches(n, request) /\ n.kind = kind
BY DEF IsRequest, Matches

(* ... by region, ...                                                      *)
LEMMA NarrowedByRegion ==
    ASSUME NEW request, IsRequest(request), "region" \notin request.given, NEW region
    PROVE  LET narrowed == [request EXCEPT !.given = @ \cup {"region"}, !.regions = {region}]
           IN  /\ IsRequest(narrowed) /\ narrowed.minScore = request.minScore
               /\ \A n : Matches(n, narrowed) <=> Matches(n, request) /\ n.region = region
BY DEF IsRequest, Matches

(* ... by group, ...                                                       *)
LEMMA NarrowedByGroup ==
    ASSUME NEW request, IsRequest(request), request.group = Null, NEW group, group # Null
    PROVE  LET narrowed == [request EXCEPT !.group = group]
           IN  /\ IsRequest(narrowed) /\ narrowed.minScore = request.minScore
               /\ \A n : Matches(n, narrowed) <=> Matches(n, request) /\ n.group = group
BY DEF IsRequest, Matches

(* ... by a flag that is set, ...                                          *)
LEMMA NarrowedByState ==
    ASSUME NEW request, IsRequest(request), "state" \notin request.given, NEW key
    PROVE  LET narrowed == [request EXCEPT !.given = @ \cup {"state"}, !.state = [k \in {key} |-> TRUE]]
           IN  /\ IsRequest(narrowed) /\ narrowed.minScore = request.minScore
               /\ \A n : IsNode(n) =>
                      (Matches(n, narrowed)
                          <=> Matches(n, request) /\ key \in DOMAIN n.state /\ n.state[key])
<1> DEFINE flag == [k \in {key} |-> TRUE]
           narrowed == [request EXCEPT !.given = @ \cup {"state"}, !.state = flag]
<1>1. flag # <<>> /\ DOMAIN flag = {key} /\ flag[key] = TRUE
    <2>1. DOMAIN flag = {key} /\ key \in {key} /\ flag[key] = TRUE
        OBVIOUS
    <2>2. DOMAIN <<>> = {}
        OBVIOUS
    <2> QED
        BY <2>1, <2>2
<1>2. IsFiniteSet(DOMAIN flag)
    BY <1>1, FS_Singleton
<1> HIDE DEF flag
<1>3. /\ narrowed.state = flag /\ narrowed.kinds = request.kinds
      /\ narrowed.given = request.given \cup {"state"} /\ narrowed.suggest = request.suggest
      /\ narrowed.label = request.label /\ narrowed.regions = request.regions
      /\ narrowed.group = request.group /\ narrowed.heading = request.heading
      /\ narrowed.minScore = request.minScore /\ narrowed.limit = request.limit
      /\ DOMAIN narrowed = DOMAIN request
    BY DEF IsRequest
<1> HIDE DEF narrowed
<1>4. IsRequest(narrowed)
    BY <1>2, <1>3 DEF IsRequest
<1>5. ASSUME NEW n, IsNode(n)
      PROVE  MatchState(n, flag) <=> key \in DOMAIN n.state /\ n.state[key]
    <2>1. DOMAIN <<>> = {}
        OBVIOUS
    <2>2. key \in DOMAIN n.state => n.state # <<>>
        BY <2>1
    <2>3. key \in DOMAIN n.state => n.state[key] \in BOOLEAN
        BY <1>5 DEF IsNode
    <2> QED
        BY <1>1, <2>2, <2>3 DEF MatchState
<1>6. ASSUME NEW n, IsNode(n)
      PROVE  Matches(n, narrowed)
                <=> Matches(n, request) /\ key \in DOMAIN n.state /\ n.state[key]
    BY <1>1, <1>3, <1>5, <1>6 DEF Matches
<1> QED
    BY <1>4, <1>6 DEF narrowed, flag

(* ... and by the whole label, when something has matched a part of it and *)
(* the label ignores case and is not empty.                                *)
LEMMA NarrowedByLabel ==
    ASSUME NEW request, IsRequest(request), request.label.mode \notin {Null, "exact"},
           NEW m, IsNode(m), Matches(m, request)
    PROVE  LET exact == [request.label EXCEPT !.mode = "exact", !.caseSensitive = FALSE]
               narrowed == [request EXCEPT !.label = exact]
           IN  /\ IsRequest(narrowed) /\ narrowed.minScore = request.minScore
               /\ SameLabel(request, narrowed) =>
                     \A n : IsNode(n) =>
                        (Matches(n, narrowed)
                            <=> Matches(n, request)
                                  /\ Folded(n.label, FALSE) = Folded(request.label.text, FALSE))
<1> DEFINE label == request.label
           exact == [label EXCEPT !.mode = "exact", !.caseSensitive = FALSE]
           narrowed == [request EXCEPT !.label = exact]
           asked == Folded(label.text, FALSE)
<1>1. /\ exact.mode = "exact" /\ exact.caseSensitive = FALSE /\ exact.text = label.text
      /\ exact.options = label.options /\ DOMAIN exact = DOMAIN label
    BY DEF IsRequest
<1>2. /\ label.mode \in {"contains", "fuzzy"} /\ label.text \in Seq(Range(label.text))
      /\ label.options.minTokenOverlap \in 0 .. 100
    BY DEF IsRequest, Null
<1> HIDE DEF exact
<1>3. /\ narrowed.given = request.given /\ narrowed.suggest = request.suggest
      /\ narrowed.label = exact /\ narrowed.kinds = request.kinds
      /\ narrowed.state = request.state /\ narrowed.regions = request.regions
      /\ narrowed.group = request.group /\ narrowed.heading = request.heading
      /\ narrowed.minScore = request.minScore /\ narrowed.limit = request.limit
      /\ DOMAIN narrowed = DOMAIN request
    BY DEF IsRequest
<1> HIDE DEF narrowed
<1>4. IsRequest(narrowed)
    BY <1>1, <1>2, <1>3 DEF IsRequest
<1>5. ASSUME label.text # <<>>
      PROVE  asked # <<>> /\ asked \in Seq(Range(asked))
    <2>1. asked \in Seq(Range(asked))
        BY <1>2, FoldedIs
    <2>2. DOMAIN asked = DOMAIN label.text
        BY DEF Folded
    <2>3. \A R, s : s \in Seq(R) /\ s # <<>> => 1 \in DOMAIN s
        <3> SUFFICES ASSUME NEW R, NEW s \in Seq(R), s # <<>>
                     PROVE  1 \in DOMAIN s
            OBVIOUS
        <3>1. Len(s) \in Nat /\ Len(s) > 0 /\ DOMAIN s = 1 .. Len(s)
            OBVIOUS
        <3> QED
            BY <3>1
    <2>4. 1 \in DOMAIN label.text /\ DOMAIN <<>> = {}
        BY <1>2, <1>5, <2>3
    <2> QED
        BY <2>1, <2>2, <2>4
<1>6. ASSUME label.text # <<>>, NEW n, IsNode(n)
      PROVE  MatchLabel(n, exact) <=> Folded(n.label, FALSE) = asked
    BY <1>1, <1>5, <1>6 DEF MatchLabel
<1>7. ASSUME label.text # <<>>, label.caseSensitive = FALSE,
             NEW n, IsNode(n), Folded(n.label, FALSE) = asked
      PROVE  MatchLabel(n, label)
    <2>1. CASE label.mode = "contains"
        <3>1. 0 \in 0 .. Len(asked) - Len(asked) /\ \A j \in DOMAIN asked : 0 + j = j
            <4> HIDE DEF asked
            <4>1. Len(asked) \in Nat /\ DOMAIN asked = 1 .. Len(asked)
                BY <1>5, <1>7
            <4>2. 0 \in 0 .. Len(asked) - Len(asked)
                BY <4>1
            <4>3. \A j \in DOMAIN asked : 0 + j = j
                BY <4>1
            <4> QED
                BY <4>2, <4>3
        <3>2. Includes(asked, asked)
            BY <3>1 DEF Includes
        <3> QED
            BY <1>2, <1>7, <2>1, <3>2 DEF MatchLabel
    <2>2. CASE label.mode = "fuzzy"
        <3>1. FuzzyLabel(m, label).isMatch
            BY <2>2 DEF Matches, MatchLabel
        <3>2. TokenizeForMatching(Folded(label.text, label.caseSensitive)) # <<>>
            BY <1>2, <3>1, LabelIs
        <3>3. FuzzyLabel(n, label).isMatch
            BY <1>2, <1>7, <3>2, LabelIs
        <3> QED
            BY <2>2, <3>3 DEF MatchLabel
    <2> QED
        BY <1>2, <2>1, <2>2
<1>8. label.caseSensitive \in BOOLEAN
    BY DEF IsRequest
<1>9. ASSUME label.text # <<>>, label.caseSensitive = FALSE, NEW n, IsNode(n)
      PROVE  Matches(n, narrowed) <=> Matches(n, request) /\ Folded(n.label, FALSE) = asked
    BY <1>3, <1>6, <1>7, <1>9 DEF Matches
<1>10. exact # label
    BY <1>1, <1>2
<1>11. SameLabel(request, narrowed) => label.caseSensitive = FALSE /\ label.text # <<>>
    BY <1>3, <1>8, <1>10 DEF SameLabel
<1> QED
    BY <1>3, <1>4, <1>9, <1>11 DEF narrowed, exact

(* How many of some nodes match a request.                                 *)
HowMany(q, request) == Cardinality({i \in DOMAIN q : Matches(q[i], request)})

(* What a suggestion for a request promises, if nothing has been cut off,  *)
(* is what there is.                                                       *)
Keeps(s, q, request, whole) ==
    /\ IsRequest(s.request)
    /\ s.request.minScore = request.minScore
    /\ whole /\ SameLabel(request, s.request) => s.expected = HowMany(q, s.request)

(* Nodes that match a request: all of them, in some order, if nothing has  *)
(* been cut off.                                                           *)
AreMatches(m, q, request, whole) ==
    /\ m \in Seq(Range(q))
    /\ \A n \in Range(m) : Matches(n, request)
    /\ whole => Renumbers(m, Chosen(q, {n \in Range(q) : Matches(n, request)}))

(* Nodes and a request that it is asked with.                              *)
Asked(q, request) ==
    /\ \E X : q \in Seq(X)
    /\ \A n \in Range(q) : IsNode(n)
    /\ IsRequest(request)

(* Of some nodes those match a request that match another and are in W.    *)
Narrows(q, narrowed, request, W) ==
    \A n \in Range(q) : Matches(n, narrowed) <=> Matches(n, request) /\ n \in W

(* Counting the matches that pass a filter counts the nodes that match the *)
(* request with that filter.                                               *)
LEMMA CountsAlike ==
    ASSUME NEW q, NEW request, Asked(q, request), NEW m, AreMatches(m, q, request, TRUE),
           NEW W, NEW narrowed, Narrows(q, narrowed, request, W)
    PROVE  Among(m, W) = HowMany(q, narrowed)
<1> DEFINE S == {n \in Range(q) : Matches(n, request)}
           chosen == Chosen(q, S)
<1>1. PICK X : q \in Seq(X)
    BY DEF Asked
<1>2. chosen \in Seq(Range(q) \cap S) /\ Renumbers(m, chosen)
    BY <1>1, ChosenIs DEF AreMatches
<1>3. Among(m, W) = Among(chosen, W)
    <2> HIDE DEF chosen
    <2> QED
        BY <1>2, RenumberedCounts
<1>4. Among(chosen, W) = Among(q, S \cap W)
    <2> HIDE DEF S
    <2> QED
        BY <1>1, ChosenCounts
<1>5. {i \in DOMAIN q : q[i] \in S \cap W} = {i \in DOMAIN q : Matches(q[i], narrowed)}
    BY DEF Range, Narrows
<1>6. Among(q, S \cap W) = HowMany(q, narrowed)
    BY <1>5 DEF Among, HowMany
<1> QED
    BY <1>3, <1>4, <1>6

(* The values that are told apart are in a sequence.                       *)
LEMMA DistinctIs ==
    ASSUME NEW X, NEW q \in Seq(X)
    PROVE  DistinctValues(q) \in Seq(X)
<1> DEFINE numbers == [i \in DOMAIN q |-> i]
           S == {i \in DOMAIN q : \A j \in 1 .. i - 1 : q[j] # q[i]}
           at == Chosen(numbers, S)
<1>1. numbers \in Seq(DOMAIN q)
    <2>1. DOMAIN q = 1 .. Len(q) /\ Len(q) \in Nat
        OBVIOUS
    <2> QED
        BY <2>1, IsASeq
<1> HIDE DEF numbers, S
<1>2. at \in Seq(Range(numbers) \cap S)
    BY <1>1, ChosenIs
<1>3. Range(numbers) \subseteq DOMAIN q
    BY <1>1, ElementsOf
<1> HIDE DEF at
<1>4. Len(at) \in Nat /\ DOMAIN at = 1 .. Len(at) /\ \A k \in DOMAIN at : at[k] \in DOMAIN q
    BY <1>2, <1>3
<1>5. [k \in 1 .. Len(at) |-> q[at[k]]] \in Seq(X)
    <2>1. \A k \in 1 .. Len(at) : q[at[k]] \in X
        BY <1>4
    <2> QED
        BY <1>4, <2>1, IsASeq
<1>6. DistinctValues(q) = [k \in DOMAIN at |-> q[at[k]]]
    BY DEF DistinctValues, at, numbers, S
<1> QED
    BY <1>4, <1>5, <1>6

(* A sequence of suggestions that keep what they promise.                  *)
IsPart(made, q, request, whole) ==
    /\ made \in Seq(Range(made))
    /\ \A s \in Range(made) : Keeps(s, q, request, whole)

(* No suggestion.                                                          *)
LEMMA NoPart ==
    ASSUME NEW q, NEW request, NEW whole
    PROVE  IsPart(<<>>, q, request, whole)
BY DEF IsPart, Range

(* One for each of some values.                                            *)
LEMMA PartOf ==
    ASSUME NEW V, NEW values \in Seq(V), NEW q, NEW request, NEW whole,
           NEW made, made = [i \in DOMAIN values |-> made[i]],
           \A i \in DOMAIN values : Keeps(made[i], q, request, whole)
    PROVE  IsPart(made, q, request, whole)
<1>1. made \in Seq(Range(made))
    <2>1. DOMAIN values = 1 .. Len(values) /\ Len(values) \in Nat
        OBVIOUS
    <2>2. DOMAIN made = DOMAIN values
        OBVIOUS
    <2>3. \A i \in 1 .. Len(values) : made[i] \in Range(made)
        BY <2>1, <2>2 DEF Range
    <2>4. [i \in 1 .. Len(values) |-> made[i]] \in Seq(Range(made))
        BY <2>1, <2>3, IsASeq
    <2> QED
        BY <2>1, <2>4
<1> QED
    BY <1>1 DEF IsPart, Range

(* A suggestion keeps its promise that counts the matches which pass its   *)
(* filter.                                                                 *)
LEMMA FilterKept ==
    ASSUME NEW q, NEW request, Asked(q, request), NEW whole \in BOOLEAN,
           NEW m, AreMatches(m, q, request, whole),
           NEW W, NEW narrowed, IsRequest(narrowed), Narrows(q, narrowed, request, W),
           narrowed.minScore = request.minScore
    PROVE  Keeps([request |-> narrowed, expected |-> Among(m, W)], q, request, whole)
<1>1. ASSUME whole PROVE Among(m, W) = HowMany(q, narrowed)
    <2>1. AreMatches(m, q, request, TRUE)
        BY <1>1 DEF AreMatches
    <2> QED
        BY <2>1, CountsAlike
<1> QED
    BY <1>1 DEF Keeps

(* The values of the matches that are told apart are in a sequence.        *)
LEMMA ValuesAre ==
    ASSUME NEW X, NEW m \in Seq(X), NEW of, of = [i \in DOMAIN m |-> of[i]]
    PROVE  DistinctValues(of) \in Seq(Range(of))
<1>1. DOMAIN m = 1 .. Len(m) /\ Len(m) \in Nat /\ DOMAIN of = DOMAIN m
    OBVIOUS
<1>2. \A i \in 1 .. Len(m) : of[i] \in Range(of)
    BY <1>1 DEF Range
<1>3. [i \in 1 .. Len(m) |-> of[i]] \in Seq(Range(of))
    BY <1>1, <1>2, IsASeq
<1>4. of \in Seq(Range(of))
    BY <1>1, <1>3
<1> QED
    BY <1>4, DistinctIs

(* The suggestions of a kind keep what they promise, ...                   *)
LEMMA KindsKept ==
    ASSUME NEW q, NEW request, Asked(q, request), NEW whole \in BOOLEAN,
           NEW m, AreMatches(m, q, request, whole)
    PROVE  IsPart(RefineKind(m, request), q, request, whole)
<1> DEFINE of == [i \in DOMAIN m |-> m[i].kind]
           kinds == DistinctValues(of)
           made == [i \in DOMAIN kinds |->
                       Suggestion([request EXCEPT !.given = @ \cup {"kind"}, !.kinds = {kinds[i]}],
                                  CountWhere(m, LAMBDA n : n.kind = kinds[i]))]
<1>1. m \in Seq(Range(q)) /\ of = [i \in DOMAIN m |-> of[i]]
    BY DEF AreMatches
<1> HIDE DEF of
<1>2. kinds \in Seq(Range(of))
    BY <1>1, ValuesAre
<1> HIDE DEF kinds
<1>3. ASSUME "kind" \notin request.given, NEW i \in DOMAIN kinds
      PROVE  Keeps(made[i], q, request, whole)
    <2> DEFINE kind == kinds[i]
               narrowed == [request EXCEPT !.given = @ \cup {"kind"}, !.kinds = {kind}]
               W == {n \in Range(q) : n.kind = kind}
    <2>1. made[i] = [request |-> narrowed,
                     expected |-> Cardinality({j \in DOMAIN m : m[j].kind = kind})]
        BY <1>3 DEF Suggestion, CountWhere
    <2> HIDE DEF made
    <2>2. {j \in DOMAIN m : m[j].kind = kind} = {j \in DOMAIN m : m[j] \in W}
        BY <1>1
    <2> HIDE DEF kind
    <2>3. /\ IsRequest(narrowed) /\ narrowed.minScore = request.minScore
          /\ \A n : Matches(n, narrowed) <=> Matches(n, request) /\ n.kind = kind
        BY <1>3, NarrowedByKind DEF Asked
    <2> HIDE DEF narrowed
    <2>4. Narrows(q, narrowed, request, W)
        BY <2>3 DEF Narrows
    <2> HIDE DEF W
    <2> QED
        BY <2>1, <2>2, <2>3, <2>4, FilterKept DEF Among
<1>4. made = [i \in DOMAIN kinds |-> made[i]]
    OBVIOUS
<1>5. RefineKind(m, request) = IF "kind" \in request.given \/ Len(kinds) < 2 THEN <<>> ELSE made
    BY DEF RefineKind, kinds, of
<1> HIDE DEF made
<1>6. "kind" \notin request.given => IsPart(made, q, request, whole)
    BY <1>2, <1>3, <1>4, PartOf
<1> QED
    BY <1>5, <1>6, NoPart

(* ... those of a region, ...                                              *)
LEMMA RegionsKept ==
    ASSUME NEW q, NEW request, Asked(q, request), NEW whole \in BOOLEAN,
           NEW m, AreMatches(m, q, request, whole)
    PROVE  IsPart(RefineRegion(m, request), q, request, whole)
<1> DEFINE of == [i \in DOMAIN m |-> m[i].region]
           all == DistinctValues(of)
           named == Chosen(all, Range(all) \ {"unknown"})
           made == [i \in DOMAIN named |->
                       Suggestion([request EXCEPT !.given = @ \cup {"region"}, !.regions = {named[i]}],
                                  CountWhere(m, LAMBDA n : n.region = named[i]))]
<1>1. m \in Seq(Range(q)) /\ of = [i \in DOMAIN m |-> of[i]]
    BY DEF AreMatches
<1> HIDE DEF of
<1>2. all \in Seq(Range(of))
    BY <1>1, ValuesAre
<1> HIDE DEF all
<1>3. named \in Seq(Range(all) \cap (Range(all) \ {"unknown"}))
    BY <1>2, ChosenIs
<1> HIDE DEF named
<1>4. ASSUME "region" \notin request.given, NEW i \in DOMAIN named
      PROVE  Keeps(made[i], q, request, whole)
    <2> DEFINE region == named[i]
               narrowed == [request EXCEPT !.given = @ \cup {"region"}, !.regions = {region}]
               W == {n \in Range(q) : n.region = region}
    <2>1. made[i] = [request |-> narrowed,
                     expected |-> Cardinality({j \in DOMAIN m : m[j].region = region})]
        BY <1>4 DEF Suggestion, CountWhere
    <2> HIDE DEF made
    <2>2. {j \in DOMAIN m : m[j].region = region} = {j \in DOMAIN m : m[j] \in W}
        BY <1>1
    <2> HIDE DEF region
    <2>3. /\ IsRequest(narrowed) /\ narrowed.minScore = request.minScore
          /\ \A n : Matches(n, narrowed) <=> Matches(n, request) /\ n.region = region
        BY <1>4, NarrowedByRegion DEF Asked
    <2> HIDE DEF narrowed
    <2>4. Narrows(q, narrowed, request, W)
        BY <2>3 DEF Narrows
    <2> HIDE DEF W
    <2> QED
        BY <2>1, <2>2, <2>3, <2>4, FilterKept DEF Among
<1>5. made = [i \in DOMAIN named |-> made[i]]
    OBVIOUS
<1>6. RefineRegion(m, request) = IF "region" \in request.given \/ Len(all) < 2 THEN <<>> ELSE made
    BY DEF RefineRegion, all, named, of
<1> HIDE DEF made
<1>7. "region" \notin request.given => IsPart(made, q, request, whole)
    BY <1>3, <1>4, <1>5, PartOf
<1> QED
    BY <1>6, <1>7, NoPart

(* ... those of a group, ...                                               *)
LEMMA GroupsKept ==
    ASSUME NEW q, NEW request, Asked(q, request), NEW whole \in BOOLEAN,
           NEW m, AreMatches(m, q, request, whole)
    PROVE  IsPart(RefineGroup(m, request), q, request, whole)
<1> DEFINE of == [i \in DOMAIN m |-> m[i].group]
           all == DistinctValues(of)
           groups == Chosen(all, Range(all) \ {Null})
           made == [i \in DOMAIN groups |->
                       Suggestion([request EXCEPT !.group = groups[i]],
                                  CountWhere(m, LAMBDA n : n.group = groups[i]))]
<1>1. m \in Seq(Range(q)) /\ of = [i \in DOMAIN m |-> of[i]]
    BY DEF AreMatches
<1> HIDE DEF of
<1>2. all \in Seq(Range(of))
    BY <1>1, ValuesAre
<1> HIDE DEF all
<1>3. groups \in Seq(Range(all) \cap (Range(all) \ {Null}))
    BY <1>2, ChosenIs
<1> HIDE DEF groups
<1>4. ASSUME request.group = Null, NEW i \in DOMAIN groups
      PROVE  Keeps(made[i], q, request, whole)
    <2> DEFINE group == groups[i]
               narrowed == [request EXCEPT !.group = group]
               W == {n \in Range(q) : n.group = group}
    <2>1. made[i] = [request |-> narrowed,
                     expected |-> Cardinality({j \in DOMAIN m : m[j].group = group})]
        BY <1>4 DEF Suggestion, CountWhere
    <2> HIDE DEF made
    <2>2. {j \in DOMAIN m : m[j].group = group} = {j \in DOMAIN m : m[j] \in W}
        BY <1>1
    <2>3. group # Null
        BY <1>3
    <2> HIDE DEF group
    <2>4. /\ IsRequest(narrowed) /\ narrowed.minScore = request.minScore
          /\ \A n : Matches(n, narrowed) <=> Matches(n, request) /\ n.group = group
        BY <1>4, <2>3, NarrowedByGroup DEF Asked
    <2> HIDE DEF narrowed
    <2>5. Narrows(q, narrowed, request, W)
        BY <2>4 DEF Narrows
    <2> HIDE DEF W
    <2> QED
        BY <2>1, <2>2, <2>4, <2>5, FilterKept DEF Among
<1>5. made = [i \in DOMAIN groups |-> made[i]]
    OBVIOUS
<1>6. RefineGroup(m, request) = IF request.group # Null THEN <<>> ELSE made
    BY DEF RefineGroup, all, groups, of
<1> HIDE DEF made
<1>7. request.group = Null => IsPart(made, q, request, whole)
    BY <1>3, <1>4, <1>5, PartOf
<1> QED
    BY <1>6, <1>7, NoPart

(* ... those of a flag, ...                                                *)
LEMMA StatesKept ==
    ASSUME NEW q, NEW request, Asked(q, request), NEW whole \in BOOLEAN,
           NEW m, AreMatches(m, q, request, whole)
    PROVE  IsPart(AddState(m, request), q, request, whole)
<1> DEFINE keys == [i \in 1 .. 2 |-> IF i = 1 THEN "enabled" ELSE "visible"]
           made == [i \in 1 .. 2 |->
                       LET key == IF i = 1 THEN "enabled" ELSE "visible"
                           flag == [k \in {key} |-> TRUE]
                       IN  Suggestion([request EXCEPT !.given = @ \cup {"state"}, !.state = flag],
                                      CountWhere(m, LAMBDA n : key \in DOMAIN n.state
                                                                   /\ n.state[key]))]
<1>1. m \in Seq(Range(q))
    BY DEF AreMatches
<1>2. keys \in Seq({"enabled", "visible"}) /\ DOMAIN keys = 1 .. 2
    <2>1. \A i \in 1 .. 2 : keys[i] \in {"enabled", "visible"}
        OBVIOUS
    <2> QED
        BY <2>1, IsASeq
<1>3. ASSUME "state" \notin request.given, NEW i \in 1 .. 2
      PROVE  Keeps(made[i], q, request, whole)
    <2> DEFINE key == IF i = 1 THEN "enabled" ELSE "visible"
               narrowed == [request EXCEPT !.given = @ \cup {"state"}, !.state = [k \in {key} |-> TRUE]]
               W == {n \in Range(q) : key \in DOMAIN n.state /\ n.state[key]}
    <2>1. made[i] = [request |-> narrowed,
                     expected |-> Cardinality({j \in DOMAIN m : /\ key \in DOMAIN m[j].state
                                                                /\ m[j].state[key]})]
        BY <1>3 DEF Suggestion, CountWhere
    <2> HIDE DEF made
    <2> HIDE DEF key
    <2>2. {j \in DOMAIN m : key \in DOMAIN m[j].state /\ m[j].state[key]}
              = {j \in DOMAIN m : m[j] \in W}
        BY <1>1
    <2>3. /\ IsRequest(narrowed) /\ narrowed.minScore = request.minScore
          /\ \A n : IsNode(n) =>
                 (Matches(n, narrowed)
                     <=> Matches(n, request) /\ key \in DOMAIN n.state /\ n.state[key])
        BY <1>3, NarrowedByState DEF Asked
    <2> HIDE DEF narrowed
    <2>4. Narrows(q, narrowed, request, W)
        BY <2>3 DEF Narrows, Asked
    <2> HIDE DEF W
    <2> QED
        BY <2>1, <2>2, <2>3, <2>4, FilterKept DEF Among
<1>4. made = [i \in DOMAIN keys |-> made[i]]
    OBVIOUS
<1>5. AddState(m, request) = IF "state" \in request.given THEN <<>> ELSE made
    BY DEF AddState
<1> HIDE DEF made, keys
<1>6. "state" \notin request.given => IsPart(made, q, request, whole)
    BY <1>2, <1>3, <1>4, PartOf
<1> QED
    BY <1>5, <1>6, NoPart

(* ... and the one of the whole label, when there is a match.              *)
LEMMA LabelsKept ==
    ASSUME NEW q, NEW request, Asked(q, request), NEW whole \in BOOLEAN,
           NEW m, AreMatches(m, q, request, whole), 1 \in DOMAIN m
    PROVE  IsPart(RefineLabel(m, request), q, request, whole)
<1> DEFINE label == request.label
           asked == Folded(label.text, FALSE)
           exact == [label EXCEPT !.mode = "exact", !.caseSensitive = FALSE]
           narrowed == [request EXCEPT !.label = exact]
           Whole(n) == Folded(n.label, FALSE) = asked
           W == {n \in Range(q) : Whole(n)}
           one == Suggestion(narrowed,
                             CountWhere(m, LAMBDA n : Whole(n)))
<1>1. m \in Seq(Range(q)) /\ m[1] \in Range(m) /\ m[1] \in Range(q)
    BY DEF AreMatches, Range
<1>2. CASE label.mode \notin {Null, "exact"}
    <2>1. one = [request |-> narrowed, expected |-> Cardinality({j \in DOMAIN m : Whole(m[j])})]
        BY DEF Suggestion, CountWhere
    <2>2. IsNode(m[1]) /\ Matches(m[1], request)
        BY <1>1 DEF Asked, AreMatches
    <2>3. /\ IsRequest(narrowed) /\ narrowed.minScore = request.minScore
          /\ SameLabel(request, narrowed) =>
                \A n : IsNode(n) => (Matches(n, narrowed) <=> Matches(n, request) /\ Whole(n))
        BY <1>2, <2>2, NarrowedByLabel DEF Asked
    <2> HIDE DEF one, Whole
    <2>4. {j \in DOMAIN m : Whole(m[j])} = {j \in DOMAIN m : m[j] \in W}
        BY <1>1
    <2> HIDE DEF narrowed
    <2>5. SameLabel(request, narrowed) => Narrows(q, narrowed, request, W)
        BY <2>3 DEF Narrows, Asked
    <2> HIDE DEF W
    <2>6. Keeps(one, q, request, whole)
        <3>1. CASE SameLabel(request, narrowed)
            BY <2>1, <2>3, <2>4, <2>5, <3>1, FilterKept DEF Among
        <3>2. CASE ~SameLabel(request, narrowed)
            BY <2>1, <2>3, <3>2 DEF Keeps
        <3> QED
            BY <3>1, <3>2
    <2>7. RefineLabel(m, request) = <<one>>
        BY <1>2 DEF RefineLabel, one, narrowed, Whole
    <2>8. <<one>> \in Seq(Range(<<one>>)) /\ Range(<<one>>) = {one}
        BY DEF Range
    <2> QED
        BY <2>6, <2>7, <2>8 DEF IsPart
<1>3. CASE label.mode \in {Null, "exact"}
    <2>1. RefineLabel(m, request) = <<>>
        BY <1>3 DEF RefineLabel
    <2> QED
        BY <2>1, NoPart
<1> QED
    BY <1>2, <1>3

(* All suggestions of an answer keep what they promise.                    *)
LEMMA SuggestionsKept ==
    ASSUME NEW q, NEW request, Asked(q, request), NEW whole \in BOOLEAN,
           NEW m, AreMatches(m, q, request, whole),
           NEW s \in Range(GenerateSuggestions(m, request))
    PROVE  Keeps(s, q, request, whole)
<1> DEFINE kinds == RefineKind(m, request)
           named == RefineRegion(m, request)
           groups == RefineGroup(m, request)
           states == AddState(m, request)
           labels == RefineLabel(m, request)
           all == kinds \o named \o groups \o states \o labels
           X == Range(kinds) \cup Range(named) \cup Range(groups) \cup Range(states)
                    \cup Range(labels)
           N == {t \in Range(all) : t.expected \in 1 .. Len(m) - 1}
           narrowing == Chosen(all, N)
           sorted == SortedBy(narrowing, LAMBDA t, u : t.expected < u.expected)
<1>1. GenerateSuggestions(m, request) = AtMost(sorted, 5)
    BY DEF GenerateSuggestions
<1>2. IsPart(kinds, q, request, whole) /\ IsPart(named, q, request, whole) /\ IsPart(groups, q, request, whole)
          /\ IsPart(states, q, request, whole)
    BY KindsKept, RegionsKept, GroupsKept, StatesKept
<1>3. 1 \in DOMAIN m => IsPart(labels, q, request, whole)
    BY LabelsKept
<1>4. labels \in Seq(Range(labels))
    <2> DEFINE one == labels[1]
    <2>1. labels = <<>> \/ labels = <<one>>
        BY DEF RefineLabel
    <2>2. <<>> \in Seq(Range(<<>>)) /\ <<one>> \in Seq(Range(<<one>>))
        <3> HIDE DEF one
        <3> QED
            BY DEF Range
    <2> HIDE DEF labels
    <2> QED
        BY <2>1, <2>2
<1> HIDE DEF kinds, named, groups, states, labels
<1>5. all \in Seq(X)
    <2>1. kinds \in Seq(X) /\ named \in Seq(X) /\ groups \in Seq(X) /\ states \in Seq(X)
              /\ labels \in Seq(X)
        BY <1>2, <1>4 DEF IsPart
    <2> HIDE DEF X
    <2> QED
        BY <2>1
<1> HIDE DEF all
<1>6. Range(all) \subseteq X
    <2> HIDE DEF X
    <2> QED
        BY <1>5, ElementsOf
<1> HIDE DEF X, N
<1>7. narrowing \in Seq(Range(all) \cap N)
    BY <1>5, ChosenIs
<1> HIDE DEF narrowing
<1>8. \A i \in DOMAIN narrowing : narrowing[i].expected \in Int
    <2>1. \A i \in DOMAIN narrowing : narrowing[i] \in N
        BY <1>7
    <2>2. \A t \in N : t.expected \in Int
        BY DEF N
    <2> QED
        BY <2>1, <2>2
<1>9. sorted \in Seq(Range(narrowing))
    BY <1>7, <1>8, SuggestionsSorted
<1> HIDE DEF sorted
<1>10. AtMost(sorted, 5) \in Seq(Range(narrowing))
    BY <1>9, SubSeqProperties DEF AtMost
<1>11. s \in Range(narrowing) /\ Range(narrowing) \subseteq Range(all) \cap N
    <2>1. Range(AtMost(sorted, 5)) \subseteq Range(narrowing)
        BY <1>10, ElementsOf
    <2>2. Range(narrowing) \subseteq Range(all) \cap N
        BY <1>7, ElementsOf
    <2> QED
        BY <1>1, <2>1, <2>2
<1>12. s \in X /\ s.expected \in 1 .. Len(m) - 1
    BY <1>6, <1>11 DEF N
<1>13. 1 \in DOMAIN m
    <2>1. Len(m) \in Nat /\ DOMAIN m = 1 .. Len(m)
        BY DEF AreMatches
    <2> QED
        BY <1>12, <2>1
<1> QED
    BY <1>2, <1>3, <1>12, <1>13 DEF IsPart, X

(* A sequence is in an order of its own.                                   *)
LEMMA RenumbersItself ==
    ASSUME NEW X, NEW q \in Seq(X)
    PROVE  Renumbers(q, q)
<1> DEFINE p == [k \in DOMAIN q |-> k]
<1>1. p \in [DOMAIN q -> DOMAIN q] /\ \A k \in DOMAIN q : p[k] = k
    OBVIOUS
<1>2. q \in Seq(Range(q))
    BY DEF Range
<1> HIDE DEF p
<1> QED
    BY <1>1, <1>2 DEF Renumbers

(* The nodes of a page, and a request for them.                            *)
LEMMA PagesAre ==
    ASSUME nodes \in Pages, NEW request, IsRequest(request)
    PROVE  Asked(nodes, request) /\ nodes \in Seq(Range(nodes))
BY PagesAssumption DEF Asked, IsNode

(* An answer has the matches it says, and suggestions that keep what they  *)
(* promise.                                                                *)
LEMMA AnswerKept ==
    ASSUME nodes \in Pages, NEW request, IsRequest(request)
    PROVE  LET answered == Answer(request)
           IN  /\ answered.request = request
               /\ request.minScore = 0 => answered.total = HowMany(nodes, request)
               /\ \A i \in DOMAIN answered.suggestions :
                     Keeps(answered.suggestions[i], nodes, request,
                           request.minScore = 0 /\ ~(answered.total > Len(answered.matches)))
<1> DEFINE S == {n \in Range(nodes) : Matches(n, request) /\ ScoresEnough(n, request)}
           matching == Chosen(nodes, S)
           sorted == IF request.sorted THEN BestFirst(matching, request) ELSE matching
           limit == IF request.limit = -1 THEN DefaultLimit ELSE request.limit
           limited == AtMost(sorted, limit)
           whole == request.minScore = 0 /\ ~(Len(matching) > Len(limited))
<1>1. Asked(nodes, request) /\ nodes \in Seq(Range(nodes))
    BY PagesAre
<1>2. Answer(request) =
          [request |-> request, matches |-> limited, total |-> Len(matching),
           suggestions |-> IF request.suggest /\ Len(matching) > 1
                           THEN GenerateSuggestions(limited, request) ELSE <<>>]
    BY DEF Answer, BestFirst
<1>3. /\ matching \in Seq(Range(nodes) \cap S)
      /\ request.minScore = 0 =>
            /\ Len(matching) = HowMany(nodes, request)
            /\ S = {n \in Range(nodes) : Matches(n, request)}
    <2>1. matching \in Seq(Range(nodes) \cap S) /\ Len(matching) = Among(nodes, S)
        <3> HIDE DEF S
        <3> QED
            BY <1>1, ChosenIs, ChosenCounts
    <2>2. ASSUME request.minScore = 0
          PROVE  /\ S = {n \in Range(nodes) : Matches(n, request)}
                 /\ {i \in DOMAIN nodes : nodes[i] \in S}
                        = {i \in DOMAIN nodes : Matches(nodes[i], request)}
        BY <2>2 DEF Range, ScoresEnough
    <2> QED
        BY <2>1, <2>2 DEF Among, HowMany
<1>4. Renumbers(sorted, matching)
    <2>1. Renumbers(matching, matching)
        <3> HIDE DEF matching
        <3> QED
            BY <1>3, RenumbersItself
    <2>2. \A i \in DOMAIN matching : ScoreMatch(matching[i], request) \in Int
        <3>1. \A i \in DOMAIN matching : matching[i] \in Range(nodes)
            <4> HIDE DEF matching
            <4> QED
                BY <1>3
        <3> QED
            BY <1>1, <3>1, MatchScoreIs DEF Asked
    <2> HIDE DEF matching
    <2>3. Renumbers(BestFirst(matching, request), matching)
        BY <1>3, <2>2, MatchesSorted
    <2> QED
        BY <2>1, <2>3
<1>5. Range(matching) \subseteq Range(nodes) \cap S
    <2> HIDE DEF matching
    <2> QED
        BY <1>3, ElementsOf
<1>6. /\ sorted \in Seq(Range(nodes) \cap S) /\ DOMAIN sorted = DOMAIN matching
      /\ Len(sorted) = Len(matching)
    <2> HIDE DEF matching, sorted
    <2>1. sorted \in Seq(Range(matching)) /\ DOMAIN sorted = DOMAIN matching
        BY <1>4 DEF Renumbers
    <2> QED
        BY <1>3, <1>5, <2>1
<1>7. limit \in Nat
    BY RequestsAssumption DEF IsRequest
<1> HIDE DEF sorted, limit
<1>8. /\ limited \in Seq(Range(nodes) \cap S)
      /\ Len(limited) >= Len(sorted) => limited = sorted
    <2> DEFINE cut == IF limit < Len(sorted) THEN limit ELSE Len(sorted)
    <2>1. Len(sorted) \in Nat /\ cut \in 0 .. Len(sorted)
        BY <1>6, <1>7
    <2>2. limited = SubSeq(sorted, 1, cut)
        BY DEF AtMost
    <2> HIDE DEF cut, limited
    <2> HIDE DEF S
    <2>3. limited \in Seq(Range(nodes) \cap S)
        BY <1>6, <2>1, <2>2, SubSeqProperties
    <2>4. Len(limited) = cut
        BY <1>6, <2>1, <2>2, SubSeqProperties
    <2>5. SubSeq(sorted, 1, Len(sorted)) = sorted
        BY <1>6, SubSeqProperties
    <2>6. Len(limited) >= Len(sorted) => limited = sorted
        <3>1. Len(limited) >= Len(sorted) => cut = Len(sorted)
            BY <2>1, <2>4
        <3> QED
            BY <2>2, <2>5, <3>1
    <2> QED
        BY <2>3, <2>6
<1> HIDE DEF limited, matching
<1>9. whole => limited = sorted
    BY <1>3, <1>6, <1>8
<1>10. AreMatches(limited, nodes, request, whole)
    <2>1. limited \in Seq(Range(nodes)) /\ Range(limited) \subseteq Range(nodes) \cap S
        BY <1>8, ElementsOf
    <2>2. \A n \in Range(limited) : Matches(n, request)
        BY <2>1
    <2>3. whole => /\ Renumbers(limited, matching)
                   /\ S = {n \in Range(nodes) : Matches(n, request)}
        BY <1>3, <1>4, <1>9
    <2> HIDE DEF whole
    <2> QED
        BY <2>1, <2>2, <2>3 DEF AreMatches, matching
<1>11. ASSUME NEW s \in Range(GenerateSuggestions(limited, request))
       PROVE  Keeps(s, nodes, request, whole)
    <2>1. whole \in BOOLEAN
        OBVIOUS
    <2> HIDE DEF whole
    <2> QED
        BY <1>1, <1>10, <1>11, <2>1, SuggestionsKept
<1> DEFINE answered == Answer(request)
<1>12. /\ answered.request = request
       /\ answered.total = Len(matching) /\ answered.matches = limited
       /\ answered.suggestions = IF request.suggest /\ Len(matching) > 1
                                 THEN GenerateSuggestions(limited, request) ELSE <<>>
    BY <1>2
<1> HIDE DEF answered
<1>13. \A i \in DOMAIN answered.suggestions : Keeps(answered.suggestions[i], nodes, request, whole)
    BY <1>11, <1>12 DEF Range
<1> QED
    BY <1>3, <1>12, <1>13 DEF answered

(* The suggestions of the last answer keep what they promise of the nodes  *)
(* it was made of, and so did the one that was followed.                   *)
QueriesInv ==
    /\ nodes \in Pages
    /\ \A i \in DOMAIN query.suggestions :
          Keeps(query.suggestions[i], nodes, query.request,
                query.request.minScore = 0 /\ ~(query.total > Len(query.matches)))
    /\ RefinementNarrows

(* An answer to a request, after which nothing or, of those that have no   *)
(* least score, the number of matches is promised, preserves it.           *)
LEMMA AnsweredInv ==
    ASSUME QueriesInv, NEW request, IsRequest(request), query' = Answer(request),
           nodes' = nodes,
           /\ promised'.count >= 0
           /\ promised'.of.minScore = 0
           /\ SameLabel(promised'.of, request)
           => request.minScore = 0 /\ promised'.count = HowMany(nodes, request)
    PROVE  QueriesInv'
<1>1. nodes \in Pages
    BY DEF QueriesInv
<1>2. /\ query'.request = request
      /\ request.minScore = 0 => query'.total = HowMany(nodes, request)
      /\ \A i \in DOMAIN query'.suggestions :
            Keeps(query'.suggestions[i], nodes, request,
                  request.minScore = 0 /\ ~(query'.total > Len(query'.matches)))
    BY <1>1, AnswerKept
<1>3. RefinementNarrows'
    BY <1>2 DEF RefinementNarrows, SameLabel
<1> QED
    BY <1>1, <1>2, <1>3 DEF QueriesInv, Keeps, SameLabel

(* Asking preserves it, ...                                                *)
LEMMA FindInv == QueriesInv /\ Find => QueriesInv'
<1> SUFFICES ASSUME QueriesInv, NEW request \in Requests, query' = Answer(request),
                    nodes' = nodes, promised' = NoPromise
             PROVE  QueriesInv'
    BY DEF Find
<1>1. IsRequest(request)
    BY RequestsAssumption
<1>2. ~(promised'.count >= 0)
    BY DEF NoPromise
<1> QED
    BY <1>1, <1>2, AnsweredInv

(* ... and asking as a suggestion says.                                    *)
LEMMA FollowInv == QueriesInv /\ FollowSuggestion => QueriesInv'
<1> SUFFICES ASSUME QueriesInv, NEW i \in DOMAIN query.suggestions,
                    query' = Answer(query.suggestions[i].request), nodes' = nodes,
                    promised' = [count |-> IF query.total > Len(query.matches) THEN -1
                                           ELSE query.suggestions[i].expected,
                                 of |-> query.request]
             PROVE  QueriesInv'
    BY DEF FollowSuggestion
<1> DEFINE s == query.suggestions[i]
<1>1. Keeps(s, nodes, query.request,
            query.request.minScore = 0 /\ ~(query.total > Len(query.matches)))
    BY DEF QueriesInv
<1>2. IsRequest(s.request)
    BY <1>1 DEF Keeps
<1>3. /\ promised'.count >= 0
      /\ promised'.of.minScore = 0
      /\ SameLabel(promised'.of, s.request)
      => s.request.minScore = 0 /\ promised'.count = HowMany(nodes, s.request)
    BY <1>1 DEF Keeps
<1> QED
    BY <1>2, <1>3, AnsweredInv

(* Every step preserves it.                                                *)
LEMMA QueriesStepInv == QueriesInv /\ [QueriesNext]_queryVars => QueriesInv'
<1> SUFFICES ASSUME QueriesInv, [QueriesNext]_queryVars PROVE QueriesInv'
    OBVIOUS
<1>1. CASE Find
    BY <1>1, FindInv
<1>2. CASE FollowSuggestion
    BY <1>2, FollowInv
<1>3. CASE LinkObservation
    BY <1>3 DEF LinkObservation, QueriesInv, RefinementNarrows, Keeps, SameLabel
<1>4. CASE RetryStale
    <2>1. nodes' \in Pages /\ query' = NoQuery /\ promised' = NoPromise
        BY <1>4 DEF RetryStale
    <2>2. DOMAIN query'.suggestions = {} /\ ~(promised'.count >= 0)
        BY <2>1 DEF NoQuery, NoPromise
    <2> QED
        BY <2>1, <2>2 DEF QueriesInv, RefinementNarrows
<1>5. CASE UNCHANGED queryVars
    BY <1>5 DEF queryVars, QueriesInv, RefinementNarrows, Keeps, SameLabel
<1> QED
    BY <1>1, <1>2, <1>3, <1>4, <1>5 DEF QueriesNext

(* RefinementNarrows, of any pages and all requests that the engine        *)
(* accepts: a suggestion counts the matches that pass its filter, and the  *)
(* filter is decided of a node alone, so that as many nodes match the      *)
(* narrowed request, however the matches were sorted, but for the named    *)
(* exceptions.                                                             *)
THEOREM SuggestionsKeepPromise == Spec => []RefinementNarrows
<1>1. Init => QueriesInv
    <2> SUFFICES ASSUME Init PROVE QueriesInv
        OBVIOUS
    <2>1. nodes \in Pages /\ query = NoQuery /\ promised = NoPromise
        BY DEF Init, QueriesInit
    <2>2. DOMAIN query.suggestions = {} /\ ~(promised.count >= 0)
        BY <2>1 DEF NoQuery, NoPromise
    <2> QED
        BY <2>1, <2>2 DEF QueriesInv, RefinementNarrows
<1>2. QueriesInv /\ [Next]_vars => QueriesInv'
    BY QueriesStepInv DEF Next, vars, AnswersStep, QueriesStep, FormsStep, SnapshotsStep
<1>3. QueriesInv => RefinementNarrows
    BY DEF QueriesInv
<1> QED
    BY <1>1, <1>2, <1>3, PTL DEF Spec
=============================================================================
