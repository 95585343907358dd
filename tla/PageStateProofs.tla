-------------------------- MODULE PageStateProofs --------------------------
(***************************************************************************)
(* Proofs about what a session remembers of a page, for any number of      *)
(* calls in flight, nodes, elements and pages.                             *)
(***************************************************************************)
EXTENDS PageState, TLAPS

(* The parts of the state that the StateManager keeps.                     *)
ManagerType ==
    /\ current \in Snapshot \cup {None}
    /\ previous \in Urls \cup {None}
    /\ docId \in Urls \cup {None}
    /\ registry \in [Eids -> [node : Nodes \cup {None}, seen : 0 .. Forgotten]]
    /\ \A e \in Eids : registry[e].node = None => registry[e] = Unseen
    /\ answers \in Seq(Doms) /\ Len(answers) <= Forgotten

(* The stages of a tool call.                                              *)
CallStates ==
    [kind : {"none", "click", "type", "page", "navigate", "close"},
     pc : {"idle", "act", "refresh", "settle", "closing"},
     ok : BOOLEAN]

(* What the tools, the tracker and the snapshot store keep.                *)
RestType ==
    /\ open \in BOOLEAN
    /\ stored \in Snapshot \cup {None}
    /\ effects \subseteq {"the page acted on", "another page"}
    /\ calls \in [Calls -> CallStates]

(* The document is that of the current snapshot, which empty snapshots do  *)
(* not change.                                                             *)
DocIsCurrent == current # None => docId = current.url

(* The registry has each element of the current snapshot as just seen.     *)
CurrentIsKnown ==
    current # None =>
        \A n \in Nodes : current.dom[n] # None =>
            registry[current.dom[n]] = [node |-> n, seen |-> 0]

(* Whoever was seen so many updates ago was seen there in that answer.     *)
SeenIsAnswered ==
    \A e \in Eids : registry[e].seen <= MaxStaleSteps =>
        /\ registry[e].seen + 1 <= Len(answers)
        /\ answers[registry[e].seen + 1][registry[e].node] = e

ManagerInv == ManagerType /\ DocIsCurrent /\ CurrentIsKnown /\ SeenIsAnswered

Inv == RestType /\ ManagerInv

-----------------------------------------------------------------------------
(* An element of a snapshot is at one node of it.                          *)
LEMMA NodeFacts ==
    ASSUME NEW s \in Snapshot, NEW e \in Elements(s)
    PROVE  /\ e \in Eids
           /\ Node(s, e) \in Nodes
           /\ s.dom[Node(s, e)] = e
           /\ \A n \in Nodes : s.dom[n] = e => n = Node(s, e)
<1>1. /\ s.dom \in [Nodes -> Eids \cup {None}]
      /\ \A n1, n2 \in Nodes : s.dom[n1] = s.dom[n2] /\ s.dom[n1] # None => n1 = n2
    BY DEF Snapshot, Doms
<1>2. e # None /\ e \in Eids /\ \E n \in Nodes : s.dom[n] = e
    BY <1>1 DEF Elements
<1>3. Node(s, e) \in Nodes /\ s.dom[Node(s, e)] = e
    BY <1>2 DEF Node
<1> QED
    BY <1>1, <1>2, <1>3

(* What a capture may return is a snapshot.                                *)
LEMMA CapturesAreSnapshots == Captures \subseteq Snapshot
<1>1. Empty \in Doms
    BY DEF Empty, Doms
<1> QED
    BY <1>1 DEF Captures, Snapshot

(* What the update makes of an entry.                                      *)
LEMMA UpdateFacts ==
    ASSUME ManagerType, NEW s \in Snapshot, NEW e \in Eids
    PROVE  /\ e \in Elements(s) =>
                  UpdateFromSnapshot(s)[e] = [node |-> Node(s, e), seen |-> 0]
           /\ e \notin Elements(s) =>
                  /\ UpdateFromSnapshot(s)[e].node = registry[e].node
                  /\ UpdateFromSnapshot(s)[e].seen =
                        IF registry[e].seen < Forgotten
                        THEN registry[e].seen + 1 ELSE registry[e].seen
           /\ UpdateFromSnapshot(s)[e] \in [node : Nodes \cup {None}, seen : 0 .. Forgotten]
           /\ UpdateFromSnapshot(s)[e].node = None => UpdateFromSnapshot(s)[e] = Unseen
<1>1. registry[e] \in [node : Nodes \cup {None}, seen : 0 .. Forgotten]
    BY DEF ManagerType
<1>2. CASE e \in Elements(s)
    BY <1>2, NodeFacts, NoneAssumption DEF UpdateFromSnapshot, Forgotten, MaxStaleSteps
<1>3. CASE e \notin Elements(s)
    <2>1. UpdateFromSnapshot(s)[e] = Aged(registry[e])
        BY <1>3 DEF UpdateFromSnapshot
    <2>2. /\ Aged(registry[e]).node = registry[e].node
          /\ Aged(registry[e]).seen = IF registry[e].seen < Forgotten
                                      THEN registry[e].seen + 1 ELSE registry[e].seen
          /\ Aged(registry[e]) \in [node : Nodes \cup {None}, seen : 0 .. Forgotten]
        BY <1>1 DEF Aged, Forgotten, MaxStaleSteps
    <2>3. registry[e] = Unseen => Aged(registry[e]) = Unseen
        BY DEF Aged, Unseen, Forgotten, MaxStaleSteps
    <2> QED
        BY <1>3, <2>1, <2>2, <2>3 DEF ManagerType
<1> QED
    BY <1>2, <1>3

(* The answers that are kept: the new one, and the old ones move by one.   *)
LEMMA AnswersFacts ==
    ASSUME answers \in Seq(Doms), Len(answers) <= Forgotten, NEW d \in Doms
    PROVE  LET q == LastAnswers(<<d>> \o answers)
           IN  /\ q \in Seq(Doms)
               /\ Len(q) <= Forgotten
               /\ Len(q) >= 1 /\ q[1] = d
               /\ \A i \in 1 .. Len(answers) : i < Forgotten =>
                     i + 1 <= Len(q) /\ q[i + 1] = answers[i]
<1> DEFINE p == <<d>> \o answers
           Kept(q) == /\ q \in Seq(Doms)
                      /\ Len(q) <= Forgotten
                      /\ Len(q) >= 1 /\ q[1] = d
                      /\ \A i \in 1 .. Len(answers) : i < Forgotten =>
                            i + 1 <= Len(q) /\ q[i + 1] = answers[i]
<1> SUFFICES Kept(LastAnswers(p))
    OBVIOUS
<1>1. /\ p \in Seq(Doms)
      /\ Len(p) = Len(answers) + 1
      /\ p[1] = d
      /\ \A i \in 1 .. Len(answers) : p[i + 1] = answers[i]
    OBVIOUS
<1> HIDE DEF p
<1>2. CASE Len(p) > Forgotten
    <2>1. LastAnswers(p) = SubSeq(p, 1, Forgotten)
        BY <1>2 DEF LastAnswers
    <2>2. /\ SubSeq(p, 1, Forgotten) \in Seq(Doms)
          /\ Len(SubSeq(p, 1, Forgotten)) = Forgotten
          /\ \A i \in 1 .. Forgotten : SubSeq(p, 1, Forgotten)[i] = p[i]
        BY <1>1, <1>2 DEF Forgotten, MaxStaleSteps
    <2>3. Len(p) = Forgotten + 1
        BY <1>1, <1>2 DEF Forgotten, MaxStaleSteps
    <2> DEFINE q == SubSeq(p, 1, Forgotten)
    <2> HIDE DEF q
    <2>4. Kept(q)
        BY <1>1, <2>2, <2>3 DEF q, Forgotten, MaxStaleSteps
    <2> QED
        BY <2>1, <2>4 DEF q
<1>3. CASE ~(Len(p) > Forgotten)
    <2>1. LastAnswers(p) = p
        BY <1>3 DEF LastAnswers
    <2>2. Kept(p)
        BY <1>1, <1>3 DEF Forgotten, MaxStaleSteps
    <2> QED
        BY <2>1, <2>2
<1> QED
    BY <1>2, <1>3 DEF p

(* An answer keeps what the manager remembers in order.                    *)
LEMMA ReplyInv ==
    ASSUME ManagerInv, NEW s \in Snapshot, GenerateResponse(s)
    PROVE  ManagerInv'
<1>1. previous' \in Urls \cup {None}
    BY DEF GenerateResponse, UrlOf, ManagerInv, ManagerType, Snapshot
<1>2. CASE ~Healthy(s)
    BY <1>1, <1>2 DEF GenerateResponse, ManagerInv, ManagerType, DocIsCurrent,
                      CurrentIsKnown, SeenIsAnswered
<1>3. CASE Healthy(s)
    <2>1. /\ docId' = s.url /\ current' = s
          /\ registry' = UpdateFromSnapshot(s)
          /\ answers' = LastAnswers(<<s.dom>> \o answers)
        BY <1>3 DEF GenerateResponse
    <2>2. s.url \in Urls /\ s.dom \in Doms
        BY DEF Snapshot
    <2>3. /\ answers' \in Seq(Doms) /\ Len(answers') <= Forgotten
          /\ Len(answers') >= 1 /\ answers'[1] = s.dom
          /\ \A i \in 1 .. Len(answers) : i < Forgotten =>
                i + 1 <= Len(answers') /\ answers'[i + 1] = answers[i]
        BY <2>1, <2>2, AnswersFacts DEF ManagerInv, ManagerType
    <2>4. /\ registry' \in [Eids -> [node : Nodes \cup {None}, seen : 0 .. Forgotten]]
          /\ \A e \in Eids : registry'[e].node = None => registry'[e] = Unseen
        <3>1. registry' = [e \in Eids |-> registry'[e]]
            BY <2>1 DEF UpdateFromSnapshot
        <3> QED
            BY <2>1, <3>1, UpdateFacts DEF ManagerInv
    <2>5. ManagerType'
        BY <1>1, <2>1, <2>2, <2>3, <2>4 DEF ManagerType
    <2>6. DocIsCurrent'
        BY <2>1 DEF DocIsCurrent
    <2>7. CurrentIsKnown'
        <3> SUFFICES ASSUME NEW n \in Nodes, s.dom[n] # None
                     PROVE  registry'[s.dom[n]] = [node |-> n, seen |-> 0]
            BY <2>1 DEF CurrentIsKnown
        <3>1. s.dom[n] \in Elements(s)
            BY DEF Elements
        <3>2. Node(s, s.dom[n]) = n /\ s.dom[n] \in Eids
            BY <3>1, NodeFacts
        <3> QED
            BY <2>1, <3>1, <3>2, UpdateFacts DEF ManagerInv
    <2>8. SeenIsAnswered'
        <3> SUFFICES ASSUME NEW e \in Eids, registry'[e].seen <= MaxStaleSteps
                     PROVE  /\ registry'[e].seen + 1 <= Len(answers')
                            /\ answers'[registry'[e].seen + 1][registry'[e].node] = e
            BY DEF SeenIsAnswered
        <3>1. CASE e \in Elements(s)
            <4>1. registry'[e] = [node |-> Node(s, e), seen |-> 0]
                BY <2>1, <3>1, UpdateFacts DEF ManagerInv
            <4>2. s.dom[Node(s, e)] = e
                BY <3>1, NodeFacts
            <4> QED
                BY <2>3, <4>1, <4>2
        <3>2. CASE e \notin Elements(s)
            <4>0. registry[e].seen \in 0 .. Forgotten
                BY DEF ManagerInv, ManagerType
            <4>1. /\ registry'[e].node = registry[e].node
                  /\ registry'[e].seen = IF registry[e].seen < Forgotten
                                         THEN registry[e].seen + 1 ELSE registry[e].seen
                BY <2>1, <3>2, UpdateFacts DEF ManagerInv
            <4>2. registry'[e].seen = registry[e].seen + 1 /\ registry[e].seen + 1 < Forgotten
                BY <4>0, <4>1 DEF Forgotten, MaxStaleSteps
            <4>3. /\ registry[e].seen + 1 \in 1 .. Len(answers)
                  /\ answers[registry[e].seen + 1][registry[e].node] = e
                BY <4>0, <4>2 DEF ManagerInv, ManagerType, SeenIsAnswered, Forgotten, MaxStaleSteps
            <4>4. /\ registry[e].seen + 1 + 1 <= Len(answers')
                  /\ answers'[registry[e].seen + 1 + 1] = answers[registry[e].seen + 1]
                BY <2>3, <4>2, <4>3
            <4> QED
                BY <4>1, <4>2, <4>3, <4>4
        <3> QED
            BY <3>1, <3>2
    <2> QED
        BY <2>5, <2>6, <2>7, <2>8 DEF ManagerInv
<1> QED
    BY <1>2, <1>3

(* A new manager remembers nothing.                                        *)
LEMMA FreshInv == FreshManager => ManagerInv'
<1> SUFFICES ASSUME FreshManager
             PROVE  ManagerInv'
    OBVIOUS
<1>1. \A e \in Eids : registry'[e] = Unseen
    BY DEF FreshManager
<1>2. /\ Unseen \in [node : Nodes \cup {None}, seen : 0 .. Forgotten]
      /\ ~(Unseen.seen <= MaxStaleSteps)
    BY DEF Unseen, Forgotten, MaxStaleSteps
<1>3. answers' \in Seq(Doms) /\ Len(answers') = 0
    BY DEF FreshManager
<1>4. ManagerType'
    BY <1>1, <1>2, <1>3 DEF FreshManager, ManagerType, Forgotten, MaxStaleSteps
<1>5. DocIsCurrent' /\ CurrentIsKnown' /\ SeenIsAnswered'
    BY <1>1, <1>2 DEF FreshManager, DocIsCurrent, CurrentIsKnown, SeenIsAnswered
<1> QED
    BY <1>4, <1>5 DEF ManagerInv

-----------------------------------------------------------------------------
(* The first state has no memory and no calls.                             *)
LEMMA InitInv == Init => Inv
<1> SUFFICES ASSUME Init
             PROVE  Inv
    OBVIOUS
<1>1. NoCall \in CallStates
    BY DEF NoCall, CallStates
<1>2. RestType
    BY <1>1 DEF Init, RestType
<1>3. \A e \in Eids : registry[e] = Unseen
    BY DEF Init
<1>4. /\ Unseen \in [node : Nodes \cup {None}, seen : 0 .. Forgotten]
      /\ ~(Unseen.seen <= MaxStaleSteps)
    BY DEF Unseen, Forgotten, MaxStaleSteps
<1>5. answers \in Seq(Doms) /\ Len(answers) = 0
    BY DEF Init
<1>6. ManagerType
    BY <1>3, <1>4, <1>5 DEF Init, ManagerType, Forgotten, MaxStaleSteps
<1>7. DocIsCurrent /\ CurrentIsKnown /\ SeenIsAnswered
    BY <1>3, <1>4 DEF Init, DocIsCurrent, CurrentIsKnown, SeenIsAnswered
<1> QED
    BY <1>2, <1>6, <1>7 DEF Inv, ManagerInv

(* A step that leaves the manager alone keeps its invariant.               *)
LEMMA ManagerUnchanged ==
    ASSUME ManagerInv, UNCHANGED <<current, previous, docId, registry, answers>>
    PROVE  ManagerInv'
BY DEF ManagerInv, ManagerType, DocIsCurrent, CurrentIsKnown, SeenIsAnswered

(* A call has a kind, a place and a success.                               *)
LEMMA CallFacts ==
    ASSUME calls \in [Calls -> CallStates], NEW c \in Calls,
           NEW kind \in {"click", "type", "page", "navigate", "close"},
           NEW pc \in {"act", "refresh", "settle", "closing"}, NEW ok \in BOOLEAN
    PROVE  /\ [calls EXCEPT ![c] = NoCall] \in [Calls -> CallStates]
           /\ [calls EXCEPT ![c] = [NoCall EXCEPT !.kind = kind, !.pc = pc]]
                  \in [Calls -> CallStates]
           /\ [calls EXCEPT ![c].pc = pc] \in [Calls -> CallStates]
           /\ [calls EXCEPT ![c].pc = pc, ![c].ok = ok] \in [Calls -> CallStates]
<1>1. NoCall \in CallStates
    BY DEF NoCall, CallStates
<1>2. [NoCall EXCEPT !.kind = kind, !.pc = pc] \in CallStates
    BY DEF NoCall, CallStates
<1>3. [calls[c] EXCEPT !.pc = pc] \in CallStates
    BY DEF CallStates
<1>4. [calls[c] EXCEPT !.pc = pc, !.ok = ok] \in CallStates
    BY DEF CallStates
<1> QED
    BY <1>1, <1>2, <1>3, <1>4

(* Every step keeps the invariant.                                         *)
LEMMA StepInv == Inv /\ [Next]_vars => Inv'
<1> SUFFICES ASSUME Inv, [Next]_vars
             PROVE  Inv'
    OBVIOUS
<1>0. /\ ManagerInv /\ RestType
      /\ calls \in [Calls -> CallStates]
      /\ stored \in Snapshot \cup {None}
      /\ effects \subseteq {"the page acted on", "another page"}
      /\ open \in BOOLEAN
    BY DEF Inv, RestType
<1>1. ASSUME UNCHANGED kept, open' \in BOOLEAN, calls' \in [Calls -> CallStates]
      PROVE  Inv'
    BY <1>0, <1>1, ManagerUnchanged DEF kept, Inv, RestType
<1>2. CASE BrowserLost
    <2>1. ManagerInv'
        BY <1>2, FreshInv DEF BrowserLost, ClearSessionState
    <2> QED
        BY <1>0, <1>2, <2>1 DEF BrowserLost, ClearSessionState, Inv, RestType
<1>3. ASSUME NEW c \in Calls, NEW kind \in {"click", "type"}, NEW e \in Eids,
             BeginOnElement(c, kind, e)
      PROVE  Inv'
    BY <1>0, <1>1, <1>3, CallFacts DEF BeginOnElement
<1>4. ASSUME NEW c \in Calls, BeginOnPage(c, "page")
      PROVE  Inv'
    BY <1>0, <1>1, <1>4, CallFacts DEF BeginOnPage
<1>5. ASSUME NEW c \in Calls, BeginNavigation(c)
      PROVE  Inv'
    <2>1. ManagerInv'
        BY <1>0, <1>5, ManagerUnchanged DEF BeginNavigation
    <2>2. calls' \in [Calls -> CallStates]
        BY <1>0, <1>5, CallFacts DEF BeginNavigation
    <2> QED
        BY <1>0, <1>5, <2>1, <2>2 DEF BeginNavigation, Inv, RestType
<1>6. ASSUME NEW c \in Calls, Navigates(c) \/ Click(c)
      PROVE  Inv'
    <2>1. [calls EXCEPT ![c].pc = "settle"] \in [Calls -> CallStates]
        BY <1>0, CallFacts, Zenon
    <2>2. [calls EXCEPT ![c] = NoCall] \in [Calls -> CallStates]
        BY <1>0, CallFacts, Zenon
    <2>3. /\ calls' \in {[calls EXCEPT ![c].pc = "settle"], [calls EXCEPT ![c] = NoCall]}
          /\ UNCHANGED <<open, kept>>
        BY <1>6, Zenon DEF Navigates, Click
    <2>4. calls' \in [Calls -> CallStates]
        BY <2>1, <2>2, <2>3, Zenon
    <2> QED
        BY <1>0, <1>1, <2>3, <2>4
<1>7. ASSUME NEW c \in Calls, Type(c)
      PROVE  Inv'
    <2>1. \A pc \in {"act", "refresh", "settle", "closing"} :
              [calls EXCEPT ![c].pc = pc] \in [Calls -> CallStates]
        BY <1>0, CallFacts, Zenon
    <2>2. \A pc \in {"act", "refresh", "settle", "closing"}, ok \in BOOLEAN :
              [calls EXCEPT ![c].pc = pc, ![c].ok = ok] \in [Calls -> CallStates]
        BY <1>0, CallFacts, Zenon
    <2>3. UNCHANGED <<open, kept>>
        BY <1>7, Zenon DEF Type
    <2>4. \/ calls' = [calls EXCEPT ![c].pc = "settle"]
          \/ calls' = [calls EXCEPT ![c].pc = "refresh"]
          \/ calls' = [calls EXCEPT ![c].pc = "settle", ![c].ok = FALSE]
        BY <1>7, Zenon DEF Type
    <2>5. calls' \in [Calls -> CallStates]
        BY <2>1, <2>2, <2>4, Zenon
    <2> QED
        BY <1>0, <1>1, <2>3, <2>5
<1>8. ASSUME NEW c \in Calls, Refresh(c)
      PROVE  Inv'
    <2>0. \A ok \in BOOLEAN :
              [calls EXCEPT ![c].pc = "settle", ![c].ok = ok] \in [Calls -> CallStates]
        BY <1>0, CallFacts, Zenon
    <2>1. calls' \in [Calls -> CallStates]
        BY <1>8, <2>0, Zenon DEF Refresh
    <2>2. stored' \in Snapshot \cup {None}
        BY <1>0, <1>8, CapturesAreSnapshots DEF Refresh
    <2>3. UNCHANGED <<open, current, previous, docId, registry, effects, answers>>
        BY <1>8 DEF Refresh
    <2>4. ManagerInv'
        BY <1>0, <2>3, ManagerUnchanged
    <2> QED
        BY <1>0, <2>1, <2>2, <2>3, <2>4 DEF Inv, RestType
<1>9. ASSUME NEW c \in Calls, Fails(c)
      PROVE  Inv'
    BY <1>0, <1>1, <1>9, CallFacts DEF Fails
<1>10. ASSUME NEW c \in Calls, Finish(c)
      PROVE  Inv'
    <2>1. PICK s \in Captures : GenerateResponse(s) /\ stored' = s
        BY <1>10 DEF Finish
    <2>2. s \in Snapshot
        BY CapturesAreSnapshots
    <2>3. ManagerInv'
        BY <1>0, <2>1, <2>2, ReplyInv
    <2>4. effects' \subseteq {"the page acted on", "another page"}
        BY <1>0, <1>10 DEF Finish, Effects, Before
    <2>5. calls' \in [Calls -> CallStates]
        BY <1>0, <1>10, CallFacts DEF Finish
    <2>6. open' = open
        BY <1>10 DEF Finish
    <2> QED
        BY <1>0, <2>1, <2>2, <2>3, <2>4, <2>5, <2>6 DEF Inv, RestType
<1>11. ASSUME NEW c \in Calls, AnswerStored(c)
      PROVE  Inv'
    <2>1. ManagerInv'
        BY <1>0, <1>11, ReplyInv, ManagerUnchanged DEF AnswerStored
    <2>2. calls' \in [Calls -> CallStates]
        BY <1>0, <1>11, CallFacts DEF AnswerStored
    <2> QED
        BY <1>0, <1>11, <2>1, <2>2 DEF AnswerStored, Inv, RestType
<1>12. ASSUME NEW c \in Calls, BeginClose(c)
      PROVE  Inv'
    BY <1>0, <1>1, <1>12, CallFacts DEF BeginClose
<1>13. ASSUME NEW c \in Calls, ClosePage(c)
      PROVE  Inv'
    <2>1. ManagerInv'
        BY <1>13, FreshInv DEF ClosePage
    <2>2. calls' \in [Calls -> CallStates]
        BY <1>0, <1>13, CallFacts DEF ClosePage
    <2> QED
        BY <1>0, <1>13, <2>1, <2>2 DEF ClosePage, Inv, RestType
<1>14. CASE UNCHANGED vars
    BY <1>0, <1>1, <1>14 DEF vars
<1> QED
    BY <1>2, <1>3, <1>4, <1>5, <1>6, <1>7, <1>8, <1>9, <1>10, <1>11, <1>12, <1>13, <1>14
    DEF Next

(* The shape of the state; only what was never seen has no node.           *)
THEOREM TypeCorrect == Spec => []TypeOK
<1>1. Inv => TypeOK
    BY DEF Inv, RestType, ManagerInv, ManagerType, TypeOK, CallStates
<1> QED
    BY <1>1, InitInv, StepInv, PTL DEF Spec

(* A diff is never taken between two documents, in whatever order the      *)
(* calls on the page finish.                                               *)
THEOREM DiffWithinPage == Spec => []DiffIsWithinPage
<1>1. Inv => DiffIsWithinPage
    BY DEF Inv, ManagerInv, DocIsCurrent, DiffIsWithinPage, Reply
<1> QED
    BY <1>1, InitInv, StepInv, PTL DEF Spec

(* The elements of the last answer resolve to the nodes it found them at.  *)
THEOREM AnswersResolve == Spec => []AnsweredEidsResolve
<1>1. Inv => AnsweredEidsResolve
    <2> SUFFICES ASSUME Inv, current # None, NEW n \in Nodes, current.dom[n] # None
                 PROVE  /\ registry[current.dom[n]] = [node |-> n, seen |-> 0]
                        /\ stored = current => Resolves(current.dom[n])
        BY DEF AnsweredEidsResolve
    <2>1. registry[current.dom[n]] = [node |-> n, seen |-> 0]
        BY DEF Inv, ManagerInv, CurrentIsKnown
    <2>2. n # None
        BY NoneAssumption
    <2>3. ~IsStale(current.dom[n])
        BY <2>1 DEF IsStale, MaxStaleSteps
    <2> QED
        BY <2>1, <2>2, <2>3 DEF Resolves
<1> QED
    BY <1>1, InitInv, StepInv, PTL DEF Spec

(* Whatever node an eid is resolved to, one of the last three answers      *)
(* found the element there.                                                *)
THEOREM ResolvedAnswered == Spec => []ResolvedWasAnswered
<1>1. Inv => ResolvedWasAnswered
    <2> SUFFICES ASSUME Inv, NEW e \in Eids, Resolves(e)
                 PROVE  \E i \in 1 .. Len(answers) : answers[i][registry[e].node] = e
        BY DEF ResolvedWasAnswered
    <2>1. registry[e].seen \in 0 .. Forgotten /\ answers \in Seq(Doms)
        BY DEF Inv, ManagerInv, ManagerType
    <2>2. registry[e].seen <= MaxStaleSteps
        BY <2>1 DEF Resolves, IsStale, Forgotten, MaxStaleSteps
    <2>3. /\ registry[e].seen + 1 \in 1 .. Len(answers)
          /\ answers[registry[e].seen + 1][registry[e].node] = e
        BY <2>1, <2>2 DEF Inv, ManagerInv, SeenIsAnswered
    <2> QED
        BY <2>3
<1> QED
    BY <1>1, InitInv, StepInv, PTL DEF Spec

=============================================================================
