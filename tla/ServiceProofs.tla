--------------------------- MODULE ServiceProofs ---------------------------
(***************************************************************************)
(* Proofs about the services of a page, for any workers, checks, requests, *)
(* calls that wait, dialogs, tabs, elements and input calls. They are      *)
(* stated of the specification that composes the services, as the run      *)
(* checks it; a step of another service changes no variable of these.      *)
(*                                                                         *)
(* In this order: the counts of the health monitor, the quiet of the       *)
(* network, the dialog the manager holds for pending, the page registry,   *)
(* the commands of the input tools, and the log of the observer.           *)
(***************************************************************************)
EXTENDS MCServices, FiniteSetTheorems, SequenceTheorems, WellFoundedInduction, TLAPS

-----------------------------------------------------------------------------
(* The health of a worker as the monitor keeps it.                         *)
HealthState == [worker : Watched, healthy : BOOLEAN, failures : 0 .. FailureThreshold]

(* The count of each registration is the one of its own answers, and a     *)
(* worker that is marked has used it up.                                   *)
HealthInv ==
    /\ states \in Seq(HealthState)
    /\ failed \in Seq(0 .. FailureThreshold)
    /\ Len(failed) = Len(states)
    /\ watched \in [Watched -> 0 .. Len(states)]
    /\ ticking \in BOOLEAN
    /\ checks \in [Checks -> 0 .. Len(states)]
    /\ \A s \in DOMAIN states :
          /\ failed[s] = states[s].failures
          /\ ~states[s].healthy => states[s].failures = FailureThreshold
    /\ \A w \in Watched : watched[w] # 0 => states[watched[w]].worker = w

(* Nothing is watched at the start.                                        *)
LEMMA HealthInitInv == HealthInit => HealthInv
<1> SUFFICES ASSUME HealthInit
             PROVE  HealthInv
    OBVIOUS
<1>1. states \in Seq(HealthState) /\ failed \in Seq(0 .. FailureThreshold)
    BY DEF HealthInit
<1>2. Len(states) = 0 /\ Len(failed) = 0 /\ DOMAIN states = {}
    BY DEF HealthInit
<1>3. /\ watched = [w \in Watched |-> 0] /\ checks = [k \in Checks |-> 0]
      /\ ticking \in BOOLEAN
    BY DEF HealthInit
<1>4. \A w \in Watched : watched[w] = 0
    BY <1>3
<1>5. /\ watched \in [Watched -> 0 .. Len(states)]
      /\ checks \in [Checks -> 0 .. Len(states)]
    BY <1>2, <1>3
<1> QED
    BY <1>1, <1>2, <1>3, <1>4, <1>5 DEF HealthInv

(* A round of checks is of registrations there are.                        *)
LEMMA StartsChecksInv ==
    ASSUME HealthInv, UNCHANGED <<states, watched, failed>>, ticking' \in BOOLEAN,
           NEW among \in SUBSET (1 .. Len(states)), StartsChecks(among)
    PROVE  HealthInv'
<1>0. \A s \in among : s \in 0 .. Len(states)
    OBVIOUS
<1>1. checks' \in [Checks -> 0 .. Len(states)]
    <2>1. PICK f \in Injection(among, {k \in Checks : checks[k] = 0}) :
            checks' = [k \in Checks |->
                                 IF \E s \in among : f[s] = k
                                 THEN CHOOSE s \in among : f[s] = k ELSE checks[k]]
        BY DEF StartsChecks
    <2>2. ASSUME NEW k \in Checks
          PROVE  checks'[k] \in 0 .. Len(states)
        <3>1. CASE \E s \in among : f[s] = k
            <4>1. (CHOOSE s \in among : f[s] = k) \in among
                BY <3>1
            <4>2. checks'[k] = CHOOSE s \in among : f[s] = k
                BY <2>1, <3>1
            <4>3. checks'[k] \in among
                BY <4>1, <4>2, Zenon
            <4> QED
                BY <1>0, <4>3, Zenon
        <3>2. CASE ~\E s \in among : f[s] = k
            <4>1. checks[k] \in 0 .. Len(states)
                BY DEF HealthInv
            <4> QED
                BY <2>1, <3>2, <4>1
        <3> QED
            BY <3>1, <3>2
    <2> QED
        BY <2>1, <2>2
<1> QED
    BY <1>1 DEF HealthInv

(* What an answer does to a state: a success clears it, a failure counts   *)
(* up to the threshold, and marks the worker when it gets there.           *)
LEMMA CountedState ==
    ASSUME NEW state \in HealthState, NEW ok \in BOOLEAN,
           ~state.healthy => state.failures = FailureThreshold
    PROVE  /\ Counted(state, ok) \in HealthState
           /\ Counted(state, ok).worker = state.worker
           /\ ~Counted(state, ok).healthy => Counted(state, ok).failures = FailureThreshold
           /\ Counted(state, ok).failures
                = IF ok THEN 0 ELSE IF state.failures < FailureThreshold
                                    THEN state.failures + 1 ELSE state.failures
<1>1. CASE ok
    BY <1>1, ThresholdAssumption DEF Counted, Healthy, HealthState
<1>2. CASE ~ok
    <2>1. /\ state.worker \in Watched /\ state.healthy \in BOOLEAN
          /\ state.failures \in 0 .. FailureThreshold
        BY DEF HealthState
    <2> DEFINE reached == state.failures + 1 >= FailureThreshold
               more == IF state.failures < FailureThreshold
                       THEN state.failures + 1 ELSE state.failures
               healthy == IF reached THEN FALSE ELSE state.healthy
    <2>2. Counted(state, ok) = [worker |-> state.worker, healthy |-> healthy, failures |-> more]
        BY <1>2 DEF Counted
    <2>3. more \in 0 .. FailureThreshold /\ (reached => more = FailureThreshold)
        BY <2>1, ThresholdAssumption
    <2>4. healthy \in BOOLEAN
        BY <2>1
    <2>5. ~healthy => more = FailureThreshold
        BY <2>3, <2>1, ThresholdAssumption
    <2> HIDE DEF more, healthy
    <2>6. Counted(state, ok) \in HealthState
        BY <2>1, <2>2, <2>3, <2>4 DEF HealthState
    <2> QED
        BY <1>2, <2>1, <2>2, <2>5, <2>6 DEF more
<1> QED
    BY <1>1, <1>2

(* Every step of the monitor keeps the invariant; the answer of a check    *)
(* counts for the registration it was started for, whoever has the worker's*)
(* id by then.                                                             *)
LEMMA HealthStepInv == HealthInv /\ [HealthNext]_healthVars => HealthInv'
<1> SUFFICES ASSUME HealthInv, [HealthNext]_healthVars
             PROVE  HealthInv'
    OBVIOUS
<1> USE ThresholdAssumption
<1>0. Registered \in SUBSET (1 .. Len(states))
    BY DEF HealthInv, Registered, Range
<1>1. CASE Start
    BY <1>0, <1>1, StartsChecksInv DEF Start
<1>2. CASE Stop
    BY <1>2 DEF Stop, HealthInv
<1>3. CASE ClearWorkers
    BY <1>3 DEF ClearWorkers, HealthInv
<1>4. CASE CheckAllWorkers
    BY <1>0, <1>4, StartsChecksInv DEF CheckAllWorkers, HealthInv
<1>5. ASSUME NEW w \in Watched, RegisterWorker(w)
      PROVE  HealthInv'
    BY <1>5 DEF RegisterWorker, HealthInv, Healthy, HealthState
<1>6. ASSUME NEW w \in Watched, UnregisterWorker(w)
      PROVE  HealthInv'
    BY <1>6 DEF UnregisterWorker, HealthInv
<1>7. ASSUME NEW w \in Watched, ResetWorkerHealth(w)
      PROVE  HealthInv'
    BY <1>7 DEF ResetWorkerHealth, HealthInv, Healthy, HealthState
<1>8. ASSUME NEW w \in Watched, CheckWorkerById(w)
      PROVE  HealthInv'
    <2>1. {watched[w]} \in SUBSET (1 .. Len(states))
        BY <1>8 DEF CheckWorkerById, HealthInv
    <2> QED
        BY <1>8, <2>1, StartsChecksInv DEF CheckWorkerById, HealthInv
<1>9. ASSUME NEW k \in Checks, NEW ok \in BOOLEAN, Checked(k, ok)
      PROVE  HealthInv'
    <2> DEFINE s == checks[k]
    <2>1. s \in DOMAIN states /\ s \in DOMAIN failed
        BY <1>9 DEF Checked, HealthInv
    <2>2. states[s] \in HealthState
        BY <2>1 DEF HealthInv
    <2> QED
        BY <1>9, <2>1, <2>2, CountedState DEF Checked, Answered, HealthInv
<1>10. CASE UNCHANGED healthVars
    BY <1>10 DEF healthVars, HealthInv
<1> QED
    BY <1>1, <1>2, <1>3, <1>4, <1>5, <1>6, <1>7, <1>8, <1>9, <1>10 DEF HealthNext

(* A worker is marked unhealthy by failures in a row of its own checks     *)
(* only, however late the answers of checks come.                          *)
THEOREM UnhealthyIsItsOwn == Spec => []UnhealthyByItsOwnChecks
<1>1. Init => HealthInv
    BY HealthInitInv DEF Init
<1>2. HealthInv /\ [Next]_vars => HealthInv'
    <2>1. [Next]_vars => [HealthNext]_healthVars
        BY DEF Next, vars, SurfacesStep, RegistryStep, NetworkStep, ObservationsStep,
               InputsStep, HealthStep
    <2> QED
        BY <2>1, HealthStepInv
<1>3. HealthInv => UnhealthyByItsOwnChecks
    BY DEF HealthInv, UnhealthyByItsOwnChecks
<1> QED
    BY <1>1, <1>2, <1>3, PTL DEF Spec

-----------------------------------------------------------------------------
(* The requests that are tracked were sent, and have not ended.            *)
NetworkShape ==
    /\ sent \in [Requests -> {"no", "open", "ended"}]
    /\ counted \subseteq {r \in Requests \ WebSockets : sent[r] = "open"}
    /\ ~listening => counted = {}

(* The counter of the tracker is the number of them, and the quiet timer   *)
(* runs at zero only, unless a request of an earlier page ended late.      *)
NetworkCounts ==
    /\ quietTimer \in BOOLEAN
    /\ late \in BOOLEAN
    /\ IsFiniteSet(counted)
    /\ inflight \in Nat
    /\ ~late => inflight = Cardinality(counted)
    /\ ~late /\ quietTimer => inflight = 0

(* What the tracker keeps.                                                 *)
NetworkInv == NetworkShape /\ NetworkCounts

(* Nothing was sent at the start.                                          *)
LEMMA NetworkInitInv == NetworkInit => NetworkInv
<1>1. IsFiniteSet({}) /\ Cardinality({}) = 0
    BY FS_EmptySet
<1> SUFFICES ASSUME NetworkInit
             PROVE  NetworkInv
    OBVIOUS
<1>2. sent \in [Requests -> {"no", "open", "ended"}]
    BY DEF NetworkInit
<1>3. /\ counted = {} /\ inflight = 0 /\ quietTimer = FALSE /\ late = FALSE
    BY DEF NetworkInit
<1> QED
    BY <1>1, <1>2, <1>3 DEF NetworkInv, NetworkShape, NetworkCounts

(* Every event of the page and every call that waits for quiet keeps it.   *)
LEMMA NetworkStepInv == NetworkInv /\ [NetworkNext]_networkVars => NetworkInv'
<1> SUFFICES ASSUME NetworkInv, [NetworkNext]_networkVars
             PROVE  NetworkInv'
    OBVIOUS
<1>0. IsFiniteSet({}) /\ Cardinality({}) = 0
    BY FS_EmptySet
<1>1. CASE Attach
    BY <1>0, <1>1 DEF Attach, NetworkInv, NetworkShape, NetworkCounts
<1>2. ASSUME NEW w \in Waits, MarkNavigation(w)
      PROVE  NetworkInv'
    BY <1>0, <1>2 DEF MarkNavigation, NetworkInv, NetworkShape, NetworkCounts
<1>3. CASE RemoveTracker
    BY <1>0, <1>3 DEF RemoveTracker, NetworkInv, NetworkShape, NetworkCounts
<1>4. CASE RemoveRecorder
    BY <1>4 DEF RemoveRecorder, NetworkInv, NetworkShape, NetworkCounts
<1>5. CASE QuietTimerFires
    BY <1>5 DEF QuietTimerFires, recorderVars, NetworkInv, NetworkShape, NetworkCounts
<1>6. ASSUME NEW r \in Requests, Send(r)
      PROVE  NetworkInv'
    <2>1. /\ IsFiniteSet(counted \cup {r})
          /\ Cardinality(counted \cup {r}) = Cardinality(counted) + 1
        BY <1>6, FS_AddElement DEF NetworkInv, NetworkShape, NetworkCounts, Send
    <2>2. NetworkShape'
        BY <1>6 DEF Send, OnRequest, NetworkInv, NetworkShape
    <2>4. CASE listening /\ r \notin WebSockets
        <3>1. /\ counted' = counted \cup {r} /\ inflight' = inflight + 1
              /\ quietTimer' = FALSE /\ late' = late /\ listening'
            BY <1>6, <2>4 DEF Send, OnRequest
        <3>2. IsFiniteSet(counted') /\ Cardinality(counted') = Cardinality(counted) + 1
            BY <2>1, <3>1, Zenon
        <3>3. quietTimer' = FALSE /\ late' \in BOOLEAN /\ inflight' \in Nat
            BY <3>1 DEF NetworkInv, NetworkCounts
        <3>4. ~late' => inflight' = Cardinality(counted')
            BY <3>1, <3>2 DEF NetworkInv, NetworkCounts
        <3> QED
            BY <2>2, <3>2, <3>3, <3>4 DEF NetworkInv, NetworkCounts
    <2>5. CASE ~(listening /\ r \notin WebSockets)
        BY <1>6, <2>2, <2>5 DEF Send, NetworkInv, NetworkCounts
    <2> QED
        BY <2>4, <2>5
<1>7. ASSUME NEW r \in Requests, End(r)
      PROVE  NetworkInv'
    <2>1. /\ IsFiniteSet(counted \ {r})
          /\ Cardinality(counted \ {r})
                = IF r \in counted THEN Cardinality(counted) - 1 ELSE Cardinality(counted)
        BY FS_RemoveElement DEF NetworkInv, NetworkShape, NetworkCounts
    <2>2. Cardinality(counted) \in Nat
        BY FS_CardinalityType DEF NetworkInv, NetworkShape, NetworkCounts
    <2>3. r \in counted => Cardinality(counted) # 0
        BY FS_EmptySet DEF NetworkInv, NetworkShape, NetworkCounts
    <2>4. NetworkShape'
        BY <1>7 DEF End, OnRequestEnd, NetworkInv, NetworkShape
    <2>6. CASE listening /\ r \notin WebSockets
        <3>1. /\ counted' = counted \ {r}
              /\ inflight' = IF inflight > 0 THEN inflight - 1 ELSE 0
              /\ late' = (late \/ r \notin counted)
              /\ quietTimer' = (quietTimer \/ (inflight' = 0 /\ Waiting # {}))
              /\ listening'
            BY <1>7, <2>6 DEF End, OnRequestEnd
        <3>2. /\ IsFiniteSet(counted')
              /\ (r \in counted => Cardinality(counted') = Cardinality(counted) - 1)
            BY <2>1, <3>1, Zenon
        <3>3. /\ quietTimer' \in BOOLEAN /\ late' \in BOOLEAN /\ inflight' \in Nat
            BY <3>1 DEF NetworkInv, NetworkCounts
        <3>4. ~late' => inflight' = Cardinality(counted')
            <4> SUFFICES ASSUME ~late'
                         PROVE  inflight' = Cardinality(counted')
                OBVIOUS
            <4>1. ~late /\ r \in counted
                BY <3>1
            <4>2. inflight = Cardinality(counted) /\ inflight > 0
                BY <2>2, <2>3, <4>1 DEF NetworkInv, NetworkCounts
            <4>3. inflight' = inflight - 1
                BY <3>1, <4>2
            <4>4. Cardinality(counted') = Cardinality(counted) - 1
                BY <3>2, <4>1
            <4> QED
                BY <4>2, <4>3, <4>4
        <3>5. ~late' /\ quietTimer' => inflight' = 0
            BY <2>2, <2>3, <3>1 DEF NetworkInv, NetworkCounts
        <3> QED
            BY <2>4, <3>2, <3>3, <3>4, <3>5 DEF NetworkInv, NetworkCounts
    <2>7. CASE ~(listening /\ r \notin WebSockets)
        BY <1>7, <2>4, <2>7 DEF End, NetworkInv, NetworkCounts
    <2> QED
        BY <2>6, <2>7
<1>8. ASSUME NEW w \in Waits,
             \/ Stabilize(w) \/ HardTimeout(w) \/ StabilizeAgain(w)
             \/ GoTo(w) \/ GotoFails(w)
      PROVE  NetworkInv'
    <2>1. UNCHANGED <<listening, sent, counted, inflight, quietTimer, late>>
        BY <1>8 DEF Stabilize, HardTimeout, StabilizeAgain, GoTo, GotoFails
    <2> QED
        BY <2>1 DEF NetworkInv, NetworkShape, NetworkCounts
<1>9. ASSUME NEW w \in Waits, StabilizeDom(w)
      PROVE  NetworkInv'
    BY <1>9 DEF StabilizeDom, NetworkInv, NetworkShape, NetworkCounts
<1>11. CASE PageCommits
    BY <1>11 DEF PageCommits, NetworkInv, NetworkShape, NetworkCounts
<1>10. CASE UNCHANGED networkVars
    BY <1>10 DEF networkVars, NetworkInv, NetworkShape, NetworkCounts
<1> QED
    BY <1>1, <1>2, <1>3, <1>4, <1>5, <1>6, <1>7, <1>8, <1>9, <1>10, <1>11 DEF NetworkNext

(* Whoever is told that the network is quiet is told so when every request *)
(* has ended that was sent since the tracker was attached or last told of  *)
(* a navigation.                                                           *)
THEOREM QuietMeansQuiet == Spec => []QuietIsQuiet
<1>1. Init => NetworkInv
    BY NetworkInitInv DEF Init
<1>2. NetworkInv /\ [Next]_vars => NetworkInv'
    <2>1. [Next]_vars => [NetworkNext]_networkVars
        BY DEF Next, vars, SurfacesStep, RegistryStep, NetworkStep, ObservationsStep,
               InputsStep, HealthStep
    <2> QED
        BY <2>1, NetworkStepInv
<1>3. NetworkInv => QuietIsQuiet
    BY FS_EmptySet DEF NetworkInv, NetworkCounts, QuietIsQuiet
<1> QED
    BY <1>1, <1>2, <1>3, PTL DEF Spec

-----------------------------------------------------------------------------
(* A request for a permission, as the script counts it.                    *)
RequestType == [id : Nat, permission : Permissions \cup {Null}]

(* What the browser tells the process.                                     *)
WireMessages ==
    [what : {"opening"}, arg : DialogTypes]
        \cup [what : {"closed", "chooser"}, arg : {Null}]
        \cup [what : {"request"}, arg : RequestType]
        \cup [what : {"answer"}, arg : [call : Actions, ok : BOOLEAN]]

(* Where a call waits for the answer of Page.handleJavaScriptDialog.       *)
AwaitsAnswer == {"resolving", "dismissing"}

CallPcs ==
    {"idle", "probe", "press", "pressing", "settle", "capture", "deciding", "replaying"}
        \cup AwaitsAnswer

CallType ==
    [kind : {Null, "click", "act"}, pc : CallPcs, early : BOOLEAN, since : BOOLEAN,
     accept : BOOLEAN, request : RequestType, fresh : BOOLEAN]

SurfaceType ==
    [kind : {Null, "dialog", "file-picker", "permission"}, value : BOOLEAN,
     request : RequestType, fresh : BOOLEAN]

(* What the process holds.                                                 *)
SurfaceTypes ==
    /\ requests \in Seq(Permissions \cup {Null})
    /\ pendingRequest \in RequestType
    /\ surface \in SurfaceType
    /\ attached = TRUE
    /\ detecting \in BOOLEAN
    /\ actions \in [Actions -> CallType]

(* The answers under way are of calls that wait for them, one each.        *)
AnswersFit(w, calls) ==
    /\ w \in Seq(WireMessages)
    /\ \A i \in DOMAIN w :
          w[i].what = "answer" => calls[w[i].arg.call].pc \in AwaitsAnswer
    /\ \A i, j \in DOMAIN w :
          /\ w[i].what = "answer" /\ w[j].what = "answer"
          /\ w[i].arg.call = w[j].arg.call
          => i = j

(* A message that makes the manager change its mind, and what it holds     *)
(* then.  The policy that fails does not.                                  *)
Tells(m, calls) ==
    \/ m.what \in {"opening", "closed"}
    \/ m.what = "answer" /\ (m.arg.ok \/ calls[m.arg.call].pc = "resolving")

Says(m) == IF m.what = "opening" THEN m.arg ELSE Null

(* The last such message says which dialog is open, and when there is none *)
(* the manager knows it.                                                   *)
WireTells(w, shown, heard, calls) ==
    /\ \A i \in DOMAIN w :
          /\ Tells(w[i], calls)
          /\ \A j \in DOMAIN w : j > i => ~Tells(w[j], calls)
          => Says(w[i]) = shown
    /\ (\A i \in DOMAIN w : ~Tells(w[i], calls)) => heard = shown

(* As long as the session is the one the manager was attached to, and no   *)
(* dialog was missed.                                                      *)
SurfacesInv ==
    ~rebound => /\ SurfaceTypes
                /\ AnswersFit(wire, actions)
                /\ ~missed => WireTells(wire, dialog, pendingDialog, actions)

(* The values the calls and the surface start from, and what becomes of    *)
(* them.                                                                   *)
LEMMA StartTypes ==
    /\ NoRequest \in RequestType
    /\ Blank \in SurfaceType /\ BuildDialogSurface \in SurfaceType
    /\ BuildFilePickerSurface \in SurfaceType
    /\ \A r \in RequestType, fresh \in BOOLEAN : BuildPermissionSurface(r, fresh) \in SurfaceType
    /\ NoAction \in CallType /\ NoAction.pc = "idle"
    /\ [NoAction EXCEPT !.pc = "capture"] \in CallType
<1>1. NoRequest \in RequestType
    BY DEF NoRequest, RequestType
<1>2. Blank \in SurfaceType /\ NoAction \in CallType
    BY <1>1 DEF Blank, SurfaceType, NoAction, CallType, CallPcs
<1>3. NoAction.pc = "idle" /\ [NoAction EXCEPT !.pc = "capture"] \in CallType
    BY <1>2 DEF NoAction, CallType, CallPcs
<1>4. /\ BuildDialogSurface \in SurfaceType
      /\ BuildFilePickerSurface \in SurfaceType
      /\ \A r \in RequestType, fresh \in BOOLEAN : BuildPermissionSurface(r, fresh) \in SurfaceType
    BY <1>2 DEF BuildDialogSurface, BuildFilePickerSurface, BuildPermissionSurface, SurfaceType
<1> QED
    BY <1>1, <1>2, <1>3, <1>4

(* A call that goes to another step.                                       *)
LEMMA GoesType ==
    ASSUME SurfaceTypes, NEW a \in Actions, Ends(a) \/ Captures(a)
    PROVE  /\ actions' \in [Actions -> CallType]
           /\ \A b \in Actions : b # a => actions'[b] = actions[b]
BY StartTypes DEF Ends, Captures, SurfaceTypes

(* A document that is left.                                                *)
LEMMA NewDocumentType ==
    ASSUME SurfaceTypes, NewDocument
    PROVE  /\ requests' \in Seq(Permissions \cup {Null})
           /\ surface' \in SurfaceType
           /\ actions' \in [Actions -> CallType]
           /\ \A b \in Actions : actions'[b].pc = actions[b].pc
<1>1. requests' \in Seq(Permissions \cup {Null})
    BY DEF NewDocument
<1>2. surface' \in SurfaceType
    BY DEF NewDocument, SurfaceTypes, SurfaceType
<1>3. \A b \in Actions :
         [actions[b] EXCEPT !.fresh = FALSE] \in CallType
            /\ [actions[b] EXCEPT !.fresh = FALSE].pc = actions[b].pc
    BY DEF SurfaceTypes, CallType
<1> QED
    BY <1>1, <1>2, <1>3 DEF NewDocument

(* Nothing is under way at the start.                                      *)
LEMMA SurfacesInitInv == SurfacesInit => SurfacesInv
<1> SUFFICES ASSUME SurfacesInit
             PROVE  SurfacesInv
    OBVIOUS
<1>1. SurfaceTypes
    BY DEF SurfacesInit, SurfaceTypes, NoRequest, RequestType, Blank, SurfaceType, NoAction,
           CallType, CallPcs
<1>2. wire = <<>> /\ dialog = Null /\ pendingDialog = Null
    BY DEF SurfacesInit
<1>3. AnswersFit(wire, actions)
    BY <1>2 DEF AnswersFit
<1>4. WireTells(wire, dialog, pendingDialog, actions)
    BY <1>2 DEF WireTells
<1> QED
    BY <1>1, <1>3, <1>4 DEF SurfacesInv

(* A message that is no answer keeps the answers as they are.              *)
LEMMA SentFits ==
    ASSUME NEW w, NEW calls, AnswersFit(w, calls), NEW m \in WireMessages, m.what # "answer"
    PROVE  AnswersFit(Append(w, m), calls)
<1>1. w \in Seq(WireMessages) /\ Append(w, m) \in Seq(WireMessages)
    BY DEF AnswersFit
<1>2. \A i \in DOMAIN Append(w, m) : IF i \in DOMAIN w THEN Append(w, m)[i] = w[i]
                                                       ELSE Append(w, m)[i] = m
    BY <1>1
<1> QED
    BY <1>1, <1>2 DEF AnswersFit

(* The answer of a call that waits, when there is none of it.              *)
LEMMA AnswerFits ==
    ASSUME NEW w, NEW calls, AnswersFit(w, calls), NEW m \in WireMessages, m.what = "answer",
           calls[m.arg.call].pc \in AwaitsAnswer,
           \A i \in DOMAIN w : w[i].what = "answer" => w[i].arg.call # m.arg.call
    PROVE  AnswersFit(Append(w, m), calls)
<1>1. w \in Seq(WireMessages) /\ Append(w, m) \in Seq(WireMessages)
    BY DEF AnswersFit
<1>2. /\ DOMAIN Append(w, m) = DOMAIN w \cup {Len(w) + 1}
      /\ \A i \in DOMAIN w : Append(w, m)[i] = w[i]
      /\ Append(w, m)[Len(w) + 1] = m
    BY <1>1
<1> QED
    BY <1>1, <1>2 DEF AnswersFit

(* A message that tells of what is shown now, whatever came before it.     *)
LEMMA TellingSent ==
    ASSUME NEW w \in Seq(WireMessages), NEW calls, NEW m \in WireMessages, NEW heard,
           Tells(m, calls)
    PROVE  WireTells(Append(w, m), Says(m), heard, calls)
<1>1. /\ DOMAIN Append(w, m) = DOMAIN w \cup {Len(w) + 1}
      /\ \A i \in DOMAIN w : Append(w, m)[i] = w[i] /\ i < Len(w) + 1
      /\ Append(w, m)[Len(w) + 1] = m
    OBVIOUS
<1> DEFINE v == Append(w, m)
           n == Len(w) + 1
<1> HIDE DEF v
<1>2. DOMAIN v = DOMAIN w \cup {n} /\ v[n] = m /\ \A i \in DOMAIN w : i < n
    BY <1>1 DEF v
<1>3. n \in DOMAIN v /\ Tells(v[n], calls)
    BY <1>2
<1>4. \A i \in DOMAIN v : (\A j \in DOMAIN v : j > i => ~Tells(v[j], calls)) => i = n
    BY <1>2, <1>3
<1> QED
    BY <1>2, <1>3, <1>4 DEF WireTells, v

(* A message that tells nothing.                                           *)
LEMMA OtherSent ==
    ASSUME NEW w \in Seq(WireMessages), NEW calls, NEW m \in WireMessages, NEW shown, NEW heard,
           ~Tells(m, calls), WireTells(w, shown, heard, calls)
    PROVE  WireTells(Append(w, m), shown, heard, calls)
<1>1. /\ DOMAIN Append(w, m) = DOMAIN w \cup {Len(w) + 1}
      /\ \A i \in DOMAIN w : Append(w, m)[i] = w[i]
      /\ Append(w, m)[Len(w) + 1] = m
    OBVIOUS
<1> QED
    BY <1>1 DEF WireTells

(* What calls do that do not wait for an answer under way.                 *)
LEMMA CallsGoOn ==
    ASSUME NEW w, NEW calls, NEW after, NEW shown, NEW heard,
           \A i \in DOMAIN w :
              w[i].what = "answer" => after[w[i].arg.call].pc = calls[w[i].arg.call].pc
    PROVE  /\ AnswersFit(w, calls) => AnswersFit(w, after)
           /\ WireTells(w, shown, heard, calls) => WireTells(w, shown, heard, after)
<1>1. \A i \in DOMAIN w : Tells(w[i], after) <=> Tells(w[i], calls)
    BY DEF Tells
<1>2. AnswersFit(w, calls) => AnswersFit(w, after)
    BY DEF AnswersFit
<1>3. WireTells(w, shown, heard, calls) => WireTells(w, shown, heard, after)
    BY <1>1 DEF WireTells
<1> QED
    BY <1>2, <1>3

(* The first message is heard, and is the last answer of its call.         *)
LEMMA Heard ==
    ASSUME NEW w, NEW calls, NEW shown, NEW heard, w # <<>>,
           AnswersFit(w, calls)
    PROVE  LET m == Head(w)
               known == IF Tells(m, calls) THEN Says(m) ELSE heard
           IN  /\ m \in WireMessages
               /\ m.what = "answer" => calls[m.arg.call].pc \in AwaitsAnswer
               /\ AnswersFit(Tail(w), calls)
               /\ WireTells(w, shown, heard, calls) => WireTells(Tail(w), shown, known, calls)
               /\ m.what = "answer" =>
                     \A i \in DOMAIN Tail(w) :
                        Tail(w)[i].what = "answer" => Tail(w)[i].arg.call # m.arg.call
<1> DEFINE m == Head(w)
           known == IF Tells(m, calls) THEN Says(m) ELSE heard
           v == Tail(w)
<1>1. w \in Seq(WireMessages)
    BY DEF AnswersFit
<1>2. /\ m = w[1] /\ m \in WireMessages /\ 1 \in DOMAIN w
      /\ v \in Seq(WireMessages)
      /\ \A i \in DOMAIN v : i \in Nat /\ i >= 1 /\ i + 1 \in DOMAIN w /\ v[i] = w[i + 1]
      /\ \A j \in DOMAIN w : j \in Nat /\ (j # 1 => j > 1 /\ j - 1 \in DOMAIN v /\ v[j - 1] = w[j])
    BY <1>1
<1> HIDE DEF m, v
<1>3. m.what = "answer" => calls[m.arg.call].pc \in AwaitsAnswer
    BY <1>2 DEF AnswersFit
<1>4. ASSUME m.what = "answer", NEW i \in DOMAIN v, v[i].what = "answer"
      PROVE  v[i].arg.call # m.arg.call
    <2>1. i + 1 \in DOMAIN w /\ v[i] = w[i + 1] /\ i + 1 # 1
        BY <1>2
    <2> QED
        BY <1>2, <1>4, <2>1 DEF AnswersFit
<1>5. AnswersFit(v, calls)
    <2>1. ASSUME NEW i \in DOMAIN v, NEW j \in DOMAIN v, v[i].what = "answer",
                 v[j].what = "answer", v[i].arg.call = v[j].arg.call
          PROVE  i = j
        <3>1. /\ i + 1 \in DOMAIN w /\ v[i] = w[i + 1] /\ i \in Nat
              /\ j + 1 \in DOMAIN w /\ v[j] = w[j + 1] /\ j \in Nat
            BY <1>2
        <3>2. i + 1 = j + 1
            BY <2>1, <3>1 DEF AnswersFit
        <3> QED
            BY <3>1, <3>2
    <2> QED
        BY <1>2, <2>1 DEF AnswersFit
<1>6. ASSUME WireTells(w, shown, heard, calls), NEW i \in DOMAIN v, Tells(v[i], calls),
             \A j \in DOMAIN v : j > i => ~Tells(v[j], calls)
      PROVE  Says(v[i]) = shown
    <2>1. i \in Nat /\ i >= 1 /\ i + 1 \in DOMAIN w /\ v[i] = w[i + 1]
        BY <1>2
    <2>2. ASSUME NEW j \in DOMAIN w, j > i + 1
          PROVE  ~Tells(w[j], calls)
        <3>1. j - 1 \in DOMAIN v /\ v[j - 1] = w[j] /\ j \in Nat
            BY <1>2, <2>1, <2>2
        <3>2. j - 1 > i
            BY <2>1, <2>2, <3>1
        <3> QED
            BY <1>6, <3>1, <3>2
    <2> QED
        BY <1>6, <2>1, <2>2 DEF WireTells
<1>7. ASSUME WireTells(w, shown, heard, calls), \A i \in DOMAIN v : ~Tells(v[i], calls)
      PROVE  known = shown
    <2>1. \A j \in DOMAIN w : j # 1 => ~Tells(w[j], calls)
        BY <1>2, <1>7
    <2>2. CASE Tells(m, calls)
        <3>1. \A j \in DOMAIN w : j > 1 => ~Tells(w[j], calls)
            BY <1>2, <2>1
        <3> QED
            BY <1>2, <1>7, <2>2, <3>1 DEF WireTells
    <2>3. CASE ~Tells(m, calls)
        BY <1>2, <1>7, <2>1, <2>3 DEF WireTells
    <2> QED
        BY <2>2, <2>3
<1>8. WireTells(w, shown, heard, calls) => WireTells(v, shown, known, calls)
    BY <1>6, <1>7 DEF WireTells
<1> QED
    BY <1>2, <1>3, <1>4, <1>5, <1>8 DEF m, v

(* A step that sends and hears nothing.                                    *)
LEMMA NothingSaid ==
    ASSUME SurfacesInv, ~rebound, UNCHANGED <<wire, dialog, pendingDialog, missed>>,
           SurfaceTypes',
           \A b \in Actions : actions[b].pc \in AwaitsAnswer => actions'[b].pc = actions[b].pc
    PROVE  SurfacesInv'
<1>1. /\ AnswersFit(wire, actions)
      /\ ~missed => WireTells(wire, dialog, pendingDialog, actions)
    BY DEF SurfacesInv
<1>2. wire \in Seq(WireMessages)
    BY <1>1 DEF AnswersFit
<1>3. \A i \in DOMAIN wire :
         wire[i].what = "answer" => actions'[wire[i].arg.call].pc = actions[wire[i].arg.call].pc
    <2> SUFFICES ASSUME NEW i \in DOMAIN wire, wire[i].what = "answer"
                 PROVE  actions'[wire[i].arg.call].pc = actions[wire[i].arg.call].pc
        OBVIOUS
    <2>1. wire[i] \in WireMessages
        BY <1>2
    <2>2. wire[i].arg.call \in Actions
        BY <2>1 DEF WireMessages
    <2>3. actions[wire[i].arg.call].pc \in AwaitsAnswer
        BY <1>1 DEF AnswersFit
    <2> QED
        BY <2>2, <2>3
<1>4. /\ AnswersFit(wire, actions')
      /\ ~missed => WireTells(wire, dialog, pendingDialog, actions')
    BY <1>1, <1>3, CallsGoOn
<1> QED
    BY <1>4 DEF SurfacesInv

(* A step that sends an event that is no answer and hears nothing.         *)
LEMMA EventSaid ==
    ASSUME SurfacesInv, ~rebound, UNCHANGED <<actions, pendingDialog>>, SurfaceTypes',
           NEW m \in WireMessages, wire' = Append(wire, m),
           \/ m.what \in {"opening", "closed"} /\ dialog' = Says(m)
           \/ m.what \in {"request", "chooser"} /\ UNCHANGED <<dialog, missed>>
    PROVE  SurfacesInv'
<1>1. /\ AnswersFit(wire, actions)
      /\ ~missed => WireTells(wire, dialog, pendingDialog, actions)
    BY DEF SurfacesInv
<1>2. wire \in Seq(WireMessages)
    BY <1>1 DEF AnswersFit
<1>3. AnswersFit(wire', actions')
    BY <1>1, SentFits
<1>4. ~missed' => WireTells(wire', dialog', pendingDialog', actions')
    <2>1. CASE m.what \in {"opening", "closed"}
        <3>1. Tells(m, actions)
            BY <2>1 DEF Tells
        <3>2. WireTells(Append(wire, m), Says(m), pendingDialog, actions)
            BY <1>2, <3>1, TellingSent
        <3> QED
            BY <2>1, <3>2
    <2>2. CASE m.what \in {"request", "chooser"} /\ UNCHANGED <<dialog, missed>>
        <3>1. ~Tells(m, actions)
            BY <2>2 DEF Tells
        <3>2. ~missed => WireTells(Append(wire, m), dialog, pendingDialog, actions)
            BY <1>1, <1>2, <3>1, OtherSent
        <3> QED
            BY <2>2, <3>2
    <2> QED
        BY <2>1, <2>2
<1> QED
    BY <1>3, <1>4 DEF SurfacesInv

(* The next message is handled: an event by the handlers, an answer by the *)
(* call that waits for it.                                                 *)
LEMMA DeliverInv ==
    ASSUME SurfacesInv, ~rebound, Deliver
    PROVE  SurfacesInv'
<1> DEFINE m == Head(wire)
<1>1. /\ SurfaceTypes /\ AnswersFit(wire, actions)
      /\ ~missed => WireTells(wire, dialog, pendingDialog, actions)
    BY DEF SurfacesInv
<1>2. wire # <<>> /\ wire' = Tail(wire) /\ UNCHANGED <<dialog, requests, attached, detecting, missed>>
    BY DEF Deliver, pageSide, bound
<1>3. /\ m \in WireMessages
      /\ m.what = "answer" => actions[m.arg.call].pc \in AwaitsAnswer
      /\ AnswersFit(wire', actions)
      /\ ~missed =>
            WireTells(wire', dialog, IF Tells(m, actions) THEN Says(m) ELSE pendingDialog, actions)
      /\ m.what = "answer" =>
            \A i \in DOMAIN wire' : wire'[i].what = "answer" => wire'[i].arg.call # m.arg.call
    BY <1>1, <1>2, Heard
<1>4. wire' \in Seq(WireMessages)
    BY <1>3 DEF AnswersFit
<1>5. \A i \in DOMAIN wire' : wire'[i].what = "answer" => wire'[i].arg.call \in Actions
    <2> SUFFICES ASSUME NEW i \in DOMAIN wire', wire'[i].what = "answer"
                 PROVE  wire'[i].arg.call \in Actions
        OBVIOUS
    <2>1. wire'[i] \in WireMessages
        BY <1>4
    <2> QED
        BY <2>1 DEF WireMessages
<1> HIDE DEF m
<1>6. CASE m.what = "answer"
    <2> DEFINE a == m.arg.call
               ok == m.arg.ok
    <2>1. a \in Actions /\ ok \in BOOLEAN
        BY <1>3, <1>6 DEF WireMessages
    <2>2. IF actions[a].pc = "resolving" THEN Resolved(a, ok) ELSE Dismissed(a, ok)
        BY <1>6 DEF Deliver, m
    <2>3. pendingDialog' = IF Tells(m, actions) THEN Says(m) ELSE pendingDialog
        BY <1>6, <2>2 DEF Resolved, Dismissed, Tells, Says
    <2>4. Ends(a) \/ Captures(a)
        BY <2>2 DEF Resolved, Dismissed
    <2>5. SurfaceTypes'
        <3>1. actions' \in [Actions -> CallType]
            BY <1>1, <2>1, <2>4, GoesType
        <3>2. surface' = Blank \/ surface' = surface
            BY <2>2 DEF Resolved, Dismissed
        <3>3. pendingRequest' = pendingRequest
            BY <2>2 DEF Resolved, Dismissed
        <3> QED
            BY <1>1, <1>2, <3>1, <3>2, <3>3, StartTypes DEF SurfaceTypes
    <2>6. \A b \in Actions : b # a => actions'[b] = actions[b]
        BY <1>1, <2>1, <2>4, GoesType
    <2>7. \A i \in DOMAIN wire' :
             wire'[i].what = "answer"
                => actions'[wire'[i].arg.call].pc = actions[wire'[i].arg.call].pc
        BY <1>3, <1>5, <1>6, <2>6
    <2>8. /\ AnswersFit(wire', actions')
          /\ ~missed => WireTells(wire', dialog, pendingDialog', actions')
        BY <1>3, <2>3, <2>7, CallsGoOn
    <2> QED
        BY <1>2, <2>5, <2>8 DEF SurfacesInv
<1>7. CASE m.what # "answer"
    <2>1. HandlesEvent(m)
        BY <1>7 DEF Deliver, m
    <2>2. pendingDialog' = IF Tells(m, actions) THEN Says(m) ELSE pendingDialog
        BY <1>7, <2>1 DEF HandlesEvent, Tells, Says
    <2>3. \A b \in Actions : actions'[b].pc = actions[b].pc
        BY <1>1, <2>1 DEF HandlesEvent, SurfaceTypes, CallType
    <2>4. SurfaceTypes'
        <3>1. actions' \in [Actions -> CallType]
            BY <1>1, <2>1 DEF HandlesEvent, SurfaceTypes, CallType
        <3>2. pendingRequest' \in RequestType
            BY <1>1, <1>3, <2>1 DEF HandlesEvent, SurfaceTypes, WireMessages
        <3> QED
            BY <1>1, <1>2, <2>1, <3>1, <3>2 DEF HandlesEvent, SurfaceTypes
    <2>5. \A i \in DOMAIN wire' :
             wire'[i].what = "answer"
                => actions'[wire'[i].arg.call].pc = actions[wire'[i].arg.call].pc
        BY <1>5, <2>3
    <2>6. /\ AnswersFit(wire', actions')
          /\ ~missed => WireTells(wire', dialog, pendingDialog', actions')
        BY <1>3, <2>2, <2>5, CallsGoOn
    <2> QED
        BY <1>2, <2>4, <2>6 DEF SurfacesInv
<1> QED
    BY <1>6, <1>7

(* The browser obeys the command, and says so before it answers it; or no  *)
(* answer comes.                                                           *)
LEMMA HandleDialogInv ==
    ASSUME SurfacesInv, ~rebound, NEW a \in Actions, HandleDialog(a)
    PROVE  SurfacesInv'
<1> DEFINE reaches == dialog # Null
           answer == Message("answer", [call |-> a, ok |-> reaches])
           closed == Message("closed", Null)
           said == IF reaches THEN Append(wire, closed) ELSE wire
<1>1. /\ SurfaceTypes /\ AnswersFit(wire, actions)
      /\ ~missed => WireTells(wire, dialog, pendingDialog, actions)
    BY DEF SurfacesInv
<1>2. attached = TRUE /\ wire \in Seq(WireMessages)
    BY <1>1 DEF SurfaceTypes, AnswersFit
<1>3. /\ actions[a].pc \in AwaitsAnswer
      /\ \A i \in DOMAIN wire : wire[i].what = "answer" => wire[i].arg.call # a
      /\ dialog' = Null
      /\ wire' = Append(said, answer)
      /\ missed' = (missed /\ ~reaches)
      /\ UNCHANGED <<pendingDialog, pendingRequest, attached, detecting>>
      /\ NewDocument \/ UNCHANGED <<requests, surface, actions>>
    BY <1>2 DEF HandleDialog, AwaitsAnswer, ClosingSent, Sent, bindings
<1>4. SurfaceTypes' /\ \A b \in Actions : actions'[b].pc = actions[b].pc
    <2>1. CASE NewDocument
        BY <1>1, <1>3, <2>1, NewDocumentType DEF SurfaceTypes
    <2>2. CASE UNCHANGED <<requests, surface, actions>>
        BY <1>1, <1>3, <2>2 DEF SurfaceTypes
    <2> QED
        BY <1>3, <2>1, <2>2
<1>5. answer \in WireMessages /\ closed \in WireMessages
    BY DEF Message, WireMessages
<1>6. /\ answer.what = "answer" /\ answer.arg.call = a /\ answer.arg.ok = reaches
      /\ closed.what = "closed"
    BY DEF Message
<1> HIDE DEF answer, closed
<1>7. /\ said \in Seq(WireMessages)
      /\ AnswersFit(said, actions)
      /\ ~missed' => WireTells(said, Null, pendingDialog, actions)
      /\ \A i \in DOMAIN said : said[i].what = "answer" => said[i].arg.call # a
    <2>1. CASE reaches
        <3>1. said = Append(wire, closed)
            BY <2>1
        <3>2. Tells(closed, actions) /\ Says(closed) = Null
            BY <1>6 DEF Tells, Says
        <3>3. WireTells(said, Null, pendingDialog, actions)
            BY <1>2, <1>5, <3>1, <3>2, TellingSent
        <3>4. AnswersFit(said, actions)
            BY <1>1, <1>5, <1>6, <3>1, SentFits
        <3>5. \A i \in DOMAIN said : said[i] = closed \/ (i \in DOMAIN wire /\ said[i] = wire[i])
            BY <1>2, <3>1
        <3> QED
            BY <1>3, <1>6, <3>3, <3>4, <3>5 DEF AnswersFit
    <2>2. CASE ~reaches
        BY <1>1, <1>2, <1>3, <2>2
    <2> QED
        BY <2>1, <2>2
<1> HIDE DEF said
<1>8. AnswersFit(wire', actions)
    BY <1>3, <1>5, <1>6, <1>7, AnswerFits
<1>9. ~missed' => WireTells(wire', Null, pendingDialog, actions)
    <2>1. CASE Tells(answer, actions)
        <3>1. Says(answer) = Null
            BY <1>6 DEF Says
        <3> QED
            BY <1>3, <1>5, <1>7, <2>1, <3>1, TellingSent
    <2>2. CASE ~Tells(answer, actions)
        BY <1>3, <1>5, <1>7, <2>2, OtherSent
    <2> QED
        BY <2>1, <2>2
<1>10. \A i \in DOMAIN wire' :
          wire'[i].what = "answer"
             => actions'[wire'[i].arg.call].pc = actions[wire'[i].arg.call].pc
    <2> SUFFICES ASSUME NEW i \in DOMAIN wire', wire'[i].what = "answer"
                 PROVE  wire'[i].arg.call \in Actions
        BY <1>4
    <2>1. wire'[i] \in WireMessages
        BY <1>8 DEF AnswersFit
    <2> QED
        BY <2>1 DEF WireMessages
<1>11. /\ AnswersFit(wire', actions')
       /\ ~missed' => WireTells(wire', Null, pendingDialog, actions')
    BY <1>8, <1>9, <1>10, CallsGoOn
<1> QED
    BY <1>3, <1>4, <1>11 DEF SurfacesInv

LEMMA HandleDialogFailsInv ==
    ASSUME SurfacesInv, ~rebound, NEW a \in Actions, HandleDialogFails(a)
    PROVE  SurfacesInv'
<1>1. /\ SurfaceTypes /\ AnswersFit(wire, actions) /\ wire \in Seq(WireMessages)
      /\ ~missed => WireTells(wire, dialog, pendingDialog, actions)
    BY DEF SurfacesInv, AnswersFit
<1>2. /\ \A i \in DOMAIN wire : wire[i].what = "answer" => wire[i].arg.call # a
      /\ UNCHANGED <<dialog, wire, requests, pendingRequest, attached, detecting>>
      /\ surface' = surface \/ surface' = Blank
      /\ Ends(a) \/ Captures(a)
    BY DEF HandleDialogFails, Resolved, Dismissed, pageSide, bindings
<1>3. \/ pendingDialog' = pendingDialog /\ missed' = missed
      \/ pendingDialog' = Null /\ missed' = (missed \/ dialog # Null)
    BY DEF HandleDialogFails, Resolved, Dismissed
<1>4. /\ actions' \in [Actions -> CallType]
      /\ \A b \in Actions : b # a => actions'[b] = actions[b]
    BY <1>1, <1>2, GoesType
<1>5. SurfaceTypes'
    BY <1>1, <1>2, <1>4, StartTypes DEF SurfaceTypes
<1>6. \A i \in DOMAIN wire : wire[i].what = "answer" =>
         actions'[wire[i].arg.call].pc = actions[wire[i].arg.call].pc
    <2> SUFFICES ASSUME NEW i \in DOMAIN wire, wire[i].what = "answer"
                 PROVE  wire[i].arg.call \in Actions
        BY <1>2, <1>4
    <2>1. wire[i] \in WireMessages
        BY <1>1
    <2> QED
        BY <2>1 DEF WireMessages
<1>7. ~missed' => WireTells(wire, dialog, pendingDialog', actions)
    <2>1. CASE pendingDialog' = pendingDialog /\ missed' = missed
        BY <1>1, <2>1
    <2>2. CASE pendingDialog' = Null /\ missed' = (missed \/ dialog # Null)
        BY <1>1, <2>2 DEF WireTells
    <2> QED
        BY <1>3, <2>1, <2>2
<1>8. AnswersFit(wire, actions') /\ (~missed' => WireTells(wire, dialog, pendingDialog', actions'))
    BY <1>1, <1>6, <1>7, CallsGoOn
<1> QED
    BY <1>2, <1>5, <1>8 DEF SurfacesInv

LEMMA CallGoesOn ==
    ASSUME SurfacesInv, ~rebound, UNCHANGED <<wire, dialog, pendingDialog, missed>>,
           NEW a \in Actions, actions[a].pc \notin AwaitsAnswer,
           actions' \in [Actions -> CallType],
           \A b \in Actions : b # a => actions'[b] = actions[b],
           UNCHANGED requests \/ requests' \in Seq(Permissions \cup {Null}),
           UNCHANGED pendingRequest \/ pendingRequest' = NoRequest,
           UNCHANGED surface \/ surface' \in SurfaceType,
           attached' = TRUE, UNCHANGED detecting
    PROVE  SurfacesInv'
<1>1. SurfaceTypes
    BY DEF SurfacesInv
<1>3. requests' \in Seq(Permissions \cup {Null}) /\ surface' \in SurfaceType
    BY <1>1 DEF SurfaceTypes
<1>4. pendingRequest' \in RequestType /\ detecting' \in BOOLEAN
    BY <1>1, StartTypes DEF SurfaceTypes
<1>5. SurfaceTypes'
    BY <1>3, <1>4 DEF SurfaceTypes
<1>6. \A b \in Actions : actions[b].pc \in AwaitsAnswer => actions'[b].pc = actions[b].pc
    OBVIOUS
<1> QED
    BY <1>5, <1>6, NothingSaid

(* Every step of the page, the browser, the handlers and the calls keeps   *)
(* the invariant; a rebinding ends it.                                     *)
LEMMA SurfacesStepInv == SurfacesInv /\ [SurfacesNext]_surfaceVars => SurfacesInv'
<1> SUFFICES ASSUME SurfacesInv, [SurfacesNext]_surfaceVars, ~rebound'
             PROVE  SurfacesInv'
    BY DEF SurfacesInv
<1>0. ~rebound => SurfaceTypes
    BY DEF SurfacesInv
<1>1. CASE DialogOpens
    <2>1. PICK t \in DialogTypes : Opens(t)
        BY <1>1 DEF DialogOpens
    <2> DEFINE m == Message("opening", t)
    <2>2. m \in WireMessages /\ m.what = "opening" /\ m.arg = t
        BY DEF Message, WireMessages
    <2>3. /\ ~rebound
          /\ UNCHANGED <<actions, pendingDialog, requests, pendingRequest, surface, attached,
                         detecting>>
        BY <1>1 DEF DialogOpens, bound, pageSide
    <2>4. wire' = Append(wire, m) /\ dialog' = t
        BY <1>0, <2>1, <2>3 DEF Opens, SurfaceTypes, Sent
    <2>5. Says(m) = t
        BY <2>2 DEF Says
    <2>6. SurfaceTypes'
        BY <1>0, <2>3 DEF SurfaceTypes
    <2> HIDE DEF m
    <2> QED
        BY <2>2, <2>3, <2>4, <2>5, <2>6, EventSaid
<1>2. CASE DialogCloses
    <2> DEFINE m == Message("closed", Null)
    <2>2. m \in WireMessages /\ m.what = "closed"
        BY DEF Message, WireMessages
    <2>3. /\ ~rebound
          /\ UNCHANGED <<actions, pendingDialog, requests, pendingRequest, surface, attached,
                         detecting>>
        BY <1>2 DEF DialogCloses, bindings, pageSide
    <2>4. wire' = Append(wire, m) /\ dialog' = Null
        BY <1>0, <1>2, <2>3 DEF DialogCloses, ClosingSent, SurfaceTypes, Sent
    <2>5. Says(m) = Null
        BY <2>2 DEF Says
    <2>6. SurfaceTypes'
        BY <1>0, <2>3 DEF SurfaceTypes
    <2> HIDE DEF m
    <2> QED
        BY <2>2, <2>3, <2>4, <2>5, <2>6, EventSaid
<1>3. CASE PageNavigates
    <2>1. /\ ~rebound /\ NewDocument
          /\ UNCHANGED <<wire, dialog, pendingDialog, missed, pendingRequest, attached, detecting>>
        BY <1>3 DEF PageNavigates, bound
    <2>2. SurfaceTypes' /\ \A b \in Actions : actions'[b].pc = actions[b].pc
        BY <1>0, <2>1, NewDocumentType DEF SurfaceTypes
    <2> QED
        BY <2>1, <2>2, NothingSaid
<1>4. CASE PageAsks
    <2>1. PICK p \in Permissions : Asks(p)
        BY <1>4 DEF PageAsks
    <2> DEFINE m == Message("request", [id |-> Len(requests'), permission |-> p])
    <2>2. /\ ~rebound
          /\ UNCHANGED <<actions, pendingDialog, missed, dialog, pendingRequest, surface,
                         attached, detecting>>
        BY <1>4 DEF PageAsks, bound
    <2>3. requests' \in Seq(Permissions \cup {Null})
        BY <1>0, <2>1, <2>2 DEF Asks, SurfaceTypes
    <2>4. SurfaceTypes'
        BY <1>0, <2>2, <2>3 DEF SurfaceTypes
    <2>5. m \in WireMessages /\ m.what = "request"
        BY <2>3 DEF Message, WireMessages, RequestType
    <2>6. wire' = Append(wire, m) \/ wire' = wire
        BY <2>1 DEF Asks, Sent
    <2> HIDE DEF m
    <2>7. CASE wire' = Append(wire, m)
        BY <2>2, <2>4, <2>5, <2>7, EventSaid
    <2>8. CASE wire' = wire
        BY <2>2, <2>4, <2>8, NothingSaid
    <2> QED
        BY <2>6, <2>7, <2>8
<1>5. CASE Deliver
    BY <1>5, DeliverInv DEF Deliver, bound
<1>6. CASE TypeIntoSurface
    <2>1. /\ ~rebound
          /\ UNCHANGED <<wire, dialog, pendingDialog, missed, pendingRequest, requests, actions,
                         attached, detecting>>
          /\ surface' = [surface EXCEPT !.value = TRUE]
        BY <1>6 DEF TypeIntoSurface, bound, pageSide
    <2>2. SurfaceTypes'
        BY <1>0, <2>1 DEF SurfaceTypes, SurfaceType
    <2> QED
        BY <2>1, <2>2, NothingSaid
<1>7. ASSUME NEW a \in Actions, HandleDialog(a)
      PROVE  SurfacesInv'
    BY <1>7, HandleDialogInv DEF HandleDialog, bindings
<1>8. ASSUME NEW a \in Actions, ChooserOpens(a)
      PROVE  SurfacesInv'
    <2> DEFINE m == Message("chooser", Null)
    <2>1. /\ ~rebound
          /\ UNCHANGED <<actions, pendingDialog, missed, dialog, requests, pendingRequest,
                         surface, attached, detecting>>
          /\ wire' = Append(wire, m)
        BY <1>8 DEF ChooserOpens, bound, pageSide, Sent
    <2>2. m \in WireMessages /\ m.what = "chooser"
        BY DEF Message, WireMessages
    <2>3. SurfaceTypes'
        BY <1>0, <2>1 DEF SurfaceTypes
    <2> HIDE DEF m
    <2> QED
        BY <2>1, <2>2, <2>3, EventSaid
<1>9. ASSUME NEW a \in Actions, NEW kind \in {"click", "act"}, Begin(a, kind)
      PROVE  SurfacesInv'
    <2>1. /\ ~rebound /\ actions[a] = NoAction
          /\ UNCHANGED <<wire, dialog, pendingDialog, missed, requests, pendingRequest, surface,
                         attached, detecting>>
        BY <1>9 DEF Begin, bound, pageSide
    <2>2. actions[a].pc \notin AwaitsAnswer
        BY <2>1, StartTypes DEF AwaitsAnswer
    <2>3. /\ actions' \in [Actions -> CallType]
          /\ \A b \in Actions : b # a => actions'[b] = actions[b]
        BY <1>0, <1>9, <2>1 DEF Begin, SurfaceTypes, CallType, CallPcs
    <2> QED
        BY <1>0, <2>1, <2>2, <2>3, CallGoesOn DEF SurfaceTypes
<1>10. ASSUME NEW a \in Actions, Probe(a)
      PROVE  SurfacesInv'
    <2>0. SessionHolds /\ (pendingDialog # Null => DismissesBlocking(a))
                  /\ (pendingDialog = Null => Goes(a, "press") /\ UNCHANGED surface)
        BY <1>10 DEF Probe, Rebinds, RebindFails, SessionEnds
    <2>a. ~rebound
        BY <2>0 DEF SessionHolds
    <2>b. SurfaceTypes
        BY <1>0, <2>a
    <2>1. /\ ~rebound
          /\ UNCHANGED <<wire, dialog, pendingDialog, missed, requests, pendingRequest, detecting>>
        BY <1>10, <2>0, <2>a, <2>b DEF Probe, SessionHolds, pageSide, SurfaceTypes
    <2>2. attached' = TRUE
        BY <2>0, <2>a, <2>b DEF SessionHolds, SurfaceTypes
    <2>3. actions[a].pc \notin AwaitsAnswer
        BY <1>10, StartTypes DEF Probe, AwaitsAnswer
    <2>4. /\ actions' \in [Actions -> CallType]
          /\ \A b \in Actions : b # a => actions'[b] = actions[b]
        <3>1. Captures(a) \/ Goes(a, "press")
                \/ actions' = [actions EXCEPT ![a].pc = "dismissing", ![a].accept = FALSE]
            BY <2>0 DEF DismissesBlocking
        <3>2. CASE Captures(a)
            BY <1>0, <2>1, <3>2, GoesType
        <3>3. CASE Goes(a, "press")
            BY <1>0, <2>1, <3>3 DEF Goes, SurfaceTypes, CallType, CallPcs
        <3>4. CASE actions' = [actions EXCEPT ![a].pc = "dismissing", ![a].accept = FALSE]
            <4> DEFINE c == [actions[a] EXCEPT !.pc = "dismissing", !.accept = FALSE]
            <4>1. actions[a] \in CallType /\ SurfaceTypes
                BY <1>0, <2>1 DEF SurfaceTypes
            <4>2. c \in CallType
                BY <4>1 DEF CallType, CallPcs, AwaitsAnswer
            <4>3. actions' = [actions EXCEPT ![a] = c]
                BY <3>4
            <4> HIDE DEF c
            <4> QED
                BY <4>1, <4>2, <4>3 DEF SurfaceTypes
        <3> QED
            BY <3>1, <3>2, <3>3, <3>4
    <2>5. surface' = surface \/ surface' \in SurfaceType
        BY <2>0, StartTypes DEF DismissesBlocking
    <2> QED
        BY <1>0, <2>1, <2>2, <2>3, <2>4, <2>5, CallGoesOn DEF SurfaceTypes
<1>11. ASSUME NEW a \in Actions, Press(a)
      PROVE  SurfacesInv'
    <2>1. /\ ~rebound
          /\ UNCHANGED <<wire, dialog, pendingDialog, missed, requests, pendingRequest, surface,
                         detecting>>
        BY <1>11 DEF Press, pageSide
    <2>2. attached' = TRUE
        BY <1>0, <1>11, <2>1 DEF Press, SurfaceTypes, bound
    <2>3. actions[a].pc \notin AwaitsAnswer
        BY <1>11, StartTypes DEF Press, AwaitsAnswer
    <2>4. /\ actions' \in [Actions -> CallType]
          /\ \A b \in Actions : b # a => actions'[b] = actions[b]
        <3>1. \/ Ends(a)
              \/ actions' = [actions EXCEPT ![a].pc = "pressing", ![a].since = FALSE,
                                           ![a].early = (actions[a].kind = "click")]
            BY <1>11 DEF Press
        <3>2. CASE Ends(a)
            BY <1>0, <2>1, <3>2, GoesType
        <3>3. CASE ~Ends(a)
            BY <1>0, <2>1, <3>1, <3>3 DEF SurfaceTypes, CallType, CallPcs
        <3> QED
            BY <3>2, <3>3
    <2> QED
        BY <1>0, <2>1, <2>2, <2>3, <2>4, CallGoesOn DEF SurfaceTypes
<1>12. ASSUME NEW a \in Actions, DialogSeen(a)
      PROVE  SurfacesInv'
    <2>1. /\ ~rebound
          /\ UNCHANGED <<wire, dialog, pendingDialog, missed, requests, pendingRequest, detecting>>
        BY <1>12 DEF DialogSeen, pageSide, bound
    <2>2. attached' = TRUE
        BY <1>0, <1>12, <2>1 DEF DialogSeen, SurfaceTypes, bound
    <2>3. actions[a].pc \notin AwaitsAnswer
        BY <1>12, StartTypes DEF DialogSeen, AwaitsAnswer
    <2>4. /\ actions' \in [Actions -> CallType]
          /\ \A b \in Actions : b # a => actions'[b] = actions[b]
        BY <1>0, <1>12, <2>1, GoesType DEF DialogSeen, Shows
    <2>5. surface' = surface \/ surface' \in SurfaceType
        BY <1>12, StartTypes DEF DialogSeen, Shows
    <2> QED
        BY <1>0, <2>1, <2>2, <2>3, <2>4, <2>5, CallGoesOn DEF SurfaceTypes
<1>13. ASSUME NEW a \in Actions, RaceEnds(a)
      PROVE  SurfacesInv'
    <2>1. /\ ~rebound
          /\ UNCHANGED <<wire, dialog, pendingDialog, missed, requests, pendingRequest, surface,
                         detecting>>
        BY <1>13 DEF RaceEnds, pageSide, bound
    <2>2. attached' = TRUE
        BY <1>0, <1>13, <2>1 DEF RaceEnds, SurfaceTypes, bound
    <2>3. actions[a].pc \notin AwaitsAnswer
        BY <1>13, StartTypes DEF RaceEnds, AwaitsAnswer
    <2>4. /\ actions' \in [Actions -> CallType]
          /\ \A b \in Actions : b # a => actions'[b] = actions[b]
        BY <1>0, <1>13, <2>1 DEF RaceEnds, SurfaceTypes, CallType, CallPcs, AwaitsAnswer
    <2> QED
        BY <1>0, <2>1, <2>2, <2>3, <2>4, CallGoesOn DEF SurfaceTypes
<1>14. ASSUME NEW a \in Actions, Pressed(a)
      PROVE  SurfacesInv'
    <2>1. /\ ~rebound
          /\ UNCHANGED <<wire, dialog, pendingDialog, missed, requests, pendingRequest, detecting>>
        BY <1>14 DEF Pressed, pageSide, bound
    <2>2. attached' = TRUE
        BY <1>0, <1>14, <2>1 DEF Pressed, SurfaceTypes, bound
    <2>3. actions[a].pc \notin AwaitsAnswer
        BY <1>14, StartTypes DEF Pressed, AwaitsAnswer
    <2>4. /\ actions' \in [Actions -> CallType]
          /\ \A b \in Actions : b # a => actions'[b] = actions[b]
        <3>1. Ends(a) \/ Goes(a, "settle")
            BY <1>14 DEF Pressed, Shows
        <3>2. CASE Ends(a)
            BY <1>0, <2>1, <3>2, GoesType
        <3>3. CASE Goes(a, "settle")
            BY <1>0, <2>1, <3>3 DEF Goes, SurfaceTypes, CallType, CallPcs
        <3> QED
            BY <3>1, <3>2, <3>3
    <2>5. surface' = surface \/ surface' \in SurfaceType
        BY <1>14, StartTypes DEF Pressed, Shows
    <2> QED
        BY <1>0, <2>1, <2>2, <2>3, <2>4, <2>5, CallGoesOn DEF SurfaceTypes
<1>15. ASSUME NEW a \in Actions, Settle(a)
      PROVE  SurfacesInv'
    <2>1. /\ ~rebound
          /\ UNCHANGED <<wire, dialog, pendingDialog, missed, requests, pendingRequest, detecting>>
        BY <1>15 DEF Settle, pageSide, bound
    <2>2. attached' = TRUE
        BY <1>0, <1>15, <2>1 DEF Settle, SurfaceTypes, bound
    <2>3. actions[a].pc \notin AwaitsAnswer
        BY <1>15, StartTypes DEF Settle, AwaitsAnswer
    <2>4. /\ actions' \in [Actions -> CallType]
          /\ \A b \in Actions : b # a => actions'[b] = actions[b]
        BY <1>0, <1>15, <2>1, GoesType DEF Settle
    <2>5. surface' = surface \/ surface' \in SurfaceType
        <3>1. Current(pendingRequest) \in BOOLEAN /\ pendingRequest \in RequestType
            BY <1>0, <2>1 DEF Current, SurfaceTypes
        <3> QED
            BY <1>15, <3>1, StartTypes DEF Settle
    <2> QED
        BY <1>0, <2>1, <2>2, <2>3, <2>4, <2>5, CallGoesOn DEF SurfaceTypes
<1>16. ASSUME NEW a \in Actions, Capture(a)
      PROVE  SurfacesInv'
    <2>0. SessionHolds
        BY <1>16 DEF Capture, Rebinds, RebindFails, SessionEnds
    <2>a. ~rebound
        BY <2>0 DEF SessionHolds
    <2>b. SurfaceTypes
        BY <1>0, <2>a
    <2>1. /\ ~rebound
          /\ UNCHANGED <<wire, dialog, pendingDialog, missed, requests, pendingRequest, surface,
                         detecting>>
        BY <1>16, <2>0, <2>a, <2>b DEF Capture, SessionHolds, pageSide, SurfaceTypes
    <2>2. attached' = TRUE
        BY <2>0, <2>a, <2>b DEF SessionHolds, SurfaceTypes
    <2>3. actions[a].pc \notin AwaitsAnswer
        BY <1>16, StartTypes DEF Capture, AwaitsAnswer
    <2>4. /\ actions' \in [Actions -> CallType]
          /\ \A b \in Actions : b # a => actions'[b] = actions[b]
        BY <1>0, <1>16, <2>1, GoesType DEF Capture
    <2> QED
        BY <1>0, <2>1, <2>2, <2>3, <2>4, CallGoesOn DEF SurfaceTypes
<1>17. ASSUME NEW a \in Actions, FileInput(a)
      PROVE  SurfacesInv'
    <2>1. /\ ~rebound
          /\ UNCHANGED <<wire, dialog, pendingDialog, missed, requests, pendingRequest, detecting>>
        BY <1>17 DEF FileInput, pageSide, bound
    <2>2. attached' = TRUE
        BY <1>0, <1>17, <2>1 DEF FileInput, SurfaceTypes, bound
    <2>3. actions[a].pc \notin AwaitsAnswer
        BY <1>17, StartTypes DEF FileInput, AwaitsAnswer
    <2>4. /\ actions' \in [Actions -> CallType]
          /\ \A b \in Actions : b # a => actions'[b] = actions[b]
        BY <1>0, <1>17, <2>1, GoesType DEF FileInput
    <2>5. surface' = surface \/ surface' \in SurfaceType
        BY <1>17, StartTypes DEF FileInput
    <2> QED
        BY <1>0, <2>1, <2>2, <2>3, <2>4, <2>5, CallGoesOn DEF SurfaceTypes
<1>18. ASSUME NEW a \in Actions, Look(a)
      PROVE  SurfacesInv'
    <2>1. /\ ~rebound
          /\ UNCHANGED <<wire, dialog, pendingDialog, missed, requests, pendingRequest, surface,
                         detecting>>
        BY <1>18 DEF Look, pageSide, bound
    <2>2. attached' = TRUE
        BY <1>0, <1>18, <2>1 DEF Look, SurfaceTypes, bound
    <2>3. actions[a].pc \notin AwaitsAnswer
        BY <1>18, StartTypes DEF Look, AwaitsAnswer
    <2>4. /\ actions' \in [Actions -> CallType]
          /\ \A b \in Actions : b # a => actions'[b] = actions[b]
        BY <1>0, <1>18, <2>1, GoesType DEF Look
    <2> QED
        BY <1>0, <2>1, <2>2, <2>3, <2>4, CallGoesOn DEF SurfaceTypes
<1>19. ASSUME NEW a \in Actions, ResolveDialog(a)
      PROVE  SurfacesInv'
    <2>0. ~rebound /\ attached'
        BY <1>0, <1>19 DEF ResolveDialog, SurfaceTypes
    <2>1. /\ ~rebound
          /\ UNCHANGED <<wire, dialog, pendingDialog, missed, requests, pendingRequest, surface,
                         detecting>>
        BY <1>19, <2>0 DEF ResolveDialog, pageSide
    <2>2. attached' = TRUE
        BY <1>0, <1>19, <2>1 DEF ResolveDialog, SurfaceTypes, bound
    <2>3. actions[a].pc \notin AwaitsAnswer
        BY <1>19, StartTypes DEF ResolveDialog, AwaitsAnswer
    <2>4. /\ actions' \in [Actions -> CallType]
          /\ \A b \in Actions : b # a => actions'[b] = actions[b]
        <3>1. PICK accept \in BOOLEAN : actions' = [actions EXCEPT ![a].pc = "resolving",
                                                             ![a].accept = accept]
            BY <1>0, <1>19, <2>1, <2>2 DEF ResolveDialog
        <3> QED
            <4> DEFINE c == [actions[a] EXCEPT !.pc = "resolving", !.accept = accept]
            <4>1. actions[a] \in CallType /\ SurfaceTypes
                BY <1>0, <2>1 DEF SurfaceTypes
            <4>2. c \in CallType
                BY <4>1 DEF CallType, CallPcs, AwaitsAnswer
            <4>3. actions' = [actions EXCEPT ![a] = c]
                BY <3>1
            <4> HIDE DEF c
            <4> QED
                BY <4>1, <4>2, <4>3 DEF SurfaceTypes
    <2> QED
        BY <1>0, <2>1, <2>2, <2>3, <2>4, CallGoesOn DEF SurfaceTypes
<1>20. ASSUME NEW a \in Actions, PickerChoose(a)
      PROVE  SurfacesInv'
    <2>1. /\ ~rebound
          /\ UNCHANGED <<wire, dialog, pendingDialog, missed, requests, pendingRequest, detecting>>
        BY <1>20 DEF PickerChoose, pageSide
    <2>2. attached' = TRUE
        BY <1>0, <1>20, <2>1 DEF PickerChoose, SurfaceTypes, bound
    <2>3. actions[a].pc \notin AwaitsAnswer
        BY <1>20, StartTypes DEF PickerChoose, AwaitsAnswer
    <2>4. /\ actions' \in [Actions -> CallType]
          /\ \A b \in Actions : b # a => actions'[b] = actions[b]
        BY <1>0, <1>20, <2>1, GoesType DEF PickerChoose
    <2>5. surface' = surface \/ surface' \in SurfaceType
        BY <1>20, StartTypes DEF PickerChoose
    <2> QED
        BY <1>0, <2>1, <2>2, <2>3, <2>4, <2>5, CallGoesOn DEF SurfaceTypes
<1>21. ASSUME NEW a \in Actions, PickerCancel(a)
      PROVE  SurfacesInv'
    <2>1. /\ ~rebound
          /\ UNCHANGED <<wire, dialog, pendingDialog, missed, requests, pendingRequest, detecting>>
        BY <1>21 DEF PickerCancel, pageSide
    <2>2. attached' = TRUE
        BY <1>0, <1>21, <2>1 DEF PickerCancel, SurfaceTypes, bound
    <2>3. actions[a].pc \notin AwaitsAnswer
        BY <1>21, StartTypes DEF PickerCancel, AwaitsAnswer
    <2>4. /\ actions' \in [Actions -> CallType]
          /\ \A b \in Actions : b # a => actions'[b] = actions[b]
        BY <1>0, <1>21, <2>1, GoesType DEF PickerCancel
    <2>5. surface' = surface \/ surface' \in SurfaceType
        BY <1>21, StartTypes DEF PickerCancel
    <2> QED
        BY <1>0, <2>1, <2>2, <2>3, <2>4, <2>5, CallGoesOn DEF SurfaceTypes
<1>22. ASSUME NEW a \in Actions, ResolvePermission(a)
      PROVE  SurfacesInv'
    <2>1. /\ ~rebound
          /\ UNCHANGED <<wire, dialog, pendingDialog, missed, requests, pendingRequest, surface,
                         detecting>>
        BY <1>22 DEF ResolvePermission, pageSide, bound
    <2>2. attached' = TRUE
        BY <1>0, <1>22, <2>1 DEF ResolvePermission, SurfaceTypes, bound
    <2>3. actions[a].pc \notin AwaitsAnswer
        BY <1>22, StartTypes DEF ResolvePermission, AwaitsAnswer
    <2>4. /\ actions' \in [Actions -> CallType]
          /\ \A b \in Actions : b # a => actions'[b] = actions[b]
        <3>1. PICK granted \in BOOLEAN :
                 actions' = [actions EXCEPT ![a].pc = "deciding", ![a].accept = granted,
                                            ![a].request = surface.request,
                                            ![a].fresh = surface.fresh]
            BY <1>22 DEF ResolvePermission
        <3>2. surface.request \in RequestType /\ surface.fresh \in BOOLEAN
            BY <1>0, <2>1 DEF SurfaceTypes, SurfaceType
        <3> QED
            <4> DEFINE c == [actions[a] EXCEPT !.pc = "deciding", !.accept = granted,
                                               !.request = surface.request,
                                               !.fresh = surface.fresh]
            <4>1. actions[a] \in CallType /\ SurfaceTypes
                BY <1>0, <2>1 DEF SurfaceTypes
            <4>2. c \in CallType
                BY <3>2, <4>1 DEF CallType, CallPcs
            <4>3. actions' = [actions EXCEPT ![a] = c]
                BY <3>1
            <4> HIDE DEF c
            <4> QED
                BY <4>1, <4>2, <4>3 DEF SurfaceTypes
    <2> QED
        BY <1>0, <2>1, <2>2, <2>3, <2>4, CallGoesOn DEF SurfaceTypes
<1>23. ASSUME NEW a \in Actions, SetPermissions(a)
      PROVE  SurfacesInv'
    <2>1. /\ ~rebound
          /\ UNCHANGED <<wire, dialog, pendingDialog, missed, requests, pendingRequest, surface,
                         detecting>>
        BY <1>23 DEF SetPermissions, bound
    <2>2. attached' = TRUE
        BY <1>0, <1>23, <2>1 DEF SetPermissions, SurfaceTypes, bound
    <2>3. actions[a].pc \notin AwaitsAnswer
        BY <1>23, StartTypes DEF SetPermissions, AwaitsAnswer
    <2>4. /\ actions' \in [Actions -> CallType]
          /\ \A b \in Actions : b # a => actions'[b] = actions[b]
        <3>1. Ends(a) \/ Goes(a, "replaying")
            BY <1>23 DEF SetPermissions
        <3>2. CASE Ends(a)
            BY <1>0, <2>1, <3>2, GoesType
        <3>3. CASE Goes(a, "replaying")
            BY <1>0, <2>1, <3>3 DEF Goes, SurfaceTypes, CallType, CallPcs
        <3> QED
            BY <3>1, <3>2, <3>3
    <2> QED
        BY <1>0, <2>1, <2>2, <2>3, <2>4, CallGoesOn DEF SurfaceTypes
<1>24. ASSUME NEW a \in Actions, Replay(a)
      PROVE  SurfacesInv'
    <2>1. ~rebound /\ UNCHANGED <<wire, dialog, pendingDialog, missed, detecting>>
        BY <1>24 DEF Replay, bound
    <2>2. attached' = TRUE
        BY <1>0, <1>24, <2>1 DEF Replay, SurfaceTypes, bound
    <2>3. actions[a].pc \notin AwaitsAnswer
        BY <1>24, StartTypes DEF Replay, AwaitsAnswer
    <2>4. /\ actions' \in [Actions -> CallType]
          /\ \A b \in Actions : b # a => actions'[b] = actions[b]
        BY <1>0, <1>24, <2>1, GoesType DEF Replay
    <2>5. surface' = surface \/ surface' \in SurfaceType
        BY <1>24, StartTypes DEF Replay
    <2>6. requests' = requests \/ requests' \in Seq(Permissions \cup {Null})
        BY <1>0, <1>24, <2>1 DEF Replay, SurfaceTypes
    <2>7. pendingRequest' = pendingRequest \/ pendingRequest' = NoRequest
        BY <1>24 DEF Replay
    <2> QED
        BY <1>0, <2>1, <2>2, <2>3, <2>4, <2>5, <2>6, <2>7, CallGoesOn DEF SurfaceTypes
<1>25. CASE UNCHANGED surfaceVars
    BY <1>25, NothingSaid DEF surfaceVars, SurfacesInv, SurfaceTypes
<1>26. CASE SessionDies
    BY <1>26 DEF SessionDies, SessionEnds
<1>27. ASSUME NEW a \in Actions, HandleDialogFails(a)
       PROVE  SurfacesInv'
    BY <1>27, HandleDialogFailsInv DEF HandleDialogFails, bindings
<1> QED
    BY <1>1, <1>2, <1>3, <1>4, <1>5, <1>6, <1>7, <1>8, <1>9, <1>10, <1>11, <1>12, <1>13, <1>14,
       <1>15, <1>16, <1>17, <1>18, <1>19, <1>20, <1>21, <1>22, <1>23, <1>24, <1>25, <1>26, <1>27
       DEF SurfacesNext

(* The pending dialog that decides whether a tool may touch the page is    *)
(* the dialog that blocks it, once what the browser said is heard, for any *)
(* calls, dialogs and messages under way, whatever commands fail, until the*)
(* session ends; but for a dialog whose resolution failed.                 *)
THEOREM PendingMeansShown == Spec => []PendingIsShown
<1>1. Init => SurfacesInv
    BY SurfacesInitInv DEF Init
<1>2. SurfacesInv /\ [Next]_vars => SurfacesInv'
    <2>1. [Next]_vars => [SurfacesNext]_surfaceVars
        BY DEF Next, vars, SurfacesStep, RegistryStep, NetworkStep, ObservationsStep,
               InputsStep, HealthStep
    <2> QED
        BY <2>1, SurfacesStepInv
<1>3. SurfacesInv => PendingIsShown
    BY DEF SurfacesInv, WireTells, PendingIsShown
<1> QED
    BY <1>1, <1>2, <1>3, PTL DEF Spec

-----------------------------------------------------------------------------

(* The page registry. A call keeps the handle it found across its awaits,  *)
(* and the handle may be replaced or removed in the meantime. What         *)
(* survives is that no two handles, and no handle and call, share a client *)
(* unless they share the id, that an id is for one tab, and that ids are   *)
(* never given twice.                                                      *)

(* Entries, clients and calls, and the tables of them.                     *)
PageHandle == [id : Nat, page : Tabs, cdp : Nat]

CdpClient == [page : Tabs, state : {"active", "dead", "closed"}]

RegCall ==
    [op : {Null, "sync", "create", "close", "rebind"},
     pc : {"idle", "listing", "looking", "creating", "tracking", "detaching", "closing"},
     page : Tabs \cup {Null}, id : Nat, cdp : Nat, todo : SUBSET Tabs]

RegistryShape ==
    /\ tabs \in [Tabs -> {"none", "open", "closed"}]
    /\ registry \in Seq(PageHandle)
    /\ clients \in Seq(CdpClient)
    /\ regCalls \in [RegCalls -> RegCall]

(* Ids and clients are those that were given; an id is for one entry, and  *)
(* none that left the registry is in it.                                   *)
IdsInv ==
    /\ \A id \in gone : id \in Nat /\ id <= Len(clients)
    /\ \A i \in DOMAIN registry :
          /\ registry[i].id \in 1 .. Len(clients) /\ registry[i].id \notin gone
          /\ registry[i].cdp \in 1 .. Len(clients)
    /\ \A i, j \in DOMAIN registry :
          registry[i].id = registry[j].id \/ registry[i].cdp = registry[j].cdp => i = j

(* A call that holds a handle holds one that is or was in the registry.    *)
Held(r) ==
    /\ r.op \in {"sync", "create", Null} => r.id = 0 /\ r.cdp = 0 /\ r.pc \notin {"detaching", "closing"}
    /\ r.op \in {"sync", "create"} /\ r.pc = "creating" => r.page \in Tabs
    /\ r.op \in {"close", "rebind"} =>
          /\ r.pc \in {"detaching", "closing", "creating"}
          /\ r.pc = "creating" => r.op = "rebind"
          /\ r.id \in 1 .. Len(clients) /\ r.cdp \in 1 .. Len(clients) /\ r.page \in Tabs
          /\ \A i \in DOMAIN registry :
                /\ r.id = registry[i].id => r.page = registry[i].page
                /\ r.cdp = registry[i].cdp => r.id = registry[i].id

(* So does every call.                                                     *)
HeldInv == \A c \in RegCalls : Held(regCalls[c])

(* A registered client was closed by a call that is still to close the     *)
(* page or to replace that very client, or has failed to replace it, or    *)
(* else the tab is closed.  It is not enough that some call is at work on  *)
(* the page: one that holds an older client may fail.                      *)
AtWork(r, k) == r.cdp = k /\ r.pc \in {"closing", "creating"}

ClosedInv ==
    \A i \in DOMAIN registry :
        clients[registry[i].cdp].state = "closed" =>
            \/ tabs[registry[i].page] = "closed"
            \/ registry[i].cdp \in unrepaired
            \/ \E c \in RegCalls : AtWork(regCalls[c], registry[i].cdp)

RegistryInv == RegistryShape /\ IdsInv /\ HeldInv /\ ClosedInv

-----------------------------------------------------------------------------
(* The entries of the registry, and the clients, have their types.         *)
LEMMA EntryTypes ==
    ASSUME RegistryShape
    PROVE  /\ DOMAIN registry = 1 .. Len(registry) /\ Len(registry) \in Nat
           /\ DOMAIN clients = 1 .. Len(clients) /\ Len(clients) \in Nat
           /\ \A i \in DOMAIN registry : registry[i] \in PageHandle
           /\ \A k \in DOMAIN clients : clients[k] \in CdpClient
BY DEF RegistryShape

(* What StepCall does to the calls.                                        *)
LEMMA StepCallFacts ==
    ASSUME regCalls \in [RegCalls -> RegCall], NEW c \in RegCalls,
           NEW pc \in {"looking", "tracking", "closing", "creating"}, StepCall(c, pc)
    PROVE  /\ regCalls' \in [RegCalls -> RegCall]
           /\ regCalls'[c].pc = pc
           /\ regCalls'[c].op = regCalls[c].op /\ regCalls'[c].page = regCalls[c].page
           /\ regCalls'[c].id = regCalls[c].id /\ regCalls'[c].cdp = regCalls[c].cdp
           /\ \A d \in RegCalls : d # c => regCalls'[d] = regCalls[d]
<1>1. regCalls' = [regCalls EXCEPT ![c] = [regCalls[c] EXCEPT !.pc = pc]]
    BY DEF StepCall
<1>2. [regCalls[c] EXCEPT !.pc = pc] \in RegCall
    BY DEF RegCall
<1> QED
    BY <1>1, <1>2 DEF RegCall

(* What EndCall does to the calls.                                         *)
LEMMA EndCallFacts ==
    ASSUME regCalls \in [RegCalls -> RegCall], NEW c \in RegCalls, EndCall(c)
    PROVE  /\ regCalls' \in [RegCalls -> RegCall]
           /\ regCalls'[c].op = Null /\ regCalls'[c].pc = "idle" /\ regCalls'[c].id = 0
           /\ regCalls'[c].cdp = 0
           /\ \A d \in RegCalls : d # c => regCalls'[d] = regCalls[d]
<1>1. NoRegCall \in RegCall
    BY DEF NoRegCall, RegCall
<1> QED
    BY <1>1 DEF EndCall, NoRegCall

(* A step of one call, that leaves the registry and the clients alone.     *)
LEMMA CallInv ==
    ASSUME RegistryInv, NEW c \in RegCalls, UNCHANGED <<registry, clients, gone>>,
           unrepaired \subseteq unrepaired',
           tabs' \in [Tabs -> {"none", "open", "closed"}],
           \A t \in Tabs : tabs[t] = "closed" => tabs'[t] = "closed",
           regCalls' \in [RegCalls -> RegCall],
           \A d \in RegCalls : d # c => regCalls'[d] = regCalls[d],
           Held(regCalls'[c]),
           \A i \in DOMAIN registry :
               \/ tabs[registry[i].page] = "closed"
               \/ AtWork(regCalls[c], registry[i].cdp) =>
                     AtWork(regCalls'[c], registry[i].cdp) \/ registry[i].cdp \in unrepaired'
    PROVE  RegistryInv'
<1>1. RegistryShape'
    BY DEF RegistryInv, RegistryShape
<1>2. IdsInv'
    BY DEF RegistryInv, IdsInv
<1>3. HeldInv'
    BY DEF RegistryInv, HeldInv, Held
<1>4. ClosedInv'
    <2> SUFFICES ASSUME NEW i \in DOMAIN registry,
                        clients[registry[i].cdp].state = "closed",
                        tabs'[registry[i].page] # "closed",
                        registry[i].cdp \notin unrepaired'
                 PROVE  \E d \in RegCalls : AtWork(regCalls'[d], registry[i].cdp)
        BY DEF ClosedInv, AtWork
    <2>1. registry[i].page \in Tabs
        BY EntryTypes DEF RegistryInv, PageHandle
    <2>2. PICK d \in RegCalls : AtWork(regCalls[d], registry[i].cdp)
        BY <2>1 DEF RegistryInv, ClosedInv
    <2> QED
        BY <2>1, <2>2
<1> QED
    BY <1>1, <1>2, <1>3, <1>4 DEF RegistryInv

(* A session that is created registers its page, under an id of its own.   *)
LEMMA RegisterInv ==
    ASSUME RegistryInv, NEW c \in RegCalls, NEW t \in Tabs, RegisterPage(t),
           UNCHANGED <<tabs, gone, unrepaired>>, regCalls' \in [RegCalls -> RegCall],
           \A d \in RegCalls : d # c => regCalls'[d] = regCalls[d],
           regCalls[c].op \in {"sync", "create"}, regCalls'[c].op = regCalls[c].op,
           regCalls'[c].id = regCalls[c].id, regCalls'[c].cdp = regCalls[c].cdp,
           regCalls'[c].pc \in {"looking", "tracking"}
    PROVE  RegistryInv'
<1> DEFINE k == Len(clients) + 1
           h == [id |-> k, page |-> t, cdp |-> k]
<1>1. RegistryShape /\ IdsInv /\ HeldInv /\ ClosedInv
    BY DEF RegistryInv
<1>2. /\ DOMAIN registry = 1 .. Len(registry) /\ Len(registry) \in Nat
      /\ DOMAIN clients = 1 .. Len(clients) /\ Len(clients) \in Nat
      /\ \A i \in DOMAIN registry : registry[i] \in PageHandle
    BY <1>1, EntryTypes
<1>3. h \in PageHandle /\ [page |-> t, state |-> "active"] \in CdpClient
    BY <1>2 DEF PageHandle, CdpClient
<1>4. /\ registry' = Append(registry, h)
      /\ clients' = Append(clients, [page |-> t, state |-> "active"])
    BY DEF RegisterPage
<1>5. RegistryShape'
    BY <1>1, <1>3, <1>4 DEF RegistryShape
<1>6. /\ Len(clients') = k /\ clients'[k].state = "active"
      /\ \A j \in DOMAIN clients : clients'[j] = clients[j]
    BY <1>1, <1>3, <1>4 DEF RegistryShape
<1>7. /\ DOMAIN registry' = 1 .. Len(registry) + 1
      /\ registry'[Len(registry) + 1] = h
      /\ \A i \in DOMAIN registry : registry'[i] = registry[i]
    BY <1>1, <1>3, <1>4 DEF RegistryShape
<1>8. \A i \in DOMAIN registry' : i \in DOMAIN registry \/ registry'[i] = h
    BY <1>2, <1>7
<1>9. IdsInv'
    <2>1. \A id \in gone' : id \in Nat /\ id <= Len(clients')
        BY <1>1, <1>2, <1>6 DEF IdsInv
    <2>2. \A i \in DOMAIN registry' :
              /\ registry'[i].id \in 1 .. Len(clients') /\ registry'[i].id \notin gone'
              /\ registry'[i].cdp \in 1 .. Len(clients')
        BY <1>1, <1>2, <1>6, <1>7, <1>8 DEF IdsInv
    <2>3. \A i, j \in DOMAIN registry' :
              registry'[i].id = registry'[j].id \/ registry'[i].cdp = registry'[j].cdp => i = j
        BY <1>1, <1>2, <1>7, <1>8 DEF IdsInv
    <2> QED
        BY <2>1, <2>2, <2>3 DEF IdsInv
<1>10. HeldInv'
    <2>1. Held(regCalls[c])' 
        BY <1>1, <1>2 DEF HeldInv, Held
    <2>2. ASSUME NEW d \in RegCalls, d # c
          PROVE  Held(regCalls[d])'
        <3>1. Held(regCalls[d])
            BY <1>1 DEF HeldInv
        <3>2. \A i \in DOMAIN registry' :
                  (i \in DOMAIN registry /\ registry'[i] = registry[i]) \/ registry'[i] = h
            BY <1>7, <1>8
        <3>3. \A n \in 1 .. Len(clients) : n \in 1 .. Len(clients') /\ n # k
            BY <1>2, <1>6
        <3>4. regCalls'[d] = regCalls[d] /\ h.id = k /\ h.cdp = k
            BY <2>2
        <3> QED
            BY <3>1, <3>2, <3>3, <3>4 DEF Held
    <2> QED
        BY <2>1, <2>2 DEF HeldInv
<1>11. ClosedInv'
    <2> SUFFICES ASSUME NEW i \in DOMAIN registry',
                        clients'[registry'[i].cdp].state = "closed",
                        tabs[registry'[i].page] # "closed",
                        registry'[i].cdp \notin unrepaired
                 PROVE  \E d \in RegCalls : AtWork(regCalls'[d], registry'[i].cdp)
        BY DEF ClosedInv
    <2>1. i \in DOMAIN registry /\ registry'[i] = registry[i]
        BY <1>6, <1>7, <1>8
    <2>2. clients[registry[i].cdp].state = "closed"
        BY <1>1, <1>2, <1>6, <2>1 DEF IdsInv
    <2>3. PICK d \in RegCalls : AtWork(regCalls[d], registry[i].cdp)
        BY <1>1, <2>1, <2>2 DEF ClosedInv
    <2>4. registry[i].cdp # 0
        BY <1>1, <1>2, <2>1 DEF IdsInv
    <2>5. d # c
        BY <1>1, <2>3, <2>4 DEF HeldInv, Held, AtWork
    <2> QED
        BY <2>1, <2>3, <2>5
<1> QED
    BY <1>5, <1>9, <1>10, <1>11 DEF RegistryInv

(* A call that has detached the session of its handle is at work on it.    *)
LEMMA DetachedInv ==
    ASSUME RegistryInv, NEW c \in RegCalls, Detached(c)
    PROVE  RegistryInv'
<1> DEFINE k == regCalls[c].cdp
           pc == IF regCalls[c].op = "close" THEN "closing" ELSE "creating"
<1>1. RegistryShape /\ IdsInv /\ HeldInv /\ ClosedInv
    BY DEF RegistryInv
<1>2. /\ DOMAIN registry = 1 .. Len(registry) /\ Len(registry) \in Nat
      /\ DOMAIN clients = 1 .. Len(clients) /\ Len(clients) \in Nat
      /\ \A i \in DOMAIN registry : registry[i] \in PageHandle
      /\ \A n \in DOMAIN clients : clients[n] \in CdpClient
    BY <1>1, EntryTypes
<1>3. /\ regCalls[c].pc = "detaching" /\ StepCall(c, pc) /\ CloseClient(k)
      /\ UNCHANGED <<running, tabs, registry, mru, gone, unrepaired>>
    BY DEF Detached
<1>4. pc \in {"looking", "tracking", "closing", "creating"} /\ pc \in {"closing", "creating"}
    OBVIOUS
<1>5. regCalls \in [RegCalls -> RegCall]
    BY <1>1 DEF RegistryShape
<1>6. /\ regCalls' \in [RegCalls -> RegCall]
      /\ regCalls'[c].pc = pc
      /\ regCalls'[c].op = regCalls[c].op /\ regCalls'[c].page = regCalls[c].page
      /\ regCalls'[c].id = regCalls[c].id /\ regCalls'[c].cdp = k
      /\ \A d \in RegCalls : d # c => regCalls'[d] = regCalls[d]
    <2> HIDE DEF pc
    <2> QED
        BY <1>3, <1>4, <1>5, StepCallFacts
<1>7. regCalls[c].op \in {"close", "rebind"} /\ Held(regCalls[c])
    BY <1>1, <1>3, <1>5 DEF HeldInv, Held, RegCall
<1>8. k \in DOMAIN clients
    BY <1>2, <1>7 DEF Held
<1>9. /\ clients' \in Seq(CdpClient) /\ Len(clients') = Len(clients)
      /\ \A n \in DOMAIN clients : n # k => clients'[n] = clients[n]
    <2>1. CASE clients[k].state = "active"
        <3>1. clients' = [clients EXCEPT ![k] = [clients[k] EXCEPT !.state = "closed"]]
            BY <1>3, <2>1 DEF CloseClient
        <3>2. [clients[k] EXCEPT !.state = "closed"] \in CdpClient
            BY <1>2, <1>8 DEF CdpClient
        <3> QED
            BY <1>1, <1>2, <1>8, <3>1, <3>2 DEF RegistryShape
    <2>2. CASE clients[k].state # "active"
        BY <1>1, <1>3, <2>2 DEF CloseClient, RegistryShape
    <2> QED
        BY <2>1, <2>2
<1>10. RegistryShape'
    BY <1>1, <1>3, <1>6, <1>9 DEF RegistryShape
<1>11. IdsInv'
    BY <1>1, <1>3, <1>9 DEF IdsInv
<1>12. HeldInv'
    <2>1. Held(regCalls[c])'
        BY <1>3, <1>6, <1>7, <1>9 DEF Held
    <2>2. ASSUME NEW d \in RegCalls, d # c
          PROVE  Held(regCalls[d])'
        <3>1. Held(regCalls[d]) /\ regCalls'[d] = regCalls[d]
            BY <1>1, <1>6, <2>2 DEF HeldInv
        <3> QED
            BY <1>3, <1>9, <3>1 DEF Held
    <2> QED
        BY <2>1, <2>2 DEF HeldInv
<1>13. ClosedInv'
    <2> SUFFICES ASSUME NEW i \in DOMAIN registry,
                        clients'[registry[i].cdp].state = "closed",
                        tabs[registry[i].page] # "closed",
                        registry[i].cdp \notin unrepaired
                 PROVE  \E d \in RegCalls : AtWork(regCalls'[d], registry[i].cdp)
        BY <1>3 DEF ClosedInv
    <2>1. CASE registry[i].cdp = k
        BY <1>4, <1>6, <2>1 DEF AtWork
    <2>2. CASE registry[i].cdp # k
        <3>1. clients[registry[i].cdp].state = "closed"
            BY <1>1, <1>2, <1>9, <2>2 DEF IdsInv
        <3>2. PICK d \in RegCalls : AtWork(regCalls[d], registry[i].cdp)
            BY <1>1, <3>1 DEF ClosedInv
        <3>3. d # c
            BY <1>3, <3>2 DEF AtWork
        <3> QED
            BY <1>6, <3>2, <3>3
    <2> QED
        BY <2>1, <2>2
<1> QED
    BY <1>10, <1>11, <1>12, <1>13 DEF RegistryInv

(* A repair that ends registers its new session, and nobody else's.        *)
LEMMA ReplaceInv ==
    ASSUME RegistryInv, NEW c \in RegCalls, regCalls[c].op = "rebind",
           regCalls[c].pc = "creating",
           clients' = Append(clients, [page |-> regCalls[c].page, state |-> "active"]),
           ReplacePage(regCalls[c].id, [id |-> regCalls[c].id, page |-> regCalls[c].page,
                                        cdp |-> Len(clients) + 1]),
           EndCall(c), UNCHANGED <<tabs, gone, unrepaired>>
    PROVE  RegistryInv'
<1> DEFINE k == Len(clients) + 1
           h == [id |-> regCalls[c].id, page |-> regCalls[c].page, cdp |-> k]
<1>1. RegistryShape /\ IdsInv /\ HeldInv /\ ClosedInv
    BY DEF RegistryInv
<1>2. /\ DOMAIN registry = 1 .. Len(registry) /\ Len(registry) \in Nat
      /\ DOMAIN clients = 1 .. Len(clients) /\ Len(clients) \in Nat
      /\ \A i \in DOMAIN registry : registry[i] \in PageHandle
    BY <1>1, EntryTypes
<1>3. Held(regCalls[c]) /\ regCalls \in [RegCalls -> RegCall]
    BY <1>1 DEF HeldInv, RegistryShape
<1>4. regCalls[c].page \in Tabs /\ h \in PageHandle
    BY <1>2, <1>3 DEF Held, PageHandle, RegCall
<1>5. /\ regCalls' \in [RegCalls -> RegCall]
      /\ regCalls'[c].op = Null /\ regCalls'[c].pc = "idle" /\ regCalls'[c].id = 0
      /\ regCalls'[c].cdp = 0
      /\ \A d \in RegCalls : d # c => regCalls'[d] = regCalls[d]
    BY <1>3, EndCallFacts
<1>6. [page |-> regCalls[c].page, state |-> "active"] \in CdpClient
    BY <1>4 DEF CdpClient
<1>7. /\ clients' \in Seq(CdpClient) /\ Len(clients') = k /\ clients'[k].state = "active"
      /\ \A j \in DOMAIN clients : clients'[j] = clients[j]
    BY <1>1, <1>6 DEF RegistryShape
<1>8. registry' = [i \in DOMAIN registry |->
                      IF registry[i].id = regCalls[c].id THEN h ELSE registry[i]]
    BY DEF ReplacePage
<1>9. /\ DOMAIN registry' = DOMAIN registry
      /\ \A i \in DOMAIN registry :
            \/ registry[i].id = regCalls[c].id /\ registry'[i] = h
            \/ registry[i].id # regCalls[c].id /\ registry'[i] = registry[i]
    BY <1>8
<1>10. registry' \in Seq(PageHandle)
    <2>1. registry' \in [1 .. Len(registry) -> PageHandle]
        BY <1>2, <1>4, <1>8
    <2> QED
        BY <1>2, <2>1
<1>11. RegistryShape'
    BY <1>1, <1>5, <1>7, <1>10 DEF RegistryShape
<1>12. IdsInv'
    <2>1. \A id \in gone' : id \in Nat /\ id <= Len(clients')
        BY <1>1, <1>2, <1>7 DEF IdsInv
    <2>2. \A i \in DOMAIN registry' :
              /\ registry'[i].id \in 1 .. Len(clients') /\ registry'[i].id \notin gone'
              /\ registry'[i].cdp \in 1 .. Len(clients')
        BY <1>1, <1>2, <1>7, <1>9 DEF IdsInv
    <2>3. \A i, j \in DOMAIN registry' :
              registry'[i].id = registry'[j].id \/ registry'[i].cdp = registry'[j].cdp => i = j
        BY <1>1, <1>2, <1>9 DEF IdsInv
    <2> QED
        BY <2>1, <2>2, <2>3 DEF IdsInv
<1>13. HeldInv'
    <2>1. Held(regCalls[c])'
        BY <1>5 DEF Held, Null
    <2>2. ASSUME NEW d \in RegCalls, d # c
          PROVE  Held(regCalls[d])'
        <3>1. Held(regCalls[d]) /\ regCalls'[d] = regCalls[d]
            BY <1>1, <1>5, <2>2 DEF HeldInv
        <3>2. \A n \in 1 .. Len(clients) : n \in 1 .. Len(clients') /\ n # k
            BY <1>2, <1>7
        <3>3. \A i \in DOMAIN registry : registry[i].id = regCalls[c].id =>
                                            registry[i].page = regCalls[c].page
            BY <1>3 DEF Held
        <3> QED
            BY <1>9, <3>1, <3>2, <3>3 DEF Held
    <2> QED
        BY <2>1, <2>2 DEF HeldInv
<1>14. ClosedInv'
    <2> SUFFICES ASSUME NEW i \in DOMAIN registry,
                        clients'[registry'[i].cdp].state = "closed",
                        tabs[registry'[i].page] # "closed",
                        registry'[i].cdp \notin unrepaired
                 PROVE  \E d \in RegCalls : AtWork(regCalls'[d], registry'[i].cdp)
        BY <1>9 DEF ClosedInv
    <2>1. registry'[i] = registry[i] /\ registry[i].id # regCalls[c].id
        BY <1>7, <1>9
    <2>2. clients[registry[i].cdp].state = "closed"
        BY <1>1, <1>2, <1>7, <2>1 DEF IdsInv
    <2>3. PICK d \in RegCalls : AtWork(regCalls[d], registry[i].cdp)
        BY <1>1, <2>1, <2>2 DEF ClosedInv
    <2>4. d # c
        BY <1>3, <2>1, <2>3 DEF AtWork, Held
    <2> QED
        BY <1>5, <2>1, <2>3, <2>4
<1> QED
    BY <1>11, <1>12, <1>13, <1>14 DEF RegistryInv

(* RemovePage leaves the other entries, each once, and not the one it is   *)
(* asked to remove.                                                        *)
LEMMA RemoveFacts ==
    ASSUME RegistryInv, NEW id \in Nat, RemovePage(id)
    PROVE  /\ registry' \in Seq(PageHandle)
           /\ \E from \in [DOMAIN registry' -> DOMAIN registry] :
                 /\ \A i \in DOMAIN registry' : /\ registry'[i] = registry[from[i]]
                                                /\ registry[from[i]].id # id
                 /\ \A i, j \in DOMAIN registry' : from[i] = from[j] => i = j
<1>1. RegistryShape /\ IdsInv
    BY DEF RegistryInv
<1>2. /\ DOMAIN registry = 1 .. Len(registry) /\ Len(registry) \in Nat
      /\ \A i \in DOMAIN registry : registry[i] \in PageHandle
      /\ registry \in Seq(PageHandle)
    BY <1>1, EntryTypes DEF RegistryShape
<1>3. CASE id \in PageIds
    <2> DEFINE x == IndexOf(id)
               from == [i \in 1 .. Len(registry) - 1 |-> IF i < x THEN i ELSE i + 1]
    <2>1. \E i \in DOMAIN registry : registry[i].id = id
        BY <1>3 DEF PageIds, Handles, ToSet
    <2>2. x \in DOMAIN registry /\ registry[x].id = id
        BY <2>1 DEF IndexOf
    <2>3. x \in 1 .. Len(registry)
        BY <1>2, <2>2
    <2>4. registry' = SubSeq(registry, 1, x - 1) \o SubSeq(registry, x + 1, Len(registry))
        BY <1>3 DEF RemovePage, RemoveAt
    <2> HIDE DEF x
    <2> DEFINE left == SubSeq(registry, 1, x - 1)
               right == SubSeq(registry, x + 1, Len(registry))
    <2>5. /\ left \in Seq(PageHandle) /\ Len(left) = x - 1
          /\ \A i \in 1 .. x - 1 : left[i] = registry[i]
        <3>1. \A i \in 1 .. x - 1 : registry[i] \in PageHandle
            BY <1>2, <2>3
        <3>2. 1 \in Int /\ x - 1 \in Int
            BY <1>2, <2>3
        <3> QED
            BY <2>3, <3>1, <3>2, SubSeqProperties
    <2>6. /\ right \in Seq(PageHandle) /\ Len(right) = Len(registry) - x
          /\ \A i \in 1 .. Len(registry) - x : right[i] = registry[x + i]
        <3>1. \A i \in x + 1 .. Len(registry) : registry[i] \in PageHandle
            BY <1>2, <2>3
        <3>2. x + 1 \in Int /\ Len(registry) \in Int /\ x \in Int
            BY <1>2, <2>3
        <3>3. /\ right \in Seq(PageHandle)
              /\ Len(right) = IF x + 1 <= Len(registry) THEN Len(registry) - (x + 1) + 1 ELSE 0
              /\ \A i \in 1 .. Len(registry) - (x + 1) + 1 : right[i] = registry[x + 1 + i - 1]
            BY <3>1, <3>2, SubSeqProperties
        <3>4. Len(registry) - (x + 1) + 1 = Len(registry) - x
            BY <3>2
        <3>5. x <= Len(registry)
            BY <1>2, <2>3
        <3>6. Len(right) = Len(registry) - x
            <4>1. CASE x + 1 <= Len(registry)
                BY <3>3, <3>4, <4>1
            <4>2. CASE ~(x + 1 <= Len(registry))
                <5>1. Len(right) = 0
                    BY <3>3, <4>2
                <5> QED
                    BY <3>2, <3>5, <4>2, <5>1
            <4> QED
                BY <4>1, <4>2
        <3>7. \A i \in 1 .. Len(registry) - x : right[i] = registry[x + i]
            <4> SUFFICES ASSUME NEW i \in 1 .. Len(registry) - x
                         PROVE  right[i] = registry[x + i]
                OBVIOUS
            <4>1. i \in 1 .. Len(registry) - (x + 1) + 1 /\ x + 1 + i - 1 = x + i
                BY <3>2
            <4>2. right[i] = registry[x + 1 + i - 1]
                BY <3>3, <4>1
            <4> QED
                BY <4>1, <4>2
        <3> QED
            BY <3>3, <3>6, <3>7
    <2> HIDE DEF left, right
    <2>7. /\ registry' \in Seq(PageHandle) /\ Len(registry') = Len(registry) - 1
          /\ \A i \in 1 .. Len(registry) - 1 :
                registry'[i] = IF i <= x - 1 THEN left[i] ELSE right[i - (x - 1)]
        <3>1. registry' = left \o right
            BY <2>4 DEF left, right
        <3>2. Len(left) + Len(right) = Len(registry) - 1
            BY <1>2, <2>3, <2>5, <2>6
        <3> QED
            BY <2>5, <2>6, <3>1, <3>2, ConcatProperties
    <2>8. /\ DOMAIN registry' = 1 .. Len(registry) - 1
          /\ from \in [DOMAIN registry' -> DOMAIN registry]
        <3>1. DOMAIN registry' = 1 .. Len(registry) - 1
            BY <2>7
        <3> QED
            BY <1>2, <2>3, <3>1
    <2>9. ASSUME NEW i \in DOMAIN registry'
          PROVE  registry'[i] = registry[from[i]] /\ from[i] # x
        <3>1. i \in 1 .. Len(registry) - 1
            BY <2>8
        <3>2. CASE i < x
            BY <1>2, <2>3, <2>5, <2>7, <3>1, <3>2
        <3>3. CASE ~(i < x)
            <4>1. registry'[i] = right[i - (x - 1)] /\ i - (x - 1) \in 1 .. Len(registry) - x
                BY <1>2, <2>3, <2>7, <3>1, <3>3
            <4>2. registry'[i] = registry[x + (i - (x - 1))]
                BY <2>6, <4>1
            <4>3. from[i] = i + 1 /\ x + (i - (x - 1)) = i + 1 /\ i + 1 # x
                BY <1>2, <2>3, <3>1, <3>3
            <4> QED
                BY <4>2, <4>3
        <3> QED
            BY <3>2, <3>3
    <2>10. \A i, j \in DOMAIN registry' : from[i] = from[j] => i = j
        BY <1>2, <2>3, <2>8
    <2>11. \A i \in DOMAIN registry' : registry[from[i]].id # id
        BY <1>1, <2>2, <2>8, <2>9 DEF IdsInv
    <2> HIDE DEF from
    <2> QED
        BY <2>7, <2>8, <2>9, <2>10, <2>11
<1>4. CASE id \notin PageIds
    <2> DEFINE from == [i \in DOMAIN registry |-> i]
    <2>1. registry' = registry /\ \A i \in DOMAIN registry : registry[i].id # id
        BY <1>4 DEF RemovePage, PageIds, Handles, ToSet
    <2>2. from \in [DOMAIN registry' -> DOMAIN registry]
        BY <2>1
    <2>3. /\ \A i \in DOMAIN registry' : /\ registry'[i] = registry[from[i]]
                                         /\ registry[from[i]].id # id
          /\ \A i, j \in DOMAIN registry' : from[i] = from[j] => i = j
        BY <2>1
    <2> HIDE DEF from
    <2> QED
        BY <1>2, <2>1, <2>2, <2>3
<1> QED
    BY <1>3, <1>4

(* A page that was closed leaves the registry, with its id.                *)
LEMMA PageClosedInv ==
    ASSUME RegistryInv, NEW c \in RegCalls, PageClosed(c)
    PROVE  RegistryInv'
<1> DEFINE id == regCalls[c].id
<1>1. RegistryShape /\ IdsInv /\ HeldInv /\ ClosedInv
    BY DEF RegistryInv
<1>2. /\ DOMAIN registry = 1 .. Len(registry) /\ Len(registry) \in Nat
      /\ DOMAIN clients = 1 .. Len(clients) /\ Len(clients) \in Nat
      /\ \A i \in DOMAIN registry : registry[i] \in PageHandle
    BY <1>1, EntryTypes
<1>3. /\ regCalls[c].pc = "closing" /\ EndCall(c) /\ RemovePage(id)
      /\ tabs' = tabs \/ tabs' = [tabs EXCEPT ![regCalls[c].page] = "closed"]
      /\ gone' = gone \cup {id} /\ clients' = clients /\ unrepaired' = unrepaired
    BY DEF PageClosed
<1>4. Held(regCalls[c]) /\ regCalls \in [RegCalls -> RegCall]
    BY <1>1 DEF HeldInv, RegistryShape
<1>5. /\ regCalls' \in [RegCalls -> RegCall]
      /\ regCalls'[c].op = Null /\ regCalls'[c].pc = "idle" /\ regCalls'[c].id = 0
      /\ regCalls'[c].cdp = 0
      /\ \A d \in RegCalls : d # c => regCalls'[d] = regCalls[d]
    BY <1>3, <1>4, EndCallFacts
<1>6. id \in 1 .. Len(clients) /\ regCalls[c].page \in Tabs
    BY <1>3, <1>4 DEF Held, RegCall
<1>7. /\ tabs' \in [Tabs -> {"none", "open", "closed"}]
      /\ \A t \in Tabs : tabs[t] = "closed" => tabs'[t] = "closed"
    BY <1>1, <1>3, <1>6 DEF RegistryShape
<1>8. id \in Nat
    BY <1>2, <1>6
<1>9. PICK from \in [DOMAIN registry' -> DOMAIN registry] :
          /\ \A i \in DOMAIN registry' :
                 registry'[i] = registry[from[i]] /\ registry[from[i]].id # id
          /\ \A i, j \in DOMAIN registry' : from[i] = from[j] => i = j
    BY <1>3, <1>8, RemoveFacts
<1>10. \A i \in DOMAIN registry' : from[i] \in DOMAIN registry
    BY <1>9
<1>11. RegistryShape'
    BY <1>1, <1>3, <1>5, <1>7, <1>8, RemoveFacts DEF RegistryShape
<1>12. IdsInv'
    <2>1. \A n \in gone' : n \in Nat /\ n <= Len(clients')
        BY <1>1, <1>2, <1>3, <1>6 DEF IdsInv
    <2>2. \A i \in DOMAIN registry' :
              /\ registry'[i].id \in 1 .. Len(clients') /\ registry'[i].id \notin gone'
              /\ registry'[i].cdp \in 1 .. Len(clients')
        BY <1>1, <1>3, <1>9, <1>10 DEF IdsInv
    <2>3. \A i, j \in DOMAIN registry' :
              registry'[i].id = registry'[j].id \/ registry'[i].cdp = registry'[j].cdp => i = j
        BY <1>1, <1>9, <1>10 DEF IdsInv
    <2> QED
        BY <2>1, <2>2, <2>3 DEF IdsInv
<1>13. HeldInv'
    <2>1. Held(regCalls[c])'
        BY <1>5 DEF Held, Null
    <2>2. ASSUME NEW d \in RegCalls, d # c
          PROVE  Held(regCalls[d])'
        <3>1. Held(regCalls[d]) /\ regCalls'[d] = regCalls[d]
            BY <1>1, <1>5, <2>2 DEF HeldInv
        <3> QED
            BY <1>3, <1>9, <1>10, <3>1 DEF Held
    <2> QED
        BY <2>1, <2>2 DEF HeldInv
<1>14. ClosedInv'
    <2> SUFFICES ASSUME NEW i \in DOMAIN registry',
                        clients[registry'[i].cdp].state = "closed",
                        tabs'[registry'[i].page] # "closed",
                        registry'[i].cdp \notin unrepaired
                 PROVE  \E d \in RegCalls : AtWork(regCalls'[d], registry'[i].cdp)
        BY <1>3 DEF ClosedInv
    <2>1. /\ from[i] \in DOMAIN registry /\ registry'[i] = registry[from[i]]
          /\ registry[from[i]].id # id /\ registry[from[i]].page \in Tabs
        BY <1>2, <1>9, <1>10 DEF PageHandle
    <2>2. PICK d \in RegCalls : AtWork(regCalls[d], registry[from[i]].cdp)
        BY <1>1, <1>7, <2>1 DEF ClosedInv
    <2>3. d # c
        <3>1. ASSUME regCalls[c].cdp = registry[from[i]].cdp
              PROVE  FALSE
            <4>1. regCalls[c].op \in {"close", "rebind"}
                BY <1>3, <1>4 DEF Held, RegCall
            <4> QED
                BY <1>4, <2>1, <3>1, <4>1 DEF Held
        <3> QED
            BY <2>2, <3>1 DEF AtWork
    <2> QED
        BY <1>5, <2>1, <2>2, <2>3
<1> QED
    BY <1>11, <1>12, <1>13, <1>14 DEF RegistryInv

(* A client that dies by itself is not closed.                             *)
LEMMA ClientDiesInv ==
    ASSUME RegistryInv, ClientDies
    PROVE  RegistryInv'
<1>1. RegistryShape /\ IdsInv /\ HeldInv /\ ClosedInv
    BY DEF RegistryInv
<1>2. PICK k \in DOMAIN clients : clients' = [clients EXCEPT ![k].state = "dead"]
    BY DEF ClientDies
<1>3. UNCHANGED <<tabs, registry, gone, unrepaired, regCalls>>
    BY DEF ClientDies
<1>4. clients' = [clients EXCEPT ![k] = [clients[k] EXCEPT !.state = "dead"]]
    BY <1>2
<1>5. [clients[k] EXCEPT !.state = "dead"] \in CdpClient
    BY <1>1, EntryTypes DEF CdpClient
<1>6. /\ clients' \in Seq(CdpClient) /\ Len(clients') = Len(clients)
      /\ \A n \in DOMAIN clients : clients'[n].state = "closed" => clients[n].state = "closed"
    <2>1. clients[k] \in CdpClient
        BY <1>1, EntryTypes
    <2> QED
        BY <1>1, <1>4, <1>5, <2>1 DEF RegistryShape, CdpClient
<1>7. RegistryShape' /\ IdsInv'
    BY <1>1, <1>3, <1>6 DEF RegistryShape, IdsInv
<1>8. HeldInv'
    BY <1>1, <1>3, <1>6 DEF HeldInv, Held
<1>9. ClosedInv'
    <2>1. \A i \in DOMAIN registry : registry[i].cdp \in DOMAIN clients
        BY <1>1, EntryTypes DEF IdsInv
    <2> QED
        BY <1>1, <1>3, <1>6, <2>1 DEF ClosedInv
<1> QED
    BY <1>7, <1>8, <1>9 DEF RegistryInv

(* The registry of a browser that is lost is emptied, its ids are gone.    *)
LEMMA LostInv ==
    ASSUME RegistryInv, ConnectionLost
    PROVE  RegistryInv'
<1>1. RegistryShape /\ IdsInv /\ HeldInv /\ ClosedInv
    BY DEF RegistryInv
<1>2. /\ registry' = <<>> /\ gone' = gone \cup PageIds
      /\ UNCHANGED <<clients, regCalls>>
    BY DEF ConnectionLost, ClearRegistry
<1>3. tabs' \in [Tabs -> {"none", "open", "closed"}]
    <2>1. [t \in Tabs |-> IF tabs[t] = "open" THEN "closed" ELSE tabs[t]]
             \in [Tabs -> {"none", "open", "closed"}]
        BY <1>1 DEF RegistryShape
    <2> QED
        BY <1>1, <2>1 DEF ConnectionLost, RegistryShape
<1>4. DOMAIN registry' = {}
    BY <1>2
<1>5. RegistryShape'
    BY <1>1, <1>2, <1>3 DEF RegistryShape
<1>6. \A id \in PageIds : id \in Nat /\ id <= Len(clients)
    BY <1>1, EntryTypes DEF PageIds, Handles, ToSet, IdsInv
<1>7. IdsInv'
    BY <1>1, <1>2, <1>4, <1>6 DEF IdsInv
<1>8. HeldInv' /\ ClosedInv'
    BY <1>1, <1>2, <1>4 DEF HeldInv, Held, ClosedInv
<1> QED
    BY <1>5, <1>7, <1>8 DEF RegistryInv

(* Every step of the registry keeps the invariant.                         *)
LEMMA RegistryStepInv == RegistryInv /\ [RegistryNext]_registryVars => RegistryInv'
<1> SUFFICES ASSUME RegistryInv, [RegistryNext]_registryVars
             PROVE  RegistryInv'
    OBVIOUS
<1>0. /\ RegistryShape /\ IdsInv /\ HeldInv /\ ClosedInv
      /\ regCalls \in [RegCalls -> RegCall] /\ tabs \in [Tabs -> {"none", "open", "closed"}]
    BY DEF RegistryInv, RegistryShape
<1>1. CASE UNCHANGED registryVars
    BY <1>0, <1>1 DEF registryVars, RegistryInv, RegistryShape, IdsInv, HeldInv, Held, ClosedInv
<1>2. ASSUME TabOpens \/ TabCloses \/ ResolvePage
      PROVE  RegistryInv'
    <2>1. UNCHANGED <<registry, clients, gone, unrepaired, regCalls>>
        BY <1>2 DEF TabOpens, TabCloses, ResolvePage
    <2>2. /\ tabs' \in [Tabs -> {"none", "open", "closed"}]
          /\ \A t \in Tabs : tabs[t] = "closed" => tabs'[t] = "closed"
        BY <1>0, <1>2 DEF TabOpens, TabCloses, ResolvePage
    <2>3. RegistryShape' /\ IdsInv' /\ HeldInv'
        BY <1>0, <2>1, <2>2 DEF RegistryShape, IdsInv, HeldInv, Held
    <2>4. \A i \in DOMAIN registry : registry[i].page \in Tabs
        BY <1>0, EntryTypes DEF PageHandle
    <2>5. ClosedInv'
        BY <1>0, <2>1, <2>2, <2>4 DEF ClosedInv
    <2> QED
        BY <2>3, <2>5 DEF RegistryInv
<1>3. ASSUME NEW c \in RegCalls, SyncPages(c)
      PROVE  RegistryInv'
    <2> DEFINE r == [NoRegCall EXCEPT !.op = "sync", !.pc = "listing"]
    <2>1. r \in RegCall /\ Held(r)
        BY DEF NoRegCall, RegCall, Held, Null
    <2>2. regCalls' = [regCalls EXCEPT ![c] = r] /\ regCalls[c].pc = "idle"
        BY <1>3 DEF SyncPages, Starts, NoRegCall
    <2>3. UNCHANGED <<tabs, registry, clients, gone, unrepaired>>
        BY <1>3 DEF SyncPages
    <2>4. Held(regCalls'[c])
        BY <1>0, <2>1, <2>2
    <2> HIDE DEF r
    <2> QED
        BY <1>0, <2>1, <2>2, <2>3, <2>4, CallInv DEF AtWork
<1>4. ASSUME NEW c \in RegCalls, SyncLists(c)
      PROVE  RegistryInv'
    <2> DEFINE r == [regCalls[c] EXCEPT !.pc = "looking",
                                        !.todo = {t \in Tabs : tabs[t] = "open"}]
    <2>1. regCalls[c].pc = "listing" /\ regCalls[c].op \notin {"close", "rebind"}
        BY <1>0, <1>4 DEF SyncLists, HeldInv, Held
    <2>2. /\ r \in RegCall /\ r.pc = "looking" /\ r.op = regCalls[c].op
          /\ r.id = regCalls[c].id /\ r.cdp = regCalls[c].cdp
        BY <1>0 DEF RegCall
    <2>3. regCalls' = [regCalls EXCEPT ![c] = r]
        BY <1>4 DEF SyncLists
    <2>4. UNCHANGED <<tabs, registry, clients, gone, unrepaired>>
        BY <1>4 DEF SyncLists
    <2> HIDE DEF r
    <2>5. Held(regCalls'[c])
        BY <1>0, <2>1, <2>2, <2>3 DEF HeldInv, Held
    <2> QED
        BY <1>0, <2>1, <2>2, <2>3, <2>4, <2>5, CallInv DEF AtWork
<1>5. ASSUME NEW c \in RegCalls, SyncLooksUp(c)
      PROVE  RegistryInv'
    <2>1. regCalls[c].pc = "looking" /\ regCalls[c].op \notin {"close", "rebind"}
        BY <1>0, <1>5 DEF SyncLooksUp, HeldInv, Held
    <2>2. UNCHANGED <<tabs, registry, clients, gone, unrepaired>>
        BY <1>5 DEF SyncLooksUp
    <2>3. /\ regCalls' \in [RegCalls -> RegCall]
          /\ \A d \in RegCalls : d # c => regCalls'[d] = regCalls[d]
          /\ Held(regCalls'[c])
        <3>1. CASE regCalls[c].todo = {}
            <4>1. EndCall(c)
                BY <1>5, <3>1 DEF SyncLooksUp
            <4> QED
                BY <1>0, <4>1, EndCallFacts DEF Held, Null
        <3>2. CASE regCalls[c].todo # {}
            <4>1. PICK t \in regCalls[c].todo :
                      \/ regCalls' = [regCalls EXCEPT ![c].todo = @ \ {t}]
                      \/ regCalls' = [regCalls EXCEPT ![c].todo = @ \ {t}, ![c].page = t,
                                                      ![c].pc = "creating"]
                BY <1>5, <3>2 DEF SyncLooksUp
            <4> DEFINE r1 == [regCalls[c] EXCEPT !.todo = @ \ {t}]
                       r2 == [regCalls[c] EXCEPT !.todo = @ \ {t}, !.page = t, !.pc = "creating"]
            <4>2. /\ r1 \in RegCall /\ r1.pc = "looking" /\ r1.op = regCalls[c].op
                  /\ r1.id = regCalls[c].id /\ r1.cdp = regCalls[c].cdp
                BY <1>0, <2>1 DEF RegCall
            <4>3. /\ r2 \in RegCall /\ r2.pc = "creating" /\ r2.op = regCalls[c].op
                  /\ r2.id = regCalls[c].id /\ r2.cdp = regCalls[c].cdp /\ r2.page \in Tabs
                BY <1>0 DEF RegCall
            <4>4. \/ regCalls' = [regCalls EXCEPT ![c] = r1]
                  \/ regCalls' = [regCalls EXCEPT ![c] = r2]
                BY <4>1
            <4> HIDE DEF r1, r2
            <4>5. Held(regCalls[c])
                BY <1>0 DEF HeldInv
            <4>6. Held(r1) /\ Held(r2)
                BY <2>1, <4>2, <4>3, <4>5 DEF Held
            <4> QED
                BY <1>0, <4>2, <4>3, <4>4, <4>6
        <3> QED
            BY <3>1, <3>2
    <2> QED
        BY <1>0, <2>1, <2>2, <2>3, CallInv DEF AtWork
<1>6. ASSUME NEW c \in RegCalls, CreatePage(c)
      PROVE  RegistryInv'
    <2>1. PICK t \in Tabs :
              /\ tabs[t] = "none" /\ tabs' = [tabs EXCEPT ![t] = "open"]
              /\ Starts(c, [NoRegCall EXCEPT !.op = "create", !.pc = "creating", !.page = t])
        BY <1>6 DEF CreatePage
    <2> DEFINE r == [NoRegCall EXCEPT !.op = "create", !.pc = "creating", !.page = t]
    <2>2. r \in RegCall /\ Held(r)
        BY DEF NoRegCall, RegCall, Held, Null
    <2>3. regCalls' = [regCalls EXCEPT ![c] = r] /\ regCalls[c].pc = "idle"
        BY <2>1 DEF Starts, NoRegCall
    <2>4. UNCHANGED <<registry, clients, gone, unrepaired>>
        BY <1>6 DEF CreatePage
    <2>5. Held(regCalls'[c])
        BY <1>0, <2>2, <2>3
    <2>6. /\ tabs' \in [Tabs -> {"none", "open", "closed"}]
          /\ \A u \in Tabs : tabs[u] = "closed" => tabs'[u] = "closed"
        BY <1>0, <2>1
    <2> HIDE DEF r
    <2> QED
        BY <1>0, <2>2, <2>3, <2>4, <2>5, <2>6, CallInv DEF AtWork
<1>7. ASSUME NEW c \in RegCalls, SessionCreated(c)
      PROVE  RegistryInv'
    <2> DEFINE pc == IF regCalls[c].op = "sync" THEN "looking" ELSE "tracking"
    <2>1. /\ regCalls[c].pc = "creating" /\ regCalls[c].op \in {"sync", "create"}
          /\ regCalls[c].page \in Tabs /\ regCalls[c].id = 0 /\ regCalls[c].cdp = 0
          /\ UNCHANGED <<tabs, gone, unrepaired>>
        BY <1>0, <1>7 DEF SessionCreated, HeldInv, Held
    <2>2. pc \in {"looking", "tracking"} /\ pc \in {"looking", "tracking", "closing", "creating"}
        OBVIOUS
    <2>3. ASSUME NEW q \in {"looking", "tracking"}, StepCall(c, q)
          PROVE  /\ regCalls' \in [RegCalls -> RegCall]
                 /\ regCalls'[c].pc \in {"looking", "tracking"}
                 /\ regCalls'[c].op = regCalls[c].op /\ regCalls'[c].id = regCalls[c].id
                 /\ regCalls'[c].cdp = regCalls[c].cdp
                 /\ \A d \in RegCalls : d # c => regCalls'[d] = regCalls[d]
                 /\ Held(regCalls'[c])
        <3>1. q \in {"looking", "tracking", "closing", "creating"}
            OBVIOUS
        <3>2. /\ regCalls' \in [RegCalls -> RegCall]
              /\ regCalls'[c].pc = q
              /\ regCalls'[c].op = regCalls[c].op /\ regCalls'[c].id = regCalls[c].id
              /\ regCalls'[c].cdp = regCalls[c].cdp
              /\ \A d \in RegCalls : d # c => regCalls'[d] = regCalls[d]
            BY <1>0, <2>3, <3>1, StepCallFacts
        <3> QED
            BY <2>1, <3>2 DEF Held
    <2>4. CASE UNCHANGED <<registry, clients>> /\ (StepCall(c, "looking") \/ EndCall(c))
        <3>2. /\ regCalls' \in [RegCalls -> RegCall]
              /\ \A d \in RegCalls : d # c => regCalls'[d] = regCalls[d]
              /\ Held(regCalls'[c])
            <4>1. CASE StepCall(c, "looking")
                BY <2>3, <4>1
            <4>2. CASE EndCall(c)
                BY <1>0, <4>2, EndCallFacts DEF Held, Null
            <4> QED
                BY <2>4, <4>1, <4>2
        <3>3. \A i \in DOMAIN registry : registry[i].cdp # 0
            BY <1>0, EntryTypes DEF IdsInv
        <3> QED
            BY <1>0, <2>1, <2>4, <3>2, <3>3, CallInv DEF AtWork
    <2>5. CASE RegisterPage(regCalls[c].page) /\ StepCall(c, pc)
        <3> HIDE DEF pc
        <3> QED
            BY <2>1, <2>2, <2>3, <2>5, RegisterInv
    <2> QED
        BY <1>7, <2>4, <2>5 DEF SessionCreated
<1>8. ASSUME NEW c \in RegCalls, PageTracked(c)
      PROVE  RegistryInv'
    <2>1. /\ regCalls[c].pc = "tracking" /\ EndCall(c)
          /\ UNCHANGED <<tabs, registry, clients, gone, unrepaired>>
        BY <1>8 DEF PageTracked
    <2>2. /\ regCalls' \in [RegCalls -> RegCall]
          /\ \A d \in RegCalls : d # c => regCalls'[d] = regCalls[d]
          /\ Held(regCalls'[c])
        BY <1>0, <2>1, EndCallFacts DEF Held, Null
    <2> QED
        BY <1>0, <2>1, <2>2, CallInv DEF AtWork
<1>9. ASSUME NEW c \in RegCalls, NEW op \in {"close", "rebind"}, HoldsHandle(c, op)
      PROVE  RegistryInv'
    <2>1. PICK h \in Handles :
              Starts(c, [NoRegCall EXCEPT !.op = op, !.pc = "detaching", !.page = h.page,
                                          !.id = h.id, !.cdp = h.cdp])
        BY <1>9 DEF HoldsHandle
    <2>2. PICK j \in DOMAIN registry : h = registry[j]
        BY DEF Handles, ToSet
    <2> DEFINE r == [NoRegCall EXCEPT !.op = op, !.pc = "detaching", !.page = h.page,
                                      !.id = h.id, !.cdp = h.cdp]
    <2>3. h \in PageHandle
        BY <1>0, <2>2, EntryTypes
    <2>4. /\ r \in RegCall /\ r.op = op /\ r.pc = "detaching" /\ r.page = h.page
          /\ r.id = h.id /\ r.cdp = h.cdp
        BY <2>3 DEF NoRegCall, RegCall, PageHandle, Null
    <2>5. regCalls' = [regCalls EXCEPT ![c] = r] /\ regCalls[c].pc = "idle"
        BY <2>1 DEF Starts, NoRegCall
    <2>6. UNCHANGED <<tabs, registry, clients, gone, unrepaired>>
        BY <1>9 DEF HoldsHandle
    <2> HIDE DEF r
    <2>7. Held(regCalls'[c])
        <3>1. regCalls'[c] = r
            BY <1>0, <2>5
        <3> QED
            BY <1>0, <2>2, <2>3, <2>4, <2>6, <3>1 DEF Held, IdsInv, PageHandle, Null
    <2> QED
        BY <1>0, <2>4, <2>5, <2>6, <2>7, CallInv DEF AtWork
<1>10. ASSUME NEW c \in RegCalls, Rebound(c)
       PROVE  RegistryInv'
    <2>1. /\ regCalls[c].pc = "creating" /\ regCalls[c].op = "rebind" /\ EndCall(c)
          /\ UNCHANGED <<tabs, gone>>
        BY <1>10 DEF Rebound
    <2>2. CASE /\ unrepaired' = unrepaired \cup {regCalls[c].cdp}
               /\ UNCHANGED <<registry, clients>>
        <3>1. /\ regCalls' \in [RegCalls -> RegCall]
              /\ \A d \in RegCalls : d # c => regCalls'[d] = regCalls[d]
              /\ Held(regCalls'[c])
            BY <1>0, <2>1, EndCallFacts DEF Held, Null
        <3>2. \A k : AtWork(regCalls[c], k) => k \in unrepaired'
            BY <2>2 DEF AtWork
        <3> QED
            BY <1>0, <2>1, <2>2, <3>1, <3>2, CallInv
    <2>3. CASE /\ clients' = Append(clients, [page |-> regCalls[c].page, state |-> "active"])
               /\ ReplacePage(regCalls[c].id, [id |-> regCalls[c].id, page |-> regCalls[c].page,
                                               cdp |-> Len(clients) + 1])
               /\ UNCHANGED unrepaired
        BY <1>10, <2>1, <2>3, ReplaceInv
    <2> QED
        BY <1>10, <2>2, <2>3 DEF Rebound
<1> QED
    BY <1>1, <1>2, <1>3, <1>4, <1>5, <1>6, <1>7, <1>8, <1>9, <1>10,
       ClientDiesInv, LostInv, DetachedInv, PageClosedInv DEF RegistryNext

(* The invariant holds when the session is connected: nothing is there.    *)
LEMMA RegistryInitInv == RegistryInit => RegistryInv
<1> SUFFICES ASSUME RegistryInit
             PROVE  RegistryInv
    OBVIOUS
<1>1. NoRegCall \in RegCall /\ Held(NoRegCall)
    BY DEF NoRegCall, RegCall, Held, Null
<1>2. /\ tabs = [t \in Tabs |-> "none"] /\ registry = <<>> /\ clients = <<>> /\ gone = {}
      /\ regCalls = [c \in RegCalls |-> NoRegCall]
    BY DEF RegistryInit
<1>3. registry \in Seq(PageHandle) /\ clients \in Seq(CdpClient) /\ DOMAIN registry = {}
    BY <1>2
<1>4. RegistryShape
    BY <1>1, <1>2, <1>3 DEF RegistryShape
<1>5. IdsInv
    BY <1>2, <1>3 DEF IdsInv
<1>6. HeldInv
    BY <1>1, <1>2 DEF HeldInv
<1>7. ClosedInv
    BY <1>3 DEF ClosedInv
<1> QED
    BY <1>4, <1>5, <1>6, <1>7 DEF RegistryInv

(* The invariant holds in every state.                                     *)
LEMMA RegistryAlways == Spec => []RegistryInv
<1>1. Init => RegistryInv
    BY RegistryInitInv DEF Init
<1>2. RegistryInv /\ [Next]_vars => RegistryInv'
    <2>1. [Next]_vars => [RegistryNext]_registryVars
        BY DEF Next, vars, SurfacesStep, RegistryStep, NetworkStep, ObservationsStep,
               InputsStep, HealthStep
    <2> QED
        BY <2>1, RegistryStepInv
<1> QED
    BY <1>1, <1>2, PTL DEF Spec

-----------------------------------------------------------------------------
(* A page that left the registry does not come back: a repair that was     *)
(* under way when the page was closed, or its browser lost, replaces an    *)
(* entry and never makes one.                                              *)
THEOREM GoneStaysGone == Spec => []ClosedStaysClosed
<1>1. RegistryInv => ClosedStaysClosed
    BY DEF RegistryInv, IdsInv, ClosedStaysClosed, PageIds, Handles, ToSet
<1> QED
    BY <1>1, RegistryAlways, PTL

(* However calls on one page overlap, its registered session was closed    *)
(* only by a call that goes on to close the page or to replace that very   *)
(* session, or has failed to.                                              *)
THEOREM RegisteredIsOpen == Spec => []RegisteredClientIsOpen
<1>1. RegistryInv => RegisteredClientIsOpen
    BY DEF RegistryInv, ClosedInv, AtWork, RegisteredClientIsOpen, Handles, ToSet
<1> QED
    BY <1>1, RegistryAlways, PTL

-----------------------------------------------------------------------------

(* Input to the page. What a call has sent is told by its place in the     *)
(* program of its operation, and the programs are looked at one by one: an *)
(* operation that begins again has sent nothing by then.                   *)

(* The commands of the input operations.                                   *)
Commands ==
    {"scroll", "box", "resolve", "ancestor", "detect", "overlay", "shot", "cleanup", "release",
     "moved", "pressed", "released", "moving", "wheel", "scrollBy", "keyDown", "keyUp",
     "selectDown", "selectUp", "deleteDown", "deleteUp", "insert", "choose"}

(* A concatenation, given element by element.                              *)
LEMMA Joined ==
    ASSUME NEW s \in Seq(Commands), NEW t \in Seq(Commands), NEW u \in Seq(Commands),
           Len(u) = Len(s) + Len(t),
           \A i \in 1 .. Len(u) : u[i] = IF i <= Len(s) THEN s[i] ELSE t[i - Len(s)]
    PROVE  s \o t = u
<1>1. s \o t \in Seq(Commands) /\ Len(s \o t) = Len(u)
    OBVIOUS
<1>2. ASSUME NEW i \in 1 .. Len(u)
      PROVE  (s \o t)[i] = u[i]
    OBVIOUS
<1> QED
    BY <1>1, <1>2, SeqEqual

(* What follows the look at the element.                                   *)
LEMMA AfterContentQuad ==
    ASSUME NEW x \in Commands, NEW y \in Commands, NEW z \in Commands
    PROVE  /\ ContentQuad \o <<x>> = <<"scroll", "box", x>>
           /\ ContentQuad \o <<x, y, z>> = <<"scroll", "box", x, y, z>>
<1> DEFINE s == <<"scroll", "box">>
           t1 == <<x>>
           t3 == <<x, y, z>>
           u1 == <<"scroll", "box", x>>
           u3 == <<"scroll", "box", x, y, z>>
<1>1. /\ s \in Seq(Commands)
      /\ t1 \in Seq(Commands) /\ t3 \in Seq(Commands)
      /\ u1 \in Seq(Commands) /\ u3 \in Seq(Commands)
    BY DEF Commands
<1>2. Len(u1) = Len(s) + Len(t1) /\ Len(u3) = Len(s) + Len(t3)
    OBVIOUS
<1>3. \A i \in 1 .. Len(u1) : u1[i] = IF i <= Len(s) THEN s[i] ELSE t1[i - Len(s)]
    OBVIOUS
<1>4. \A i \in 1 .. Len(u3) : u3[i] = IF i <= Len(s) THEN s[i] ELSE t3[i - Len(s)]
    OBVIOUS
<1>5. s \o t1 = u1 /\ s \o t3 = u3
    <2> HIDE DEF s, t1, t3, u1, u3
    <2> QED
        BY <1>1, <1>2, <1>3, <1>4, Joined
<1> QED
    BY <1>5 DEF ContentQuad

(* The programs of the operations, command by command.                     *)
LEMMA Programs ==
    /\ Program("click") = <<"scroll", "box", "moved", "pressed", "released">>
    /\ Program("clickSmall") = <<"scroll", "box", "ancestor",
                                 "scroll", "box", "moved", "pressed", "released">>
    /\ Program("clickAt") = <<"moved", "pressed", "released">>
    /\ Program("type") = <<"scroll", "box", "moved", "pressed", "released",
                           "selectDown", "selectUp", "deleteDown", "deleteUp", "insert">>
    /\ Program("press") = <<"keyDown", "keyUp">>
    /\ Program("hover") = <<"scroll", "box", "moved">>
    /\ Program("select") = <<"resolve", "choose">>
    /\ Program("scrollTo") = <<"scroll">>
    /\ Program("scrollPage") = <<"scrollBy">>
    /\ Program("dragElement") = <<"scroll", "box", "pressed", "moving", "released">>
    /\ Program("wheel") = <<"scroll", "box", "wheel">>
    /\ Program("inspect") = <<"scroll", "box", "resolve", "detect", "overlay", "shot",
                              "cleanup", "release">>
<1> DEFINE click == <<"scroll", "box", "moved", "pressed", "released">>
           find == <<"scroll", "box", "ancestor">>
           small == <<"scroll", "box", "ancestor",
                      "scroll", "box", "moved", "pressed", "released">>
           clear == <<"selectDown", "selectUp", "deleteDown", "deleteUp">>
           cleared == <<"scroll", "box", "moved", "pressed", "released",
                        "selectDown", "selectUp", "deleteDown", "deleteUp">>
           insert == <<"insert">>
           typed == <<"scroll", "box", "moved", "pressed", "released",
                      "selectDown", "selectUp", "deleteDown", "deleteUp", "insert">>
<1>1. /\ ClickByBackendNodeId = click
      /\ FindClickableAncestor = find
      /\ HoverByBackendNodeId = <<"scroll", "box", "moved">>
      /\ DragElement = <<"scroll", "box", "pressed", "moving", "released">>
      /\ WheelElement = <<"scroll", "box", "wheel">>
    <2>1. /\ Commands # {}
          /\ {"moved", "pressed", "released", "moving", "ancestor", "wheel"} \subseteq Commands
        BY DEF Commands
    <2> QED
        BY <2>1, AfterContentQuad DEF ClickByBackendNodeId, FindClickableAncestor,
           HoverByBackendNodeId, DragElement, WheelElement, ClickAtCoordinates
<1>2. find \o click = small
    <2>1. find \in Seq(Commands) /\ click \in Seq(Commands) /\ small \in Seq(Commands)
        BY DEF Commands
    <2>2. Len(small) = Len(find) + Len(click)
        OBVIOUS
    <2>3. \A i \in 1 .. Len(small) :
              small[i] = IF i <= Len(find) THEN find[i] ELSE click[i - Len(find)]
        OBVIOUS
    <2> HIDE DEF find, click, small
    <2> QED
        BY <2>1, <2>2, <2>3, Joined
<1>3. click \o clear = cleared
    <2>1. click \in Seq(Commands) /\ clear \in Seq(Commands) /\ cleared \in Seq(Commands)
        BY DEF Commands
    <2>2. Len(cleared) = Len(click) + Len(clear)
        OBVIOUS
    <2>3. \A i \in 1 .. Len(cleared) :
              cleared[i] = IF i <= Len(click) THEN click[i] ELSE clear[i - Len(click)]
        OBVIOUS
    <2> HIDE DEF click, clear, cleared
    <2> QED
        BY <2>1, <2>2, <2>3, Joined
<1>4. cleared \o insert = typed
    <2>1. cleared \in Seq(Commands) /\ insert \in Seq(Commands) /\ typed \in Seq(Commands)
        BY DEF Commands
    <2>2. Len(typed) = Len(cleared) + Len(insert)
        OBVIOUS
    <2>3. \A i \in 1 .. Len(typed) :
              typed[i] = IF i <= Len(cleared) THEN cleared[i] ELSE insert[i - Len(cleared)]
        OBVIOUS
    <2> HIDE DEF cleared, insert, typed
    <2> QED
        BY <2>1, <2>2, <2>3, Joined
<1>5. ClickAncestor = small /\ TypeByBackendNodeId = typed
    BY <1>1, <1>2, <1>3, <1>4, Zenon DEF ClickAncestor, TypeByBackendNodeId, ClearFocusedText
<1> QED
    BY <1>1, <1>5, Zenon
    DEF Program, ClickAtCoordinates, PressKey, SelectOption, ScrollIntoView, ScrollPage,
        InspectCanvas

(* What the steps rely on: nothing that changes the page comes before the  *)
(* last look at the element in an operation that is retried, nor between   *)
(* the look for an ancestor and the click; the screenshot is not the last. *)
Sound(op, q) ==
    LET effects == {p \in DOMAIN q : q[p] \notin Uncounted}
    IN  /\ Len(q) \in Nat \ {0}
        /\ DOMAIN q = 1 .. Len(q)
        /\ op \in WithRetry =>
              \A p \in DOMAIN q : q[p] \in OfElement => \A e \in effects : p < e
        /\ \A p \in DOMAIN q : q[p] = "ancestor" => p = 3 /\ Len(q) = 8 /\ effects = 6 .. 8
        /\ \A p \in DOMAIN q : q[p] \in {"shot", "cleanup", "release"} => p \notin effects
        /\ \A p \in DOMAIN q : q[p] = "shot" => p # Len(q)

(* The programs have this shape, looked at one by one.                     *)
LEMMA ProgramsAreSound == \A op \in Operations : Sound(op, Program(op)) /\ op # Null
<1> USE DEF Sound, Uncounted, LooksOnly, OfElement, WithRetry
<1>1. ASSUME NEW q, q = <<"scroll", "box", "moved", "pressed", "released">>
      PROVE  Sound("click", q)
    <2>1. Len(q) = 5 /\ DOMAIN q = 1 .. 5
        BY <1>1
    <2> QED
        BY <1>1, <2>1
<1>2. ASSUME NEW q, q = <<"scroll", "box", "ancestor", "scroll", "box", "moved", "pressed",
                          "released">>
      PROVE  Sound("clickSmall", q)
    <2>1. Len(q) = 8 /\ DOMAIN q = 1 .. 8
        BY <1>2
    <2> QED
        BY <1>2, <2>1
<1>3. ASSUME NEW q, q = <<"moved", "pressed", "released">>
      PROVE  Sound("clickAt", q)
    <2>1. Len(q) = 3 /\ DOMAIN q = 1 .. 3
        BY <1>3
    <2> QED
        BY <1>3, <2>1
<1>4. ASSUME NEW q, q = <<"scroll", "box", "moved", "pressed", "released", "selectDown",
                          "selectUp", "deleteDown", "deleteUp", "insert">>
      PROVE  Sound("type", q)
    <2>1. Len(q) = 10 /\ DOMAIN q = 1 .. 10
        BY <1>4
    <2> QED
        BY <1>4, <2>1
<1>5. ASSUME NEW q, q = <<"keyDown", "keyUp">>
      PROVE  Sound("press", q)
    <2>1. Len(q) = 2 /\ DOMAIN q = 1 .. 2
        BY <1>5
    <2> QED
        BY <1>5, <2>1
<1>6. ASSUME NEW q, q = <<"scroll", "box", "moved">>
      PROVE  Sound("hover", q)
    <2>1. Len(q) = 3 /\ DOMAIN q = 1 .. 3
        BY <1>6
    <2> QED
        BY <1>6, <2>1
<1>7. ASSUME NEW q, q = <<"resolve", "choose">>
      PROVE  Sound("select", q)
    <2>1. Len(q) = 2 /\ DOMAIN q = 1 .. 2
        BY <1>7
    <2> QED
        BY <1>7, <2>1
<1>8. ASSUME NEW q, q = <<"scroll">>
      PROVE  Sound("scrollTo", q)
    <2>1. Len(q) = 1 /\ DOMAIN q = 1 .. 1
        BY <1>8
    <2> QED
        BY <1>8, <2>1
<1>9. ASSUME NEW q, q = <<"scrollBy">>
      PROVE  Sound("scrollPage", q)
    <2>1. Len(q) = 1 /\ DOMAIN q = 1 .. 1
        BY <1>9
    <2> QED
        BY <1>9, <2>1
<1>10. ASSUME NEW q, q = <<"scroll", "box", "pressed", "moving", "released">>
      PROVE  Sound("dragElement", q)
    <2>1. Len(q) = 5 /\ DOMAIN q = 1 .. 5
        BY <1>10
    <2> QED
        BY <1>10, <2>1
<1>11. ASSUME NEW q, q = <<"scroll", "box", "wheel">>
      PROVE  Sound("wheel", q)
    <2>1. Len(q) = 3 /\ DOMAIN q = 1 .. 3
        BY <1>11
    <2> QED
        BY <1>11, <2>1
<1>12. ASSUME NEW q, q = <<"scroll", "box", "resolve", "detect", "overlay", "shot", "cleanup",
                           "release">>
      PROVE  Sound("inspect", q)
    <2>1. Len(q) = 8 /\ DOMAIN q = 1 .. 8
        BY <1>12
    <2> QED
        BY <1>12, <2>1
<1> HIDE DEF Sound
<1>13. ASSUME NEW op \in Operations
      PROVE  Sound(op, Program(op)) /\ op # Null
    <2>1. op \in {"click", "clickSmall", "clickAt", "type", "press", "hover", "select",
                  "scrollTo", "scrollPage", "dragElement", "wheel", "inspect"}
        BY OperationsAssumption
    <2> QED
        BY <2>1, Programs, <1>1, <1>2, <1>3, <1>4, <1>5, <1>6, <1>7, <1>8, <1>9, <1>10, <1>11,
           <1>12 DEF Null
<1> QED
    BY <1>13

(* A call has sent the effects of its program up to the command that is    *)
(* next, each once; after the last, all.                                   *)
Fits(call, sent_) ==
    /\ \A i, j \in DOMAIN sent_ : i < j => sent_[i] < sent_[j]
    /\ call.op = Null => call.at = 0 /\ call.result # "done" /\ sent_ = <<>>
    /\ call.op # Null => \A i \in DOMAIN sent_ : \A p \in Effects(call.op) :
                            p < sent_[i] => p \in Range(sent_)
    /\ call.at # 0 =>
          /\ call.op # Null
          /\ call.at \in DOMAIN Program(call.op)
          /\ Range(sent_) = {p \in Effects(call.op) : p < call.at}
    /\ call.result = "done" => call.at = 0 /\ Effects(call.op) \subseteq Range(sent_)

(* The calls of the input tools.                                           *)
InputCall == [op : Operations \cup {Null}, node : Nat, at : Nat, retried : BOOLEAN,
              result : {Null, "done", "failed"}]

(* The invariant of them.                                                  *)
InputsInv ==
    /\ present \in Nat
    /\ drawn \in Nat
    /\ inputs \in [InputCalls -> InputCall]
    /\ delivered \in [InputCalls -> Seq(Nat)]
    /\ \A c \in InputCalls : Fits(inputs[c], delivered[c])

(* What the page has received of a call when its next command reaches it.  *)
LEMMA SentOne ==
    ASSUME NEW call \in InputCall, NEW s \in Seq(Nat), call.at # 0, Fits(call, s)
    PROVE  LET t == IF Program(call.op)[call.at] \in Uncounted THEN s ELSE Append(s, call.at)
           IN  /\ t \in Seq(Nat)
               /\ \A i, j \in DOMAIN t : i < j => t[i] < t[j]
               /\ \A i \in DOMAIN t : \A p \in Effects(call.op) : p < t[i] => p \in Range(t)
               /\ Range(t) = {p \in Effects(call.op) : p < call.at + 1}
<1>1. /\ call.op \in Operations
      /\ call.at \in DOMAIN Program(call.op)
      /\ Range(s) = {p \in Effects(call.op) : p < call.at}
    BY DEF InputCall, Fits
<1>2. call.at \in Nat /\ Effects(call.op) \subseteq Nat
    BY <1>1, ProgramsAreSound DEF InputCall, Effects, Sound
<1>3. CASE Program(call.op)[call.at] \in Uncounted
    <2>1. call.at \notin Effects(call.op)
        BY <1>3 DEF Effects
    <2>2. Range(s) = {p \in Effects(call.op) : p < call.at + 1}
        BY <1>1, <1>2, <2>1
    <2> QED
        BY <1>1, <1>3, <2>2 DEF Fits, InputCall
<1>4. CASE Program(call.op)[call.at] \notin Uncounted
    <2> DEFINE t == Append(s, call.at)
    <2>1. call.at \in Effects(call.op)
        BY <1>1, <1>4 DEF Effects
    <2>2. /\ t \in Seq(Nat)
          /\ DOMAIN t = 1 .. Len(s) + 1
          /\ DOMAIN s = 1 .. Len(s)
          /\ \A i \in 1 .. Len(s) : t[i] = s[i]
          /\ t[Len(s) + 1] = call.at
        BY <1>2
    <2>3. Range(t) = Range(s) \cup {call.at}
        <3> HIDE DEF t
        <3> QED
            BY <2>2 DEF Range
    <2>4. Range(t) = {p \in Effects(call.op) : p < call.at + 1}
        BY <1>1, <1>2, <2>1, <2>3
    <2>5. \A i \in DOMAIN s : s[i] < call.at
        BY <1>1 DEF Range
    <2>6. \A i, j \in DOMAIN t : i < j => t[i] < t[j]
        <3>1. \A i, j \in DOMAIN s : i < j => s[i] < s[j]
            BY DEF Fits
        <3>2. ASSUME NEW i \in DOMAIN t, NEW j \in DOMAIN t, i < j
              PROVE  t[i] < t[j]
            <4>1. i \in DOMAIN s /\ t[i] = s[i]
                BY <2>2, <3>2
            <4>2. CASE j \in DOMAIN s
                BY <2>2, <3>1, <3>2, <4>1, <4>2
            <4>3. CASE j = Len(s) + 1
                BY <2>2, <2>5, <4>1, <4>3
            <4> QED
                BY <2>2, <4>2, <4>3
        <3> QED
            BY <3>2
    <2>7. \A i \in DOMAIN t : \A p \in Effects(call.op) : p < t[i] => p \in Range(t)
        <3>1. \A i \in DOMAIN t : t[i] \in Effects(call.op) /\ t[i] < call.at + 1
            <4> HIDE DEF t
            <4> QED
                BY <2>4 DEF Range
        <3> HIDE DEF t
        <3> QED
            BY <1>2, <2>4, <3>1
    <2> QED
        BY <1>4, <2>2, <2>4, <2>6, <2>7
<1> QED
    BY <1>3, <1>4

(* One call goes on.                                                       *)
LEMMA CallChanges ==
    ASSUME InputsInv, NEW c \in InputCalls, NEW r \in InputCall, NEW t \in Seq(Nat), Fits(r, t),
           inputs' = [inputs EXCEPT ![c] = r],
           delivered' = [delivered EXCEPT ![c] = t],
           present' = present, drawn' = drawn
    PROVE  InputsInv'
    BY DEF InputsInv

(* A call that is over has sent its effects in order, up to some point.    *)
LEMMA EndFits ==
    ASSUME NEW call \in InputCall, NEW r \in InputCall, NEW s \in Seq(Nat), NEW t \in Seq(Nat),
           call.at # 0, Fits(call, s),
           r.op = call.op, r.at = 0, r.result = "failed",
           \/ t = s
           \/ t = IF Program(call.op)[call.at] \in Uncounted THEN s ELSE Append(s, call.at)
    PROVE  Fits(r, t)
    BY SentOne DEF Fits

(* A call has gone past a command: the page has received it, or is not     *)
(* affected by it.                                                         *)
LEMMA ProceedFits ==
    ASSUME NEW call \in InputCall, NEW r \in InputCall, NEW s \in Seq(Nat), NEW t \in Seq(Nat),
           call.at # 0, Fits(call, s),
           r.op = call.op,
           \/ r.at = 0 /\ call.at = Len(Program(call.op))
           \/ r.at = call.at + 1 /\ call.at # Len(Program(call.op)) /\ r.result # "done",
           t = IF Program(call.op)[call.at] \in Uncounted THEN s ELSE Append(s, call.at)
    PROVE  Fits(r, t)
<1>1. /\ call.op \in Operations
      /\ call.at \in 1 .. Len(Program(call.op))
      /\ Len(Program(call.op)) \in Nat
      /\ DOMAIN Program(call.op) = 1 .. Len(Program(call.op))
      /\ call.op # Null
    BY ProgramsAreSound DEF Fits, InputCall, Sound
<1>2. Effects(call.op) \subseteq 1 .. Len(Program(call.op))
    BY <1>1 DEF Effects
<1>3. /\ \A i, j \in DOMAIN t : i < j => t[i] < t[j]
      /\ \A i \in DOMAIN t : \A p \in Effects(call.op) : p < t[i] => p \in Range(t)
      /\ Range(t) = {p \in Effects(call.op) : p < call.at + 1}
    BY SentOne
<1>4. CASE r.at = 0 /\ call.at = Len(Program(call.op))
    <2>1. Range(t) = Effects(call.op)
        <3>1. \A p \in Effects(call.op) : p < call.at + 1
            BY <1>1, <1>2, <1>4
        <3> QED
            BY <1>3, <3>1
    <2> QED
        BY <1>1, <1>3, <1>4, <2>1 DEF Fits
<1>5. CASE r.at = call.at + 1 /\ call.at # Len(Program(call.op)) /\ r.result # "done"
    <2>1. r.at \in DOMAIN Program(call.op)
        BY <1>1, <1>5
    <2> QED
        BY <1>1, <1>3, <1>5, <2>1 DEF Fits
<1> QED
    BY <1>4, <1>5

(* Proceeds, whatever was sent.                                            *)
LEMMA Proceeded ==
    ASSUME InputsInv, NEW c \in InputCalls, Working(c), Proceeds(c),
           present' = present, drawn' = drawn,
           delivered' = IF Following(c) \in Uncounted THEN delivered
                        ELSE [delivered EXCEPT ![c] = Append(@, inputs[c].at)]
    PROVE  InputsInv'
<1> DEFINE call == inputs[c]
           s == delivered[c]
           t == IF Program(call.op)[call.at] \in Uncounted THEN s ELSE Append(s, call.at)
           last == call.at = Len(Program(call.op))
           a == IF last THEN 0 ELSE call.at + 1
           res == IF last /\ call.result = Null THEN "done" ELSE call.result
           r == [call EXCEPT !.at = a, !.result = res]
<1>1. call \in InputCall /\ s \in Seq(Nat) /\ call.at # 0 /\ Fits(call, s)
    BY DEF InputsInv, Working
<1>2. t \in Seq(Nat)
    BY <1>1, SentOne
<1>3. delivered' = [delivered EXCEPT ![c] = t]
    BY DEF Following, InputsInv
<1>4. a \in Nat /\ res \in {Null, "done", "failed"} /\ Continue(c, a, res)
    BY <1>1 DEF Proceeds, InputCall
<1>5. /\ r \in InputCall /\ inputs' = [inputs EXCEPT ![c] = r]
      /\ r.op = call.op /\ r.at = a /\ r.result = res
    <2> HIDE DEF a, res
    <2> QED
        BY <1>4 DEF Continue, InputsInv, InputCall
<1>6. call.result # "done"
    BY <1>1 DEF Fits
<1>7. Fits(r, t)
    <2> HIDE DEF r, s, call
    <2> QED
        BY <1>1, <1>2, <1>5, <1>6, ProceedFits
<1> QED
    <2> HIDE DEF r, t
    <2> QED
        BY <1>2, <1>3, <1>5, <1>7, CallChanges

(* A call is answered with its error.                                      *)
LEMMA CallFails ==
    ASSUME InputsInv, NEW c \in InputCalls, Working(c),
           present' = present, drawn' = drawn,
           NEW r \in InputCall, inputs' = [inputs EXCEPT ![c] = r],
           r.op = inputs[c].op, r.at = 0, r.result = "failed",
           \/ UNCHANGED delivered
           \/ delivered' = IF Following(c) \in Uncounted THEN delivered
                           ELSE [delivered EXCEPT ![c] = Append(@, inputs[c].at)]
    PROVE  InputsInv'
<1> DEFINE call == inputs[c]
           s == delivered[c]
           t0 == IF Program(call.op)[call.at] \in Uncounted THEN s ELSE Append(s, call.at)
<1>1. call \in InputCall /\ s \in Seq(Nat) /\ call.at # 0 /\ Fits(call, s)
    BY DEF InputsInv, Working
<1>2. t0 \in Seq(Nat)
    BY <1>1, SentOne
<1>3. PICK t \in {s, t0} : delivered' = [delivered EXCEPT ![c] = t]
    BY DEF Following, InputsInv
<1>4. t \in Seq(Nat)
    BY <1>1, <1>2
<1>5. Fits(r, t)
    BY <1>1, <1>4, EndFits
<1> QED
    BY <1>3, <1>4, <1>5, CallChanges

(* What a call is at, in the terms of the lemmas above.                    *)
LEMMA WorkingFits ==
    ASSUME InputsInv, NEW c \in InputCalls, Working(c)
    PROVE  /\ inputs[c] \in InputCall
           /\ inputs[c].op \in Operations
           /\ delivered[c] \in Seq(Nat)
           /\ inputs[c].at # 0
           /\ inputs[c].at \in 1 .. Len(Program(inputs[c].op))
           /\ Len(Program(inputs[c].op)) \in Nat
           /\ Fits(inputs[c], delivered[c])
           /\ inputs[c].result # "done"
           /\ Range(delivered[c]) = {p \in Effects(inputs[c].op) : p < inputs[c].at}
           /\ Effects(inputs[c].op) \subseteq 1 .. Len(Program(inputs[c].op))
<1>1. /\ inputs[c] \in InputCall /\ delivered[c] \in Seq(Nat) /\ inputs[c].at # 0
      /\ Fits(inputs[c], delivered[c])
    BY DEF InputsInv, Working
<1>2. inputs[c].op \in Operations
    BY <1>1 DEF Fits, InputCall
<1>3. /\ Len(Program(inputs[c].op)) \in Nat
      /\ DOMAIN Program(inputs[c].op) = 1 .. Len(Program(inputs[c].op))
    BY <1>2, ProgramsAreSound DEF Sound
<1> QED
    BY <1>1, <1>2, <1>3 DEF Fits, Effects

(* A tool begins: nothing of the call was sent, and nothing is to be.      *)
LEMMA BeginsInv == ASSUME InputsInv, NEW c \in InputCalls, Begins(c) PROVE InputsInv'
<1>1. PICK op \in Operations, n \in 1 .. drawn :
          inputs' = [inputs EXCEPT ![c] = [Idle EXCEPT !.op = op, !.node = n, !.at = 1]]
    BY DEF Begins
<1> DEFINE r == [Idle EXCEPT !.op = op, !.node = n, !.at = 1]
<1>2. n \in Nat
    BY DEF InputsInv
<1>3. r \in InputCall /\ r.op = op /\ r.at = 1 /\ r.result = Null
    BY <1>2 DEF Idle, InputCall
<1>4. delivered[c] = <<>>
    BY DEF Begins, InputsInv, Fits, Idle
<1>5. /\ op # Null
      /\ 1 \in DOMAIN Program(op)
      /\ Effects(op) \subseteq Nat \ {0}
    BY ProgramsAreSound DEF Sound, Effects
<1>6. DOMAIN delivered[c] = {} /\ Range(delivered[c]) = {}
    BY <1>4 DEF Range
<1>7. Fits(r, delivered[c])
    <2> HIDE DEF r
    <2>1. {p \in Effects(op) : p < 1} = {}
        BY <1>5
    <2> QED
        BY <1>3, <1>5, <1>6, <2>1 DEF Fits, Null
<1>8. delivered' = [delivered EXCEPT ![c] = delivered[c]] /\ delivered[c] \in Seq(Nat)
    BY DEF Begins, InputsInv
<1>9. present' = present /\ drawn' = drawn
    BY DEF Begins
<1> QED
    <2> HIDE DEF r
    <2> QED
        BY <1>1, <1>3, <1>7, <1>8, <1>9, CallChanges DEF r

(* A swallowed failure: the way goes on at the click of the element.       *)
LEMMA AncestorFailsInv == ASSUME InputsInv, NEW c \in InputCalls, AncestorFails(c) PROVE InputsInv'
<1>1. Working(c) /\ Following(c) = "ancestor"
    BY DEF AncestorFails
<1> DEFINE call == inputs[c]
           s == delivered[c]
           r == [inputs[c] EXCEPT !.at = 6, !.result = inputs[c].result]
<1>2. Len(FindClickableAncestor \o ContentQuad) = 5
    BY DEF FindClickableAncestor, ContentQuad
<1>3. /\ call.at = 3 /\ Len(Program(call.op)) = 8
      /\ {p \in DOMAIN Program(call.op) : Program(call.op)[p] \notin Uncounted} = 6 .. 8
      /\ DOMAIN Program(call.op) = 1 .. Len(Program(call.op))
    BY <1>1, WorkingFits, ProgramsAreSound DEF Sound, Following
<1>4. Effects(call.op) = 6 .. 8 /\ 6 \in DOMAIN Program(call.op)
    BY <1>3 DEF Effects
<1>5. Continue(c, 6, call.result) /\ call.result \in {Null, "done", "failed"}
    BY <1>1, <1>2, WorkingFits DEF AncestorFails, InputCall
<1>6. /\ r \in InputCall /\ r.op = call.op /\ r.at = 6 /\ r.result = call.result
      /\ inputs' = [inputs EXCEPT ![c] = r]
    <2>1. 6 \in Nat
        OBVIOUS
    <2> QED
        BY <1>5, <2>1 DEF Continue, InputsInv, InputCall
<1>7. Range(s) = {p \in Effects(call.op) : p < 6}
    <2>1. Range(s) = {p \in Effects(call.op) : p < 3}
        BY <1>1, <1>3, WorkingFits
    <2> QED
        BY <1>4, <2>1
<1>8. Fits(r, s)
    <2> HIDE DEF r
    <2> QED
        BY <1>1, <1>4, <1>6, <1>7, WorkingFits DEF Fits
<1>9. /\ delivered' = [delivered EXCEPT ![c] = s] /\ s \in Seq(Nat)
      /\ present' = present /\ drawn' = drawn
    BY <1>1, WorkingFits DEF AncestorFails, InputsInv
<1> QED
    <2> HIDE DEF r
    <2> QED
        BY <1>6, <1>8, <1>9, CallChanges

(* A command fails, and the call is tried again or answered.               *)
LEMMA FailsInv == ASSUME InputsInv, NEW c \in InputCalls, Fails(c) PROVE InputsInv'
<1>1. /\ Working(c)
      /\ present' = present /\ drawn' = drawn
      /\ \/ UNCHANGED delivered
         \/ delivered' = IF Following(c) \in Uncounted THEN delivered
                         ELSE [delivered EXCEPT ![c] = Append(@, inputs[c].at)]
    BY DEF Fails, Reaches, Unreached
<1> DEFINE call == inputs[c]
           s == delivered[c]
<1>2. /\ call \in InputCall /\ call.op \in Operations /\ s \in Seq(Nat)
      /\ call.at \in 1 .. Len(Program(call.op)) /\ Len(Program(call.op)) \in Nat
      /\ call.result # "done"
      /\ Fits(call, s)
      /\ Range(s) = {p \in Effects(call.op) : p < call.at}
      /\ Effects(call.op) \subseteq 1 .. Len(Program(call.op))
    BY <1>1, WorkingFits
<1>3. CASE Retries(c) /\ TriesAgain(c)
    <2>1. Following(c) \in OfElement /\ call.op \in WithRetry
        BY <1>3 DEF Retries, Stale, OfElement
    <2>2. delivered' = [delivered EXCEPT ![c] = s]
        BY <1>1, <2>1 DEF Uncounted, LooksOnly, InputsInv
    <2>3. \A e \in Effects(call.op) : call.at < e
        BY <1>2, <2>1, ProgramsAreSound DEF Sound, Following, Effects
    <2>4. Range(s) = {} /\ Effects(call.op) \subseteq Nat
        BY <1>2, <2>3
    <2>5. CASE present = 0
        <3> DEFINE r == [call EXCEPT !.retried = TRUE, !.at = 0, !.result = "failed"]
        <3>1. /\ r \in InputCall /\ r.op = call.op /\ r.at = 0 /\ r.result = "failed"
              /\ inputs' = [inputs EXCEPT ![c] = r]
            BY <1>2, <1>3, <2>5 DEF TriesAgain, InputCall, InputsInv
        <3> HIDE DEF r
        <3> QED
            BY <1>1, <3>1, CallFails
    <2>6. CASE present # 0
        <3> DEFINE r == [call EXCEPT !.retried = TRUE, !.node = present, !.at = 1]
        <3>1. /\ r \in InputCall /\ r.op = call.op /\ r.at = 1 /\ r.result = call.result
              /\ inputs' = [inputs EXCEPT ![c] = r]
            BY <1>2, <1>3, <2>6 DEF TriesAgain, InputCall, InputsInv
        <3> HIDE DEF r
        <3>2. {p \in Effects(call.op) : p < 1} = {}
            BY <1>2, <2>3, <2>4
        <3>3. 1 \in DOMAIN Program(call.op)
            BY <1>2, ProgramsAreSound DEF Sound
        <3>4. Fits(r, s)
            BY <1>2, <2>4, <3>1, <3>2, <3>3 DEF Fits
        <3> QED
            BY <1>1, <1>2, <2>2, <3>1, <3>4, CallChanges
    <2> QED
        BY <2>5, <2>6
<1>4. CASE Failing(c) /\ Following(c) = "shot"
    <2>1. call.at # Len(Program(call.op)) /\ Following(c) \in Uncounted
        BY <1>2, <1>4, ProgramsAreSound DEF Sound, Following, Uncounted, LooksOnly
    <2> DEFINE r == [inputs[c] EXCEPT !.at = inputs[c].at + 1, !.result = "failed"]
    <2>2. Continue(c, call.at + 1, "failed") /\ call.at + 1 \in Nat
          /\ "failed" \in {Null, "done", "failed"}
        BY <1>2, <1>4 DEF Failing
    <2>3. /\ r \in InputCall /\ r.op = call.op /\ r.at = call.at + 1 /\ r.result = "failed"
          /\ inputs' = [inputs EXCEPT ![c] = r]
        BY <2>2 DEF Continue, InputsInv, InputCall
    <2> HIDE DEF r
    <2>4. Fits(r, s)
        BY <1>2, <2>1, <2>3, ProceedFits DEF Following
    <2>5. delivered' = [delivered EXCEPT ![c] = s]
        BY <1>1, <2>1 DEF InputsInv
    <2> QED
        BY <1>1, <1>2, <2>3, <2>4, <2>5, CallChanges
<1>5. CASE Failing(c) /\ Following(c) \in {"cleanup", "release"}
    <2>1. Following(c) \in Uncounted /\ Proceeds(c)
        BY <1>5 DEF Uncounted, LooksOnly, Failing
    <2> QED
        BY <1>1, <2>1, Proceeded
<1>6. CASE Failing(c) /\ Following(c) \notin {"shot", "cleanup", "release"}
    <2> DEFINE r == [inputs[c] EXCEPT !.at = 0, !.result = "failed"]
    <2>1. Continue(c, 0, "failed")
        BY <1>6 DEF Failing
    <2>2. /\ r \in InputCall /\ r.op = call.op /\ r.at = 0 /\ r.result = "failed"
          /\ inputs' = [inputs EXCEPT ![c] = r]
        <3>1. 0 \in Nat /\ "failed" \in {Null, "done", "failed"}
            OBVIOUS
        <3> QED
            BY <2>1, <3>1 DEF Continue, InputsInv, InputCall
    <2> HIDE DEF r
    <2> QED
        BY <1>1, <2>2, CallFails
<1> QED
    BY <1>3, <1>4, <1>5, <1>6 DEF Fails

(* Every step keeps the invariant.                                         *)
LEMMA InputsStepInv == InputsInv /\ [InputsNext]_inputVars => InputsInv'
<1> SUFFICES ASSUME InputsInv, [InputsNext]_inputVars
             PROVE  InputsInv'
    OBVIOUS
<1>1. CASE Redraw
    BY <1>1 DEF Redraw, InputsInv
<1>2. ASSUME NEW c \in InputCalls, Begins(c)
      PROVE  InputsInv'
    BY <1>2, BeginsInv
<1>3. ASSUME NEW c \in InputCalls, Refused(c)
      PROVE  InputsInv'
    <2> DEFINE r == [inputs[c] EXCEPT !.at = 0, !.result = "failed"]
    <2>1. Continue(c, 0, "failed") /\ 0 \in Nat /\ "failed" \in {Null, "done", "failed"}
        BY <1>3 DEF Refused
    <2>2. /\ r \in InputCall /\ r.op = inputs[c].op /\ r.at = 0 /\ r.result = "failed"
          /\ inputs' = [inputs EXCEPT ![c] = r]
        BY <2>1 DEF Continue, InputsInv, InputCall
    <2> HIDE DEF r
    <2> QED
        BY <1>3, <2>2, CallFails DEF Refused
<1>4. ASSUME NEW c \in InputCalls, Succeeds(c)
      PROVE  InputsInv'
    BY <1>4, Proceeded DEF Succeeds, Reaches
<1>5. ASSUME NEW c \in InputCalls, AncestorFails(c)
      PROVE  InputsInv'
    BY <1>5, AncestorFailsInv
<1>6. ASSUME NEW c \in InputCalls, Fails(c)
      PROVE  InputsInv'
    BY <1>6, FailsInv
<1>7. CASE UNCHANGED inputVars
    BY <1>7 DEF inputVars, InputsInv
<1> QED
    BY <1>1, <1>2, <1>3, <1>4, <1>5, <1>6, <1>7 DEF InputsNext

(* The effects of a call reach the page once, in the order of its program  *)
(* and none left out; those of a call that is done, all: ActedOnce, for    *)
(* any calls and any of the operations, with stale elements that are found *)
(* anew.                                                                   *)
THEOREM InputsActOnce == Spec => []ActedOnce
<1>1. Init => InputsInv
    <2> SUFFICES ASSUME InputsInit PROVE InputsInv
        BY DEF Init
    <2>1. ASSUME NEW c \in InputCalls
          PROVE  inputs[c] = Idle /\ delivered[c] = <<>>
        BY DEF InputsInit
    <2>2. Fits(Idle, <<>>)
        BY DEF Fits, Idle, Null
    <2>3. inputs \in [InputCalls -> InputCall] /\ delivered \in [InputCalls -> Seq(Nat)]
        BY DEF InputsInit, Idle, InputCall
    <2> QED
        BY <2>1, <2>2, <2>3 DEF InputsInv, InputsInit
<1>2. InputsInv /\ [Next]_vars => InputsInv'
    <2>1. [Next]_vars => [InputsNext]_inputVars
        BY DEF Next, vars, SurfacesStep, RegistryStep, NetworkStep, ObservationsStep,
               InputsStep, HealthStep
    <2> QED
        BY <2>1, InputsStepInv
<1>3. InputsInv => ActedOnce
    <2> SUFFICES ASSUME InputsInv, NEW c \in InputCalls
                 PROVE  /\ InOrder(c)
                        /\ NoneSkipped(c)
                        /\ inputs[c].result = "done" =>
                              Effects(inputs[c].op) \subseteq Range(delivered[c])
        BY DEF ActedOnce
    <2>1. Fits(inputs[c], delivered[c])
        BY DEF InputsInv
    <2>2. inputs[c].op = Null => DOMAIN delivered[c] = {}
        BY <2>1 DEF Fits
    <2> QED
        BY <2>1, <2>2 DEF Fits, InOrder, NoneSkipped
<1> QED
    BY <1>1, <1>2, <1>3, PTL DEF Spec

-----------------------------------------------------------------------------

(* Observations. What the observer makes of a batch is a fold, and its log *)
(* only grows by it: by induction over the batch, for which the numbers    *)
(* that hold are taken for a set.                                          *)

(* A set of naturals that is not empty has a least element.                *)
LEMMA LeastOf ==
    ASSUME NEW T \in SUBSET Nat, T # {}
    PROVE  \E n \in T : \A m \in T : n <= m
<1> DEFINE R == {p \in Nat \X Nat : p[1] < p[2]}
<1>1. OpToRel(<, Nat) = R
    BY DEF OpToRel
<1>2. IsWellFoundedOn(R, Nat)
    BY <1>1, NatLessThanWellFounded
<1>3. PICK n \in T : \A m \in T : <<m, n>> \notin R
    <2> HIDE DEF R
    <2> QED
        BY <1>2, WFMin
<1>4. ASSUME NEW m \in T
      PROVE  n <= m
    <2>1. m \in Nat /\ n \in Nat /\ ~(m < n)
        BY <1>3
    <2> QED
        BY <2>1
<1> QED
    BY <1>4

(* Induction, stated of the set of the numbers for which something holds.  *)
LEMMA NatSet ==
    ASSUME NEW S, 0 \in S, \A n \in Nat : n \in S => n + 1 \in S
    PROVE  Nat \subseteq S
<1> SUFFICES ASSUME Nat \ S # {}
             PROVE  FALSE
    OBVIOUS
<1>1. PICK n \in Nat \ S : \A m \in Nat \ S : n <= m
    BY LeastOf
<1>2. n # 0 /\ n - 1 \in Nat
    OBVIOUS
<1>3. n - 1 \in S
    BY <1>1, <1>2
<1> QED
    BY <1>2, <1>3

(* The greatest of some of the numbers from 1 to n.                        *)
LEMMA MaxOf ==
    ASSUME NEW n \in Nat, NEW s \in SUBSET (1 .. n), s # {}
    PROVE  Max(s) \in s /\ \A x \in s : x <= Max(s)
<1> DEFINE T == {n - x : x \in s}
<1>1. T \in SUBSET Nat /\ T # {}
    <2>1. \A x \in s : n - x \in Nat
        OBVIOUS
    <2>2. PICK x \in s : TRUE
        OBVIOUS
    <2>3. n - x \in T
        OBVIOUS
    <2> QED
        BY <2>1, <2>3
<1>2. PICK t \in T : \A u \in T : t <= u
    BY <1>1, LeastOf
<1>3. PICK x \in s : t = n - x
    OBVIOUS
<1>4. \A y \in s : x >= y
    <2> SUFFICES ASSUME NEW y \in s
                 PROVE  x >= y
        OBVIOUS
    <2>1. n - y \in T
        OBVIOUS
    <2> QED
        BY <1>2, <1>3, <2>1
<1>5. Max(s) \in s /\ \A y \in s : Max(s) >= y
    BY <1>3, <1>4, Zenon DEF Max
<1> QED
    BY <1>5

(* A mutation as the observer is told of it, and a log of any entries.     *)
Mutation == [kind : {"added", "removed", "text", "attribute"}, element : Elements]
IsLog(l) == \E X : l \in Seq(X)

(* The accumulator as a record, with a log of entries that bear a time.    *)
Accumulates(a) ==
    /\ a = [log |-> a.log, lastReported |-> a.lastReported, processed |-> a.processed,
            shadow |-> a.shadow, body |-> a.body]
    /\ IsLog(a.log)
    /\ \A i \in 1 .. Len(a.log) : a.log[i].at \in Nat

(* The log of b is that of a with more after it, and no more of it is      *)
(* reported.                                                               *)
Grown(a, b) ==
    /\ Accumulates(b)
    /\ b.lastReported = a.lastReported
    /\ Len(a.log) <= Len(b.log)
    /\ \A i \in 1 .. Len(a.log) : b.log[i] = a.log[i]

(* Growth goes on.                                                         *)
LEMMA GrownTwice ==
    ASSUME NEW a, NEW b, NEW c, IsLog(a.log), Grown(a, b), Grown(b, c)
    PROVE  Grown(a, c)
<1>1. Len(a.log) \in Nat /\ Len(b.log) \in Nat /\ Len(c.log) \in Nat
    BY DEF IsLog, Grown, Accumulates
<1> QED
    BY <1>1 DEF Grown

(* A log that stays has grown by nothing.                                  *)
LEMMA GrownNot == ASSUME NEW a, Accumulates(a) PROVE Grown(a, a)
<1>1. Len(a.log) \in Nat
    BY DEF Accumulates, IsLog
<1> QED
    BY <1>1 DEF Grown

(* Two logs, one after the other, are a log that begins as the first does. *)
LEMMA Joins ==
    ASSUME NEW l, NEW new, IsLog(l), IsLog(new),
           \A i \in 1 .. Len(l) : l[i].at \in Nat,
           \A i \in 1 .. Len(new) : new[i].at \in Nat
    PROVE  /\ IsLog(l \o new)
           /\ Len(l) <= Len(l \o new)
           /\ \A i \in 1 .. Len(l) : (l \o new)[i] = l[i]
           /\ \A i \in 1 .. Len(l \o new) : (l \o new)[i].at \in Nat
<1>1. PICK X : l \in Seq(X)
    BY DEF IsLog
<1>2. PICK Y : new \in Seq(Y)
    BY DEF IsLog
<1> DEFINE Z == X \cup Y
<1>3. l \in Seq(Z) /\ new \in Seq(Z)
    <2>1. \A i \in 1 .. Len(l) : l[i] \in Z
        BY <1>1
    <2>2. \A i \in 1 .. Len(new) : new[i] \in Z
        BY <1>2
    <2>3. l \in [1 .. Len(l) -> Z] /\ Len(l) \in Nat
        BY <1>1, <2>1
    <2>4. new \in [1 .. Len(new) -> Z] /\ Len(new) \in Nat
        BY <1>2, <2>2
    <2> HIDE DEF Z
    <2> QED
        BY <2>3, <2>4
<1> HIDE DEF Z
<1>4. /\ l \o new \in Seq(Z)
      /\ Len(l \o new) = Len(l) + Len(new)
      /\ Len(l) \in Nat /\ Len(new) \in Nat
      /\ \A i \in 1 .. Len(l) + Len(new) :
            (l \o new)[i] = IF i <= Len(l) THEN l[i] ELSE new[i - Len(l)]
    BY <1>3
<1>5. ASSUME NEW i \in 1 .. Len(l \o new)
      PROVE  (l \o new)[i].at \in Nat
    <2>1. CASE i <= Len(l)
        BY <1>4, <2>1
    <2>2. CASE ~(i <= Len(l))
        <3>1. i - Len(l) \in 1 .. Len(new)
            BY <1>4, <2>2
        <3> QED
            BY <1>4, <2>2, <3>1
    <2> QED
        BY <2>1, <2>2
<1>6. \A i \in 1 .. Len(l) : (l \o new)[i] = l[i]
    BY <1>4
<1> QED
    BY <1>4, <1>5, <1>6 DEF IsLog

(* What is appended to the log, with nothing else of it changed.           *)
LEMMA Appended ==
    ASSUME NEW a, NEW b, NEW new, Accumulates(a), IsLog(new),
           \A i \in 1 .. Len(new) : new[i].at \in Nat,
           b = [log |-> a.log \o new, lastReported |-> a.lastReported,
                processed |-> b.processed, shadow |-> b.shadow, body |-> b.body]
    PROVE  Grown(a, b)
<1>1. b.log = a.log \o new /\ b.lastReported = a.lastReported
    OBVIOUS
<1>2. /\ IsLog(a.log \o new)
      /\ Len(a.log) <= Len(a.log \o new)
      /\ \A i \in 1 .. Len(a.log) : (a.log \o new)[i] = a.log[i]
      /\ \A i \in 1 .. Len(a.log \o new) : (a.log \o new)[i].at \in Nat
    BY Joins DEF Accumulates
<1> QED
    BY <1>1, <1>2 DEF Grown, Accumulates

(* An entry is captured, or it does not matter: the log grows.             *)
LEMMA CapturedGrows ==
    ASSUME now \in Nat, NEW a, Accumulates(a), NEW e, NEW type, NEW by
    PROVE  Grown(a, Captured(a, e, type, by))
<1> DEFINE entry == Entry(Len(a.log), e, type, by)
           b == [a EXCEPT !.log = Append(@, entry)]
<1>1. CASE ~Significant(e)
    BY <1>1, GrownNot DEF Captured
<1>2. CASE Significant(e)
    <2>1. <<entry>> \in Seq({entry}) /\ Len(<<entry>>) = 1 /\ <<entry>>[1].at = now
        BY DEF Entry
    <2>2. IsLog(<<entry>>) /\ \A i \in 1 .. Len(<<entry>>) : <<entry>>[i].at \in Nat
        <3>1. \A i \in 1 .. Len(<<entry>>) : i = 1
            BY <2>1
        <3> HIDE DEF entry
        <3> QED
            BY <2>1, <3>1 DEF IsLog
    <2>3. Append(a.log, entry) = a.log \o <<entry>>
        <3>1. PICK X : a.log \in Seq(X)
            BY DEF Accumulates, IsLog
        <3>2. a.log \in Seq(X \cup {entry}) /\ entry \in X \cup {entry}
            BY <3>1
        <3> HIDE DEF entry
        <3> QED
            BY <3>2, AppendIsConcat
    <2>4. b = [log |-> a.log \o <<entry>>, lastReported |-> a.lastReported,
                processed |-> b.processed, shadow |-> b.shadow, body |-> b.body]
        <3> HIDE DEF entry
        <3> QED
            BY <2>3 DEF Accumulates
    <2>5. Grown(a, b)
        <3> HIDE DEF b, entry
        <3> QED
            BY <2>2, <2>4, Appended
    <2> QED
        BY <1>2, <2>5 DEF Captured
<1> QED
    BY <1>1, <1>2

(* Those that are captured as added, in a sequence.                        *)
LEMMA FreshIs ==
    ASSUME NEW a, NEW found \in SUBSET Elements
    PROVE  Fresh(a, found) \in Seq(Elements)
<1> DEFINE S == {e \in found : e \notin a.processed /\ Significant(e)}
           n == Cardinality(S)
<1>1. S \subseteq Elements
    OBVIOUS
<1>2. IsFiniteSet(S)
    BY <1>1, LogAssumption, FS_Subset
<1> HIDE DEF S
<1>3. n \in Nat /\ \E f : f \in Bijection(1 .. n, S)
    BY <1>2, FS_CardinalityType DEF ExistsBijection
<1>4. \E f \in [1 .. n -> S] : IsInjective(f)
    <2>1. PICK f : f \in Bijection(1 .. n, S)
        BY <1>3
    <2>2. f \in [1 .. n -> S] /\ \A x, y \in 1 .. n : f[x] = f[y] => x = y
        BY <2>1 DEF Bijection, Injection, Surjection, IsInjective
    <2> QED
        BY <2>2 DEF IsInjective
<1>5. SetToSeq(S) \in [1 .. n -> S]
    <2> HIDE DEF n
    <2> QED
        BY <1>4, Zenon DEF SetToSeq, n
<1>6. SetToSeq(S) \in Seq(S)
    BY <1>3, <1>5
<1>7. SetToSeq(S) \in Seq(Elements)
    BY <1>1, <1>6
<1> QED
    BY <1>7 DEF Fresh, S

(* The log grows by all entries of one addition to the page.               *)
LEMMA CapturedOnceGrows ==
    ASSUME now \in Nat, NEW a, Accumulates(a), NEW fresh \in Seq(Elements)
    PROVE  Grown(a, CapturedOnce(a, fresh))
<1> DEFINE entry(i) == Entry(Len(a.log) + i - 1, fresh[i], "added", "tree")
           new == [i \in 1 .. Len(fresh) |-> entry(i)]
           b == CapturedOnce(a, fresh)
<1>1. /\ Len(fresh) \in Nat
      /\ new \in Seq({entry(i) : i \in 1 .. Len(fresh)})
      /\ Len(new) = Len(fresh)
    <2>1. Len(fresh) \in Nat
        OBVIOUS
    <2> HIDE DEF entry
    <2> QED
        BY <2>1
<1>2. \A i \in 1 .. Len(new) : new[i].at \in Nat
    <2>1. \A i : entry(i).at = now
        BY DEF Entry
    <2> HIDE DEF entry
    <2> QED
        BY <1>1, <2>1
<1>3. IsLog(new)
    <2> HIDE DEF entry, new
    <2> QED
        BY <1>1 DEF IsLog
<1>4. b = [log |-> a.log \o new, lastReported |-> a.lastReported,
           processed |-> b.processed, shadow |-> b.shadow, body |-> b.body]
    <2> DEFINE p == a.processed \cup ToSet(fresh)
    <2>1. b = [a EXCEPT !.log = a.log \o new, !.processed = p]
        BY DEF CapturedOnce
    <2> HIDE DEF b, new, p
    <2>2. b = [log |-> a.log \o new, lastReported |-> a.lastReported,
                processed |-> p, shadow |-> a.shadow, body |-> a.body]
        BY <2>1 DEF Accumulates
    <2> QED
        BY <2>2
<1> HIDE DEF new, b
<1> QED
    BY <1>2, <1>3, <1>4, Appended DEF b

(* Only the shadow roots change.                                           *)
LEMMA ShadowOnly ==
    ASSUME NEW a, NEW b, NEW s, Grown(a, b)
    PROVE  Grown(a, [b EXCEPT !.shadow = s])
    BY DEF Grown, Accumulates

(* What the observer makes of a mutation only adds to the log.             *)
LEMMA ProcessGrows ==
    ASSUME now \in Nat, NEW a, Accumulates(a), NEW m \in Mutation
    PROVE  Grown(a, Process(a, m))
<1> DEFINE e == m.element
<1>1. e \in Elements /\ m.kind \in {"added", "removed", "text", "attribute"}
    BY DEF Mutation
<1> HIDE DEF e
<1>2. Grown(a, a)
    BY GrownNot
<1>3. Grown(a, ProcessAddedNode(a, e))
    <2> DEFINE aria == {d \in Descendants(e) : Markup[d] \cap Aria # {}}
               leaves == {d \in Descendants(e) \ aria : Descendants(d) = {}}
               fresh == Fresh(a, {e}) \o Fresh(a, aria) \o Fresh(a, leaves)
               b == CapturedOnce(a, fresh)
    <2>1. Descendants(e) \in SUBSET Elements
        BY DEF Descendants, Inside
    <2>2. {e} \in SUBSET Elements /\ aria \in SUBSET Elements /\ leaves \in SUBSET Elements
        BY <1>1, <2>1
    <2> HIDE DEF aria, leaves
    <2>3. fresh \in Seq(Elements)
        BY <2>2, FreshIs
    <2> HIDE DEF fresh
    <2>4. Grown(a, b)
        BY <2>3, CapturedOnceGrows
    <2> HIDE DEF b
    <2>5. Grown(a, ObserveShadowRoots(b, e))
        BY <2>4, ShadowOnly DEF ObserveShadowRoots, Observing
    <2>6. ProcessAddedNode(a, e) = IF e \in a.processed THEN a ELSE ObserveShadowRoots(b, e)
        BY Zenon DEF ProcessAddedNode, b, fresh, aria, leaves
    <2> QED
        BY <1>2, <2>5, <2>6
<1>4. Grown(a, ProcessRemovedNode(a, e))
    BY CapturedGrows, ShadowOnly DEF ProcessRemovedNode, CleanupShadowObservers
<1>5. Grown(a, ProcessCharacterData(a, e))
    BY <1>2, CapturedGrows DEF ProcessCharacterData
<1>6. Grown(a, ProcessAttribute(a, e))
    <2>1. Fresh(a, {e}) \in Seq(Elements)
        BY <1>1, FreshIs
    <2> QED
        BY <1>2, <2>1, CapturedOnceGrows DEF ProcessAttribute
<1> QED
    BY <1>1, <1>3, <1>4, <1>5, <1>6 DEF Process, e

(* And so does a batch of them: by induction over the batch.               *)
LEMMA BatchGrows ==
    ASSUME now \in Nat, Accumulates(acc), batch \in Seq(Mutation)
    PROVE  Grown(acc, FoldLeft(Process, acc, batch))
<1> DEFINE D == 1 .. Len(batch)
           Step(s, v) == Process(v, batch[Max(s)])
           Iterates(g, k) ==
               g = [s \in SUBSET (1 .. k) |->
                       IF s = {} THEN acc ELSE Step(s, g[s \ {Max(s)}])]
           Some == {k \in Nat : \E g : Iterates(g, k)}
<1>1. D = DOMAIN batch /\ Len(batch) \in Nat
    OBVIOUS
<1>2. ASSUME NEW k \in Nat, NEW s \in SUBSET (1 .. k + 1), s # {}
      PROVE  Max(s) \in s /\ s \ {Max(s)} \in SUBSET (1 .. k)
    <2>1. Max(s) \in s /\ \A x \in s : x <= Max(s)
        <3>1. k + 1 \in Nat
            OBVIOUS
        <3> QED
            BY <1>2, <3>1, MaxOf
    <2>2. ASSUME NEW x \in s \ {Max(s)}
          PROVE  x \in 1 .. k
        <3> DEFINE m == Max(s)
        <3>1. m \in 1 .. k + 1 /\ x \in 1 .. k + 1 /\ x <= m /\ x # m
            BY <2>1
        <3> HIDE DEF m
        <3> QED
            BY <3>1
    <2> QED
        BY <2>1, <2>2
<1>3. Nat \subseteq Some
    <2>1. 0 \in Some
        <3> DEFINE g == [s \in SUBSET (1 .. 0) |-> acc]
        <3>1. \A s \in SUBSET (1 .. 0) : s = {}
            OBVIOUS
        <3>2. Iterates(g, 0)
            <4> HIDE DEF Step
            <4> QED
                BY <3>1
        <3> HIDE DEF Iterates
        <3> QED
            BY <3>2
    <2>2. ASSUME NEW k \in Nat, k \in Some
          PROVE  k + 1 \in Some
        <3> HIDE DEF Step
        <3>1. PICK g : Iterates(g, k)
            BY <2>2
        <3> DEFINE h == [s \in SUBSET (1 .. k + 1) |->
                            IF s = {} THEN acc ELSE Step(s, g[s \ {Max(s)}])]
        <3>2. ASSUME NEW s \in SUBSET (1 .. k)
              PROVE  h[s] = g[s]
            <4>1. s \in SUBSET (1 .. k + 1)
                OBVIOUS
            <4>2. h[s] = IF s = {} THEN acc ELSE Step(s, g[s \ {Max(s)}])
                BY <4>1
            <4>3. g[s] = IF s = {} THEN acc ELSE Step(s, g[s \ {Max(s)}])
                BY <3>1
            <4> QED
                BY <4>2, <4>3
        <3>3. \A s \in SUBSET (1 .. k + 1) : s # {} => h[s \ {Max(s)}] = g[s \ {Max(s)}]
            BY <1>2, <3>2
        <3>4. Iterates(h, k + 1)
            <4>1. \A s \in SUBSET (1 .. k + 1) :
                     h[s] = IF s = {} THEN acc ELSE Step(s, h[s \ {Max(s)}])
                BY <3>3
            <4>2. h = [s \in SUBSET (1 .. k + 1) |-> h[s]]
                OBVIOUS
            <4> HIDE DEF h
            <4> QED
                BY <4>1, <4>2
        <3> HIDE DEF Iterates, h
        <3> QED
            BY <2>2, <3>4
    <2> HIDE DEF Some
    <2> QED
        BY <2>1, <2>2, NatSet
<1> DEFINE iter == CHOOSE g : Iterates(g, Len(batch))
<1>4. Iterates(iter, Len(batch))
    <2>1. \E g : Iterates(g, Len(batch))
        <3> HIDE DEF Iterates
        <3> QED
            BY <1>1, <1>3
    <2> HIDE DEF Iterates
    <2> QED
        BY <2>1
<1>5. FoldLeft(Process, acc, batch) = iter[D]
    BY <1>1 DEF FoldLeft, MapThenFoldSet
<1> HIDE DEF iter
<1> DEFINE Good == {k \in Nat : k <= Len(batch) => \A s \in SUBSET (1 .. k) : Grown(acc, iter[s])}
<1>6. Nat \subseteq Good
    <2>1. \A s \in SUBSET D : iter[s] = IF s = {} THEN acc ELSE Step(s, iter[s \ {Max(s)}])
        BY <1>4
    <2>2. 0 \in Good
        <3>1. \A s \in SUBSET (1 .. 0) : s = {} /\ s \in SUBSET D
            OBVIOUS
        <3>2. Grown(acc, acc)
            BY GrownNot
        <3> HIDE DEF Step
        <3> QED
            BY <2>1, <3>1, <3>2
    <2>3. ASSUME NEW k \in Nat, k \in Good
          PROVE  k + 1 \in Good
        <3> SUFFICES ASSUME k + 1 <= Len(batch), NEW s \in SUBSET (1 .. k + 1)
                     PROVE  Grown(acc, iter[s])
            BY <1>1
        <3>1. s \in SUBSET D
            BY <1>1
        <3>2. CASE s = {}
            BY <2>1, <3>1, <3>2, GrownNot
        <3>3. CASE s # {}
            <4> DEFINE t == s \ {Max(s)}
            <4>1. Max(s) \in D /\ t \in SUBSET (1 .. k)
                BY <1>2, <3>1, <3>3
            <4>2. Grown(acc, iter[t])
                BY <1>1, <2>3, <4>1
            <4>3. batch[Max(s)] \in Mutation
                BY <4>1
            <4>4. Grown(iter[t], Process(iter[t], batch[Max(s)]))
                BY <4>2, <4>3, ProcessGrows DEF Grown
            <4>5. iter[s] = Process(iter[t], batch[Max(s)])
                BY <2>1, <3>1, <3>3
            <4> HIDE DEF t
            <4> QED
                BY <4>2, <4>4, <4>5, GrownTwice DEF Accumulates
        <3> QED
            BY <3>2, <3>3
    <2> HIDE DEF Good
    <2> QED
        BY <2>2, <2>3, NatSet
<1> QED
    BY <1>1, <1>5, <1>6

(* A tool that looks at the page before and after its action.              *)
LookType == [pc : {"idle", "ensure", "inject", "act", "capture"}, since : Nat, inject : BOOLEAN]

(* Until an entry left the log, what is reported was collected.            *)
Reported ==
    /\ Accumulates(acc)
    /\ acc.lastReported \in 0 .. Len(acc.log)
    /\ ReportedWasCollected

(* The invariant: nothing is said of a log that has overflown.             *)
ObservationsInv ==
    /\ now \in Nat
    /\ batch \in Seq(Mutation)
    /\ looking \in [ObsCalls -> LookType]
    /\ ~trimmed => Reported

(* An empty log has nothing to report.                                     *)
LEMMA EmptyIsReported ==
    ASSUME NEW a, a = [Absent EXCEPT !.shadow = a.shadow, !.body = a.body]
    PROVE  /\ Accumulates(a) /\ a.lastReported = 0 /\ Len(a.log) = 0
<1>1. a = [log |-> <<>>, lastReported |-> 0, processed |-> {}, shadow |-> a.shadow,
           body |-> a.body]
    BY DEF Absent
<1>2. IsLog(<<>>) /\ Len(<<>>) = 0
    <2>1. <<>> \in Seq({}) /\ Len(<<>>) = 0
        OBVIOUS
    <2> QED
        BY <2>1 DEF IsLog
<1>3. a.log = <<>> /\ a.lastReported = 0
    BY <1>1
<1>4. \A i \in 1 .. Len(a.log) : FALSE
    BY <1>2, <1>3
<1> QED
    BY <1>1, <1>2, <1>3, <1>4 DEF Accumulates

(* A script that is installed anew has an empty log; one that is there     *)
(* keeps it.                                                               *)
LEMMA InstalledIsReported ==
    ASSUME Reported, UNCHANGED <<collected, unheard>>, Install PROVE Reported'
<1>1. CASE acc.body = Null
    <2>1. acc' = [Absent EXCEPT !.shadow = acc'.shadow, !.body = acc'.body]
        BY <1>1 DEF Install, Observing, Injected, Absent
    <2>2. Accumulates(acc') /\ acc'.lastReported = 0 /\ Len(acc'.log) = 0
        <3> DEFINE a == acc'
        <3> HIDE DEF a
        <3>1. a = [Absent EXCEPT !.shadow = a.shadow, !.body = a.body]
            BY <2>1 DEF a
        <3>2. Accumulates(a) /\ a.lastReported = 0 /\ Len(a.log) = 0
            BY <3>1, EmptyIsReported
        <3> QED
            BY <3>2 DEF a
    <2> QED
        BY <2>2 DEF Reported, ReportedWasCollected, Accumulates, IsLog
<1>2. CASE acc.body # Null
    BY <1>2 DEF Install, Reported, ReportedWasCollected, Accumulates, IsLog
<1> QED
    BY <1>1, <1>2

(* The log grows, and what is reported of it stays.                        *)
LEMMA GrownIsReported ==
    ASSUME Reported, UNCHANGED <<collected, unheard>>, Grown(acc, acc')
    PROVE  Reported'
<1>1. Len(acc.log) \in Nat /\ Len(acc'.log) \in Nat
    BY DEF Reported, Grown, Accumulates, IsLog
<1>2. Accumulates(acc)'
    BY DEF Grown, Accumulates, IsLog
<1> QED
    BY <1>1, <1>2 DEF Reported, Grown, ReportedWasCollected

(* The callback of the observer adds a batch, and may drop what is too     *)
(* much.                                                                   *)
LEMMA CallbackInv == ASSUME ObservationsInv, Callback PROVE ObservationsInv'
<1> DEFINE a == FoldLeft(Process, acc, batch)
<1>1. <<>> \in Seq(Mutation)
    OBVIOUS
<1>2. ASSUME ~trimmed'
      PROVE  Reported'
    <2>1. ~trimmed /\ Reported
        BY <1>2 DEF Callback, ObservationsInv
    <2>2. Grown(acc, a)
        BY <2>1, BatchGrows DEF ObservationsInv, Reported
    <2>3. /\ ~(Excess(a.log) > 0)
          /\ acc' = [a EXCEPT !.log = SubSeq(a.log, Excess(a.log) + 1, Len(a.log))]
        BY <1>2 DEF Callback
    <2> HIDE DEF a
    <2>4. PICK X : a.log \in Seq(X)
        BY <2>2 DEF Grown, Accumulates, IsLog
    <2>5. Excess(a.log) = 0
        BY <2>3, <2>4, LogAssumption DEF Excess
    <2>6. SubSeq(a.log, 1, Len(a.log)) = a.log
        BY <2>4, SubSeqFull
    <2>7. acc' = [a EXCEPT !.log = a.log]
        BY <2>3, <2>5, <2>6
    <2>8. acc' = a
        BY <2>2, <2>7 DEF Grown, Accumulates
    <2> QED
        BY <2>1, <2>2, <2>8, GrownIsReported DEF Callback
<1> QED
    BY <1>1, <1>2 DEF Callback, ObservationsInv

(* A mutation of the page waits for the callback.                          *)
LEMMA MutatesInv ==
    ASSUME ObservationsInv, NEW kind \in {"added", "removed", "text", "attribute"},
           NEW e \in Elements, NEW seen, Mutates(kind, e, seen)
    PROVE  ObservationsInv'
<1>1. [kind |-> kind, element |-> e] \in Mutation
    BY DEF Mutation
<1>2. batch' \in Seq(Mutation)
    BY <1>1 DEF Mutates, ObservationsInv
<1> QED
    BY <1>2 DEF Mutates, ObservationsInv, Reported, ReportedWasCollected, Accumulates, IsLog

(* Everything in the log is reported from here on.                         *)
LEMMA AllReported ==
    ASSUME Reported, acc' = [acc EXCEPT !.lastReported = Len(acc.log)],
           \A i \in 1 .. Len(acc.log) : acc.log[i].id \in collected' \cup unheard'
    PROVE  Reported'
<1>1. /\ acc'.log = acc.log /\ acc'.lastReported = Len(acc.log)
      /\ acc' = [log |-> acc.log, lastReported |-> Len(acc.log), processed |-> acc.processed,
                 shadow |-> acc.shadow, body |-> acc.body]
    BY DEF Reported, Accumulates
<1>2. Len(acc.log) \in Nat
    BY DEF Reported, Accumulates, IsLog
<1> QED
    BY <1>1, <1>2 DEF Reported, Accumulates, ReportedWasCollected, IsLog

(* An entry that is not reported yet is among the unreported ones.         *)
LEMMA BeyondReported ==
    ASSUME Reported, NEW i \in 1 .. Len(acc.log), ~(i <= acc.lastReported)
    PROVE  acc.log[i] \in ToSet(Unreported)
<1> DEFINE n == acc.lastReported
           u == SubSeq(acc.log, n + 1, Len(acc.log))
<1>1. PICK X : acc.log \in Seq(X)
    BY DEF Reported, Accumulates, IsLog
<1>2. n \in Nat /\ n <= Len(acc.log) /\ Len(acc.log) \in Nat
    BY <1>1 DEF Reported
<1>3. /\ Len(u) = Len(acc.log) - n
      /\ \A k \in 1 .. Len(acc.log) - n : u[k] = acc.log[n + k]
      /\ DOMAIN u = 1 .. Len(acc.log) - n
    <2> HIDE DEF n
    <2>1. /\ n + 1 \in 1 .. Len(acc.log) + 1 /\ Len(acc.log) \in n + 1 - 1 .. Len(acc.log)
          /\ Len(acc.log) - (n + 1) + 1 = Len(acc.log) - n
          /\ \A k \in 1 .. Len(acc.log) - n : n + 1 + k - 1 = n + k
        BY <1>2
    <2>2. u \in Seq(X)
        BY <1>1, <1>2
    <2>3. /\ Len(u) = Len(acc.log) - (n + 1) + 1
          /\ \A k \in 1 .. Len(acc.log) - (n + 1) + 1 : u[k] = acc.log[n + 1 + k - 1]
        BY <1>1, <2>1, SubSeqProperties
    <2> HIDE DEF u
    <2>4. Len(u) = Len(acc.log) - n
        BY <2>1, <2>3
    <2>5. ASSUME NEW k \in 1 .. Len(acc.log) - n
          PROVE  u[k] = acc.log[n + k]
        <3>1. n + 1 + k - 1 = n + k
            BY <2>1
        <3>2. u[k] = acc.log[n + 1 + k - 1]
            BY <2>1, <2>3
        <3> QED
            BY <3>1, <3>2
    <2> QED
        BY <2>2, <2>4, <2>5
<1>4. i - n \in 1 .. Len(acc.log) - n /\ n + (i - n) = i
    BY <1>2
<1> HIDE DEF u, n
<1>5. u[i - n] = acc.log[i] /\ i - n \in DOMAIN u
    BY <1>3, <1>4
<1> QED
    BY <1>5 DEF Unreported, ToSet, u, n

(* An evaluation that took place marked the log, and told its entries or   *)
(* lost them; one that did not changed nothing.                            *)
LEMMA ReportsKeepsReported ==
    ASSUME Reported, NEW ids, Reports(ids),
           \A i \in 1 .. Len(acc.log) : ~(i <= acc.lastReported) => acc.log[i].id \in ids
    PROVE  Reported'
<1>1. CASE UNCHANGED <<acc, collected, unheard>>
    BY <1>1 DEF Reported, ReportedWasCollected, Accumulates, IsLog
<1>2. CASE ~UNCHANGED <<acc, collected, unheard>>
    <2>1. /\ acc' = [acc EXCEPT !.lastReported = Len(acc.log)]
          /\ collected \cup unheard \cup ids \subseteq collected' \cup unheard'
        BY <1>2 DEF Reports
    <2>2. ASSUME NEW i \in 1 .. Len(acc.log)
          PROVE  acc.log[i].id \in collected' \cup unheard'
        BY <2>1 DEF Reported, ReportedWasCollected
    <2> QED
        BY <2>1, <2>2, AllReported
<1> QED
    BY <1>1, <1>2

(* After an action all of the log is reported: it was reported before,     *)
(* happened in the action, or is older and not reported yet.               *)
LEMMA GetObservationsInv ==
    ASSUME ObservationsInv, NEW c \in ObsCalls, GetObservations(c)
    PROVE  ObservationsInv'
<1> DEFINE ids == {e.id : e \in DuringAction(looking[c].since)}
                      \cup {e.id : e \in {d \in ToSet(Unreported) : d.at < looking[c].since}}
<1>1. ASSUME Reported
      PROVE  Reported'
    <2>1. ASSUME NEW i \in 1 .. Len(acc.log), ~(i <= acc.lastReported)
          PROVE  acc.log[i].id \in ids
        <3>1. CASE acc.log[i].at >= looking[c].since
            <4>1. acc.log[i] \in ToSet(acc.log)
                BY <1>1 DEF ToSet, Reported, Accumulates, IsLog
            <4> QED
                BY <3>1, <4>1 DEF DuringAction
        <3>2. CASE ~(acc.log[i].at >= looking[c].since)
            <4>1. acc.log[i] \in ToSet(Unreported)
                BY <1>1, <2>1, BeyondReported
            <4>2. acc.log[i].at \in Nat /\ looking[c].since \in Nat
                BY <1>1 DEF Reported, Accumulates, ObservationsInv, LookType
            <4>3. acc.log[i].at < looking[c].since
                BY <3>2, <4>2
            <4> QED
                BY <4>1, <4>3
        <3> QED
            BY <3>1, <3>2
    <2>2. Reports(ids)
        BY DEF GetObservations
    <2> HIDE DEF ids
    <2> QED
        BY <1>1, <2>1, <2>2, ReportsKeepsReported
<1>2. /\ looking' \in [ObsCalls -> LookType] /\ now' = now /\ batch' = batch /\ trimmed' = trimmed
    BY DEF GetObservations, StepLook, ObservationsInv, LookType
<1> QED
    BY <1>1, <1>2 DEF ObservationsInv

(* A snapshot reports all that is not reported yet.                        *)
LEMMA GetAccumulatedInv ==
    ASSUME ObservationsInv, NEW c \in ObsCalls, GetAccumulatedObservations(c)
    PROVE  ObservationsInv'
<1>1. ASSUME Reported
      PROVE  Reported'
    <2>1. ASSUME NEW i \in 1 .. Len(acc.log), ~(i <= acc.lastReported)
          PROVE  acc.log[i].id \in Ids(Unreported)
        <3>1. PICK k \in DOMAIN Unreported : Unreported[k] = acc.log[i]
            BY <1>1, <2>1, BeyondReported DEF ToSet
        <3>2. DOMAIN Unreported = 1 .. Len(Unreported)
            <4>1. PICK X : acc.log \in Seq(X)
                BY <1>1 DEF Reported, Accumulates, IsLog
            <4>2. Unreported \in Seq(X)
                BY <1>1, <4>1 DEF Unreported, Reported
            <4> QED
                BY <4>2
        <3> QED
            BY <3>1, <3>2 DEF Ids
    <2>2. Reports(Ids(Unreported))
        BY DEF GetAccumulatedObservations
    <2> QED
        BY <1>1, <2>1, <2>2, ReportsKeepsReported
<1>2. /\ looking' \in [ObsCalls -> LookType] /\ now' = now /\ batch' = batch /\ trimmed' = trimmed
    BY DEF GetAccumulatedObservations, StepLook, ObservationsInv, LookType, NotLooking
<1> QED
    BY <1>1, <1>2 DEF ObservationsInv

(* Every step keeps the invariant.                                         *)
LEMMA ObservationsStepInv ==
    ObservationsInv /\ [ObservationsNext]_observationVars => ObservationsInv'
<1> SUFFICES ASSUME ObservationsInv, [ObservationsNext]_observationVars
             PROVE  ObservationsInv'
    OBVIOUS
<1> USE DEF Reported, ReportedWasCollected, Accumulates, IsLog
<1>1. CASE Callback
    BY <1>1, CallbackInv
<1>2. ASSUME NEW e \in Elements, AttachElement(e) \/ DetachElement(e) \/ Toggle(e) \/ ChangeText(e)
      PROVE  ObservationsInv'
    BY <1>2, MutatesInv DEF AttachElement, DetachElement, Toggle, ChangeText
<1>3. ASSUME NEW body, body \in {Null, "stale"}, Navigate(body)
      PROVE  ObservationsInv'
    <2>1. ASSUME Reported
          PROVE  Reported'
        <3>1. CASE acc' = Absent
            <4>1. Absent = [Absent EXCEPT !.shadow = Absent.shadow, !.body = Absent.body]
                BY DEF Absent
            <4>2. Accumulates(Absent) /\ Absent.lastReported = 0 /\ Len(Absent.log) = 0
                BY <4>1, EmptyIsReported
            <4> QED
                BY <3>1, <4>2
        <3>2. CASE acc' = [acc EXCEPT !.body = body]
            BY <1>3, <2>1, <3>2 DEF Navigate
        <3> QED
            BY <1>3, <3>1, <3>2 DEF Navigate
    <2> QED
        BY <1>3, <2>1 DEF Navigate, ObservationsInv
<1>4. CASE Tick
    BY <1>4 DEF Tick, ObservationsInv
<1>5. CASE InjectIntoPage
    BY <1>5, InstalledIsReported DEF InjectIntoPage, ObservationsInv
<1>6. ASSUME NEW c \in ObsCalls, StartAction(c)
      PROVE  ObservationsInv'
    BY <1>6 DEF StartAction, StepLook, ObservationsInv, LookType
<1>7. ASSUME NEW c \in ObsCalls, EnsureInjected(c)
      PROVE  ObservationsInv'
    <2>1. looking' \in [ObsCalls -> LookType] /\ now' = now /\ batch' = batch /\ trimmed' = trimmed
        BY <1>7 DEF EnsureInjected, StepLook, ObservationsInv, LookType
    <2>2. ASSUME Reported
          PROVE  Reported'
        <3>1. CASE acc' = Absent
            <4>1. Absent = [Absent EXCEPT !.shadow = Absent.shadow, !.body = Absent.body]
                BY DEF Absent
            <4>2. Accumulates(Absent) /\ Absent.lastReported = 0 /\ Len(Absent.log) = 0
                BY <4>1, EmptyIsReported
            <4> QED
                BY <3>1, <4>2
        <3>2. CASE acc' = acc
            BY <1>7, <2>2, <3>2 DEF EnsureInjected
        <3> QED
            BY <1>7, <3>1, <3>2 DEF EnsureInjected
    <2> QED
        BY <2>1, <2>2 DEF ObservationsInv
<1>8. ASSUME NEW c \in ObsCalls, Inject(c)
      PROVE  ObservationsInv'
    <2>1. looking' \in [ObsCalls -> LookType] /\ now' = now /\ batch' = batch /\ trimmed' = trimmed
        BY <1>8 DEF Inject, StepLook, ObservationsInv, LookType
    <2>2. ASSUME Reported
          PROVE  Reported'
        BY <1>8, <2>2, InstalledIsReported DEF Inject
    <2> QED
        BY <2>1, <2>2 DEF ObservationsInv
<1>9. ASSUME NEW c \in ObsCalls, GetObservations(c)
      PROVE  ObservationsInv'
    BY <1>9, GetObservationsInv
<1>10. ASSUME NEW c \in ObsCalls, GetAccumulatedObservations(c)
      PROVE  ObservationsInv'
    BY <1>10, GetAccumulatedInv
<1>11. ASSUME NEW c \in ObsCalls, EndLook(c)
      PROVE  ObservationsInv'
    BY <1>11 DEF EndLook, StepLook, ObservationsInv, LookType, NotLooking
<1>12. CASE UNCHANGED observationVars
    BY <1>12 DEF observationVars, ObservationsInv
<1> QED
    BY <1>1, <1>2, <1>3, <1>4, <1>5, <1>6, <1>7, <1>8, <1>9, <1>10, <1>11, <1>12
    DEF ObservationsNext

(* Until the log overflows, all it reports as reported was collected by a  *)
(* tool: CollectedBeforeOverflow, for any elements, any batches and any    *)
(* number of tools at once.                                                *)
THEOREM NothingIsMissed == Spec => []CollectedBeforeOverflow
<1>1. Init => ObservationsInv
    <2> SUFFICES ASSUME ObservationsInit PROVE ObservationsInv
        BY DEF Init
    <2>1. Injected = [Absent EXCEPT !.shadow = Injected.shadow, !.body = Injected.body]
        BY DEF Injected, Absent
    <2>2. Accumulates(Injected) /\ Injected.lastReported = 0 /\ Len(Injected.log) = 0
        BY <2>1, EmptyIsReported
    <2>3. Reported
        BY <2>2 DEF Reported, ReportedWasCollected, ObservationsInit
    <2>4. <<>> \in Seq(Mutation) /\ looking \in [ObsCalls -> LookType]
        BY DEF ObservationsInit, NotLooking, LookType
    <2> QED
        BY <2>3, <2>4 DEF ObservationsInv, ObservationsInit
<1>2. ObservationsInv /\ [Next]_vars => ObservationsInv'
    <2>1. [Next]_vars => [ObservationsNext]_observationVars
        BY DEF Next, vars, SurfacesStep, RegistryStep, NetworkStep, ObservationsStep,
               InputsStep, HealthStep
    <2> QED
        BY <2>1, ObservationsStepInv
<1>3. ObservationsInv => CollectedBeforeOverflow
    BY DEF ObservationsInv, Reported, CollectedBeforeOverflow
<1> QED
    BY <1>1, <1>2, <1>3, PTL DEF Spec

=============================================================================
