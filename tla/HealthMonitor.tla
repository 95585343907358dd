--------------------------- MODULE HealthMonitor ---------------------------
(***************************************************************************)
(* The health of the workers, asked over HTTP at intervals and on demand:  *)
(* src/src/worker/health-monitor.ts.  A check under way holds the state    *)
(* object it was started with, which may be unregistered, registered anew  *)
(* or reset before the answer comes.                                       *)
(***************************************************************************)
EXTENDS Integers, Sequences, FiniteSets, Functions, Values

CONSTANTS
    Watched,            \* worker ids
    Checks,             \* bound: checks under way at a time
    MaxStates,          \* bound: registrations
    FailureThreshold    \* consecutive failures that make it unhealthy

ASSUME ThresholdAssumption == FailureThreshold \in Nat

VARIABLES
    states,     \* every WorkerHealthState, in the order of registration
    watched,    \* workers: id -> index of its state, 0 without one
    ticking,    \* the interval is set
    checks,     \* check -> index of the state it holds, 0 when not under way
    failed      \* history: state -> failures in a row of the port it was registered with

healthVars == <<states, watched, ticking, checks, failed>>

HealthInit ==
    /\ states = <<>>
    /\ watched = [w \in Watched |-> 0]
    /\ ticking = FALSE
    /\ checks = [k \in Checks |-> 0]
    /\ failed = <<>>

Healthy(w) == [worker |-> w, healthy |-> TRUE, failures |-> 0]

RegisterWorker(w) ==
    /\ watched[w] = 0
    /\ Len(states) < MaxStates
    /\ states' = Append(states, Healthy(w))
    /\ failed' = Append(failed, 0)
    /\ watched' = [watched EXCEPT ![w] = Len(states) + 1]
    /\ UNCHANGED <<ticking, checks>>

UnregisterWorker(w) ==
    /\ watched[w] # 0
    /\ watched' = [watched EXCEPT ![w] = 0]
    /\ UNCHANGED <<states, ticking, checks, failed>>

(* clear.                                                                  *)
ClearWorkers ==
    /\ watched' = [w \in Watched |-> 0]
    /\ UNCHANGED <<states, ticking, checks, failed>>

ResetWorkerHealth(w) ==
    /\ watched[w] # 0
    /\ states' = [states EXCEPT ![watched[w]] = Healthy(w)]
    /\ failed' = [failed EXCEPT ![watched[w]] = 0]
    /\ UNCHANGED <<watched, ticking, checks>>

Registered == Range(watched) \ {0}

(* A check for each registered worker.                                     *)
StartsChecks(among) ==
    LET free == {k \in Checks : checks[k] = 0}
    IN  \E f \in Injection(among, free) :
            checks' = [k \in Checks |-> IF \E s \in among : f[s] = k
                                        THEN CHOOSE s \in among : f[s] = k ELSE checks[k]]

CheckAllWorkers ==
    /\ ticking
    /\ StartsChecks(Registered)
    /\ UNCHANGED <<states, watched, ticking, failed>>

Start ==
    /\ ~ticking
    /\ ticking' = TRUE
    /\ StartsChecks(Registered)
    /\ UNCHANGED <<states, watched, failed>>

(* The checks under way go on.                                             *)
Stop ==
    /\ ticking
    /\ ticking' = FALSE
    /\ UNCHANGED <<states, watched, checks, failed>>

CheckWorkerById(w) ==
    /\ watched[w] # 0
    /\ StartsChecks({watched[w]})
    /\ UNCHANGED <<states, watched, ticking, failed>>

(* The answer: a status that is not ok, an error and a timeout are alike.  *)
(* The healthChange event only makes the pool write a line of its log.     *)
Counted(state, ok) ==
    IF ok THEN Healthy(state.worker)
    ELSE LET reached == state.failures + 1 >= FailureThreshold
         IN  [worker |-> state.worker,
              healthy |-> IF reached THEN FALSE ELSE state.healthy,
              failures |-> IF state.failures < FailureThreshold
                           THEN state.failures + 1 ELSE state.failures]

Answered(s, ok) == states' = [states EXCEPT ![s] = Counted(@, ok)]

Checked_ByWorker(k, ok) ==
    LET s == watched[states[checks[k]].worker]
    IN  /\ checks[k] # 0
        /\ IF s = 0 THEN UNCHANGED states ELSE Answered(s, ok)
        /\ failed' = [failed EXCEPT ![checks[k]] =
                          IF ok THEN 0 ELSE IF @ < FailureThreshold THEN @ + 1 ELSE @]
        /\ checks' = [checks EXCEPT ![k] = 0]
        /\ UNCHANGED <<watched, ticking>>

Checked(k, ok) ==
    /\ checks[k] # 0
    /\ Answered(checks[k], ok)
    /\ failed' = [failed EXCEPT ![checks[k]] =
                      IF ok THEN 0 ELSE IF @ < FailureThreshold THEN @ + 1 ELSE @]
    /\ checks' = [checks EXCEPT ![k] = 0]
    /\ UNCHANGED <<watched, ticking>>

HealthNext ==
    \/ Start \/ Stop \/ ClearWorkers \/ CheckAllWorkers
    \/ \E w \in Watched : \/ RegisterWorker(w)
                          \/ UnregisterWorker(w)
                          \/ ResetWorkerHealth(w)
                          \/ CheckWorkerById(w)
    \/ \E k \in Checks, ok \in BOOLEAN : Checked(k, ok)

-----------------------------------------------------------------------------
HealthTypeOK ==
    /\ watched \in [Watched -> 0 .. Len(states)]
    /\ ticking \in BOOLEAN
    /\ checks \in [Checks -> 0 .. Len(states)]
    /\ \A s \in DOMAIN states : /\ states[s].worker \in Watched
                                /\ states[s].failures \in 0 .. FailureThreshold
    /\ \A w \in Watched : watched[w] # 0 => states[watched[w]].worker = w

(* A worker is marked unhealthy only by failures in a row of its own port, *)
(* not by the late answers of checks of a worker that had its id before.   *)
UnhealthyByItsOwnChecks ==
    \A s \in DOMAIN states : ~states[s].healthy => failed[s] = FailureThreshold

=============================================================================
