-------------------------- MODULE MCWorkerManager --------------------------
(* The instances of WorkerManager that TLC checks.                         *)
EXTENDS WorkerManager, TLC

(* Calls, workers, tenants and controllers are interchangeable.            *)
Symmetry ==
    Permutations(Calls) \cup Permutations(WorkerIds) \cup
    Permutations(Tenants) \cup Permutations(Controllers)

SafetySpec == Init /\ [][Next]_vars

=============================================================================
