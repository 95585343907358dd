--------------------------- MODULE ExclusiveLease ---------------------------
(***************************************************************************)
(* What a lease promises, without saying how it is kept: every resource    *)
(* has at most one holder, the holder keeps it for the time it was given   *)
(* unless it is given up or withdrawn, and a resource is never handed from *)
(* one holder to another without having been free in between.              *)
(*                                                                         *)
(* The lease managers of the code (src/src/worker/lease-manager.ts) are    *)
(* shown to implement this module through a refinement mapping.            *)
(***************************************************************************)
EXTENDS Naturals

CONSTANTS
    Resources,      \* what is leased
    Holders,        \* who may hold it
    Nobody          \* the holder of a free resource; not one of Holders

VARIABLES
    clock,          \* the time
    holder,         \* the holder of each resource, or Nobody
    until           \* the end of the current holding; 0 for a free resource

vars == <<clock, holder, until>>

Init ==
    /\ clock \in Nat
    /\ holder = [r \in Resources |-> Nobody]
    /\ until  = [r \in Resources |-> 0]

(* A free resource is taken, up to a moment that lies ahead.               *)
Take(r, h) ==
    /\ holder[r] = Nobody
    /\ until' = [until EXCEPT ![r] = until'[r]]
    /\ until'[r] > clock
    /\ holder' = [holder EXCEPT ![r] = h]
    /\ UNCHANGED clock

(* The holding of r gets a new end, which also lies ahead.                 *)
Extend(r) ==
    /\ holder[r] # Nobody
    /\ until' = [until EXCEPT ![r] = until'[r]]
    /\ until'[r] > clock
    /\ UNCHANGED <<clock, holder>>

(* The resources of R are given up or withdrawn before their end.          *)
Free(R) ==
    /\ holder' = [r \in Resources |-> IF r \in R THEN Nobody ELSE holder[r]]
    /\ until'  = [r \in Resources |-> IF r \in R THEN 0 ELSE until[r]]
    /\ UNCHANGED clock

(* Time passes; a resource becomes free exactly when its end is reached.   *)
Pass ==
    LET over(r) == until[r] <= clock'
    IN  /\ clock' = clock + 1
        /\ holder' = [r \in Resources |-> IF over(r) THEN Nobody ELSE holder[r]]
        /\ until'  = [r \in Resources |-> IF over(r) THEN 0 ELSE until[r]]

Next ==
    \/ \E r \in Resources, h \in Holders : Take(r, h)
    \/ \E r \in Resources : Extend(r)
    \/ \E R \in SUBSET Resources : Free(R)
    \/ Pass

Spec == Init /\ [][Next]_vars

=============================================================================
