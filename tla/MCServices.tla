----------------------------- MODULE MCServices -----------------------------
(***************************************************************************)
(* The services of a page, each checked alone: a behaviour is one of one   *)
(* service, the variables of the others keep their initial values.         *)
(***************************************************************************)
EXTENDS Surfaces, PageRegistry, Network, Observations, Inputs, HealthMonitor

VARIABLE service

MCElements == {"panel", "note", "host", "inner", "deep"}
MCParent ==
    [panel |-> "body", note |-> "panel", host |-> "panel", inner |-> "host", deep |-> "inner"]
MCHosted == {"inner", "deep"}
MCMarkup ==
    [panel |-> {}, note |-> {"hasAlertRole", "hasNonTrivialText"}, host |-> {},
     inner |-> {"isKnownToastLibrary"}, deep |-> {"hasNonTrivialText"}]
MCLooks == [e \in MCElements |-> IF e = "panel" THEN {"isFixedOrSticky"} ELSE {}]

vars == <<service, surfaceVars, registryVars, networkVars, observationVars, inputVars, healthVars>>

Init ==
    /\ service \in {"surfaces", "registry", "network", "observations", "inputs", "health"}
    /\ SurfacesInit
    /\ RegistryInit
    /\ NetworkInit
    /\ ObservationsInit
    /\ InputsInit
    /\ HealthInit

SurfacesStep ==
    /\ service = "surfaces"
    /\ SurfacesNext
    /\ UNCHANGED <<service, registryVars, networkVars, observationVars, inputVars, healthVars>>

RegistryStep ==
    /\ service = "registry"
    /\ RegistryNext
    /\ UNCHANGED <<service, surfaceVars, networkVars, observationVars, inputVars, healthVars>>

NetworkStep ==
    /\ service = "network"
    /\ NetworkNext
    /\ UNCHANGED <<service, surfaceVars, registryVars, observationVars, inputVars, healthVars>>

ObservationsStep ==
    /\ service = "observations"
    /\ ObservationsNext
    /\ UNCHANGED <<service, surfaceVars, registryVars, networkVars, inputVars, healthVars>>

InputsStep ==
    /\ service = "inputs"
    /\ InputsNext
    /\ UNCHANGED <<service, surfaceVars, registryVars, networkVars, observationVars, healthVars>>

HealthStep ==
    /\ service = "health"
    /\ HealthNext
    /\ UNCHANGED <<service, surfaceVars, registryVars, networkVars, observationVars, inputVars>>

Next ==
    \/ SurfacesStep
    \/ RegistryStep
    \/ NetworkStep
    \/ ObservationsStep
    \/ InputsStep
    \/ HealthStep

Spec == Init /\ [][Next]_vars

=============================================================================
