------------------------------ MODULE MCBrowser ------------------------------
(***************************************************************************)
(* What a session waits for: its browser, and the dialogs that block a page*)
(* of it.  Each is checked alone: a behaviour is one of one part, the      *)
(* variables of the other keep their initial values.                       *)
(***************************************************************************)
EXTENDS BrowserSession, Surfaces

VARIABLE part

(* The auto mode.                                                          *)
AutoChain == <<"user", "persistent", "isolated">>

mcVars == <<part, vars, surfaceVars>>

MCInit ==
    /\ part \in {"browser", "surfaces"}
    /\ Init
    /\ SurfacesInit

BrowserStep ==
    /\ part = "browser"
    /\ Next
    /\ UNCHANGED <<part, surfaceVars>>

SurfacesStep ==
    /\ part = "surfaces"
    /\ SurfacesNext
    /\ UNCHANGED <<part, vars>>

MCNext == BrowserStep \/ SurfacesStep

(* The events of the page arrive, the browser does as it is told if it is  *)
(* told again and again, and a call goes on; clients go on calling.        *)
SurfacesFairness ==
    /\ WF_surfaceVars(part = "surfaces" /\ Deliver)
    /\ \A a \in Actions :
          /\ SF_surfaceVars(part = "surfaces" /\ HandleDialog(a))
          /\ WF_surfaceVars(part = "surfaces" /\ Continues(a))
          /\ SF_surfaceVars(part = "surfaces" /\ Begin(a, "act"))

(* No step of the other part is enabled to be fair to in its initial state.*)
MCSpec == MCInit /\ [][MCNext]_mcVars /\ Fairness /\ SurfacesFairness

=============================================================================
