---------------------------- MODULE MCPageState ----------------------------
(* The instances of PageState that TLC checks.                             *)
EXTENDS PageState, TLC

(* All that is not told apart may be exchanged.                            *)
Symmetry ==
    Permutations(Calls) \cup Permutations(Nodes) \cup Permutations(Eids) \cup Permutations(Urls)

=============================================================================
