------------------------------- MODULE Values -------------------------------
(***************************************************************************)
(* The value that stands for null and undefined in the modules of the      *)
(* services of a page and of the pipelines over their data.                *)
(***************************************************************************)

Null == "none"

=============================================================================
