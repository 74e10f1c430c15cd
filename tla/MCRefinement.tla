---------------------------- MODULE MCRefinement ----------------------------
(* Small instances of Refinement: those of Lifecycle, with history. *)
EXTENDS MCLifecycle, Refinement
=============================================================================
