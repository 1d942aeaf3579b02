---------------------------- MODULE MCTrialLedger ----------------------------
(***************************************************************************)
(* Small instances of TrialLedger.  Two programs share a recipe space, so  *)
(* that one study can suggest what the other already holds.                *)
(***************************************************************************)
EXTENDS TrialLedger, TLC

Symmetry == Permutations(Programs) \cup Permutations(Recipes)
=============================================================================
