------------------------- MODULE MCFeatureExploration -------------------------
(***************************************************************************)
(* FeatureExploration for TLC: the planner proposes one definition the     *)
(* loop also finds by itself.                                              *)
(***************************************************************************)
EXTENDS FeatureExploration

CONSTANTS d1, d2

MCProposals == {{d2}}
=============================================================================
