------------------------ MODULE MCPreparationCache ------------------------
(* Two processes and two artifacts of which the larger one outgrows the    *)
(* estimate, in a cache that holds either.                                 *)
EXTENDS PreparationCache

CONSTANTS small, large

MCSize == small :> 1 @@ large :> 2
=============================================================================
