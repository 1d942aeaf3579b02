-------------------------- MODULE MCResourceAdmission --------------------------
(* A small program and a large one share a lane, the large one and the       *)
(* expensive program of the other lane a matrix; both of these may be given  *)
(* recipes that never fit.                                                   *)
EXTENDS ResourceAdmission

MCLaneOf == [p \in 1..3 |-> IF p = 3 THEN "experimental" ELSE "benter"]
MCExpensive == {3}
MCArtifactOf == [p \in 1..3 |-> IF p = 1 THEN NoArtifact ELSE "matrix"]
MCTypical == [p \in 1..3 |-> IF p = 2 THEN 2 ELSE 1]
MCSuggested == [p \in 1..3 |-> CASE p = 1 -> {1, 2} [] p = 2 -> {2, 3} [] p = 3 -> {1, 3}]
=============================================================================
