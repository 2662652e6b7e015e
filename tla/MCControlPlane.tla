--------------------------- MODULE MCControlPlane ---------------------------
(* Instances of the control plane for TLC.                                 *)
EXTENDS ControlPlane, TLC

Symmetric == Permutations(Requests) \cup Permutations(Replicas)
=============================================================================
