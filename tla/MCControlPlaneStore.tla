------------------------ MODULE MCControlPlaneStore ------------------------
EXTENDS ControlPlaneStore, TLC

StoreSymmetry == Permutations(Writers) \cup Permutations(Dispatchers)
=============================================================================
