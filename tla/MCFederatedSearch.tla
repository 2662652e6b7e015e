------------------------- MODULE MCFederatedSearch -------------------------
EXTENDS FederatedSearch, TLC

ClusterSymmetry == Permutations(Clusters)
=============================================================================
