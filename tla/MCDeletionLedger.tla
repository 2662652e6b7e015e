-------------------------- MODULE MCDeletionLedger --------------------------
EXTENDS DeletionLedger, TLC

\* Every mutation goes to all targets.
Everywhere == {Targets}

\* A document moves from one target to another.
Either == {{t} : t \in Targets}

TargetSymmetry == Permutations(Targets)
=============================================================================
