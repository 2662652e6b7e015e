--------------------------- MODULE MCDeadLetters ---------------------------
EXTENDS DeadLetters, TLC

\* The first and the last event are of one document.
MCIdentOf == <<"x", "y", "x">>
MCKindOf == <<"valid", "invalid", "valid">>

OperatorSymmetry == Permutations(Operators)
=============================================================================
