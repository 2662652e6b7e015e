------------------------ MODULE MCCheckpointScopes ------------------------
EXTENDS CheckpointScopes, TLC

\* Three events of one document, whose targets overlap and are listed in
\* different orders.
MCEvents == {[seq |-> 1, keys |-> <<1, 2>>],
             [seq |-> 2, keys |-> <<2, 1>>],
             [seq |-> 3, keys |-> <<2>>]}

Interchangeable == Permutations(Threads) \cup Permutations(Objects)
=============================================================================
