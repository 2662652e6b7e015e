------------------------- MODULE MCIndexingPipeline -------------------------
(* Instances of the indexing pipeline for TLC.                             *)
EXTENDS IndexingPipeline, TLC

CONSTANTS p1, A, B

\* Every envelope the bounded log can produce.
MCEvents == {Payload(r) : r \in Mutations}

OneRoute  == {{A, B}}
Candidate == {{B}}
OnePartition == [i \in Idents |-> p1]

Symmetric == Permutations(Workers) \cup Permutations(Publishers)
                 \cup Permutations(Keys \ RepairKeys)

\* Workers that started with today's clusters, or before B was registered.
Current == {Registered}
Earlier == {Registered, {A}}
=============================================================================
