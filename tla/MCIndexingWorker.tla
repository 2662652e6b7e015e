-------------------------- MODULE MCIndexingWorker --------------------------
(* Instances of the indexing worker for TLC.                               *)
EXTENDS IndexingWorker, TLC

CONSTANTS i1, A, B

\* Two mutations of one document in sequence, and an envelope that
\* contradicts both: a higher sequence with an old version.
E1 == [id |-> 1, ident |-> i1, seq |-> 1, version |-> 1, targets |-> {A, B}]
E2 == [id |-> 2, ident |-> i1, seq |-> 2, version |-> 2, targets |-> {A, B}]
E3 == [id |-> 3, ident |-> i1, seq |-> 2, version |-> 1, targets |-> {A}]

InSequence == {E1, E2}
Conflicting == {E1, E2, E3}

Symmetric == Permutations(Workers)

\* Workers that started with today's clusters, some or all of them before B was
\* registered.
Current == {Registered}
Earlier == {Registered, {A}}
Outdated == {{A}}
=============================================================================
