---------------------------- MODULE MCEventStore ----------------------------
(* Instances of the event store for TLC.                                   *)
EXTENDS EventStore, TLC

CONSTANTS A, B

\* The target set of an accepted write, and the one of a repair.
MCRoutes == {{A, B}}

Symmetric == Permutations(Sessions)
=============================================================================
