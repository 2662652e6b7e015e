-------------------------- MODULE MCRoutingRollout --------------------------
EXTENDS RoutingRollout, TLC

MCClients == <<"a", "b">>
MCValues == [d \in Docs |-> d]

\* Every document moves from cluster a to cluster b: the old policy has no
\* rule, the new one a rule for all values.
Whole == [old |-> [rules |-> <<>>, default |-> "default"],
          new |-> [rules |-> <<[values |-> Docs, priority |-> NoPriority, targets |-> {"b"}]>>,
                   default |-> "b"]]

\* One document moves and the others stay: the policies share a cluster.
Split == [old |-> [rules |-> <<>>, default |-> "default"],
          new |-> [rules |-> <<[values |-> {1}, priority |-> NoPriority, targets |-> {"b"}]>>,
                   default |-> "default"]]

\* One document moves alone, and the rest to a third cluster: repairs are sent
\* to both candidate clusters.
Three == <<"a", "b", "c">>
Sharded == [old |-> [rules |-> <<>>, default |-> "default"],
            new |-> [rules |-> <<[values |-> {1}, priority |-> NoPriority, targets |-> {"b"}]>>,
                     default |-> "c"]]

Symmetry == Permutations(Operators) \cup Permutations(Replicas)
=============================================================================
