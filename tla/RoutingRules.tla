---------------------------- MODULE RoutingRules ----------------------------
(***************************************************************************)
(* The evaluation of a routing policy (query_api/app/services/             *)
(* federation.py).  A policy is [rules |-> sequence, default |-> name].  A *)
(* rule is [values, priority, targets]: its field, operator and operands   *)
(* (equals, in, glob, range) come down to the set of field values that it  *)
(* matches.  A document is the value of that field.  clients is the        *)
(* sequence of the registered data clusters, in the order they were        *)
(* registered.                                                             *)
(***************************************************************************)
EXTENDS Integers, Sequences

CONSTANT NoPriority   \* a rule without a priority of its own

Names(clients) == {clients[i] : i \in DOMAIN clients}

\* _resolve_default_cluster.
DefaultCluster(clients) ==
    IF "default" \in Names(clients) THEN {"default"}
    ELSE IF "default-data-cluster" \in Names(clients) THEN {"default-data-cluster"}
    ELSE {clients[i] : i \in DOMAIN clients \cap {1}}

\* The clusters that a name stands for: none when it is not registered.
Resolved(name, clients) ==
    IF name = "default" THEN DefaultCluster(clients) ELSE {name} \cap Names(clients)

\* _targets_for_names: a name that does not resolve is left out.
TargetsFor(names, clients) == UNION {Resolved(n, clients) : n \in names}

RuleMatches(rule, value) == value \in rule.values

\* A rule without a priority takes its index, counted from zero.
Priority(rules, i) ==
    IF rules[i].priority = NoPriority THEN i - 1 ELSE rules[i].priority

\* Rule i is tried before rule j.
Before(rules, i, j) ==
    \/ Priority(rules, i) < Priority(rules, j)
    \/ Priority(rules, i) = Priority(rules, j) /\ i < j

\* The index of the rule that decides, as a set of at most one.
Deciding(rules, value) ==
    {i \in DOMAIN rules :
        /\ RuleMatches(rules[i], value)
        /\ \A j \in DOMAIN rules \ {i} :
              RuleMatches(rules[j], value) => Before(rules, i, j)}

\* _targets_for_policy_document: the targets of the deciding rule, or the
\* default when there is none.
RouteOf(policy, value, clients) ==
    IF Deciding(policy.rules, value) = {}
    THEN Resolved(policy.default, clients)
    ELSE UNION {TargetsFor(policy.rules[i].targets, clients) :
                   i \in Deciding(policy.rules, value)}

\* Every name a policy can route to.
Mentioned(policy) ==
    UNION {policy.rules[i].targets : i \in DOMAIN policy.rules} \cup {policy.default}

\* _cluster_names_for_search and _policy_clusters.
ClustersOf(policy, clients) == TargetsFor(Mentioned(policy), clients)

\* validate_routing_policy: every name resolves; a default that resolves to
\* nothing passes.
Valid(policy, clients) ==
    \A n \in Mentioned(policy) :
        Resolved(n, clients) # {} \/ (n = "default" /\ n = policy.default)
=============================================================================
