---------------------------- MODULE ControlPlane ----------------------------
(***************************************************************************)
(* The control plane of the Query API: replicas that serve the admin       *)
(* operations (query_api/app/routers/admin.py) on an in-memory federation  *)
(* runtime (services/federation.py), commit it with compare-and-swap to    *)
(* PostgreSQL (services/state_manager.py over                              *)
(* control_plane/postgres_store.py), and follow each other's commits by    *)
(* notification and by polling (services/config_sync.py, main.py).         *)
(*                                                                         *)
(* A handler reads the revision, copies the runtime for a roll-back,       *)
(* changes the runtime in place, commits what the runtime then holds, and  *)
(* only then tells the runtime its revision.  "async def" handlers and     *)
(* reloads run on the replica's event loop and meet each other only where  *)
(* they await; "def" handlers run on a thread pool, beside both.  Turns    *)
(* makes those take turns with the event loop as well.                     *)
(*                                                                         *)
(* A reload moves the replica's revision first and may then fail, at a     *)
(* cluster's secret or client: the old runtime stays under the new         *)
(* revision until the poll has loaded it, and a handler that runs          *)
(* meanwhile commits on that runtime.                                      *)
(*                                                                         *)
(* A request whose If-Match is not the replica's revision is answered 409  *)
(* before it does anything and is not a step here.                         *)
(***************************************************************************)
EXTENDS Integers, Sequences

CONSTANTS
    Replicas,    \* Query API processes
    Requests,    \* admin requests, each made once
    Clusters, Collections,
    Base,        \* the bootstrapped data cluster
    Kinds,       \* the operations the requests may ask for
    Turns,       \* thread-pool handlers do not overlap with other work
    Nil,
    MaxFaults    \* bound: crashes and failed calls

ASSUME BaseAssumption == Base \in Clusters
ASSUME NilAssumption == Nil \notin Clusters \cup Collections \cup Replicas \cup Requests
ASSUME TurnsAssumption == Turns \in BOOLEAN
ASSUME MaxFaultsAssumption == MaxFaults \in Nat

VARIABLES
    log,         \* the committed revisions, revision n at index n
    prov,        \* cluster -> collections the provider holds
    status,      \* replica -> "down", "boot" or "up"
    cur,         \* replica -> StateManager.current_revision
    run,         \* replica -> the federation runtime
    loaded,      \* replica -> configuration a reload has read, or Nil
    missed,      \* replica -> revisions it has read and failed to load
    pc,          \* request -> where its handler is
    at,          \* request -> the replica that handles it
    op,          \* request -> what it asks for
    exp,         \* request -> the revision its next commit expects
    snap,        \* request -> runtime to roll back to
    todo,        \* request -> clusters still to be called
    ans,         \* request -> its answer
    faults

memory    == <<status, cur, run, loaded, missed>>
handler   == <<pc, at, op, exp, snap, todo, ans>>
vars      == <<log, prov, memory, handler, faults>>

-----------------------------------------------------------------------------
(* Configurations and operations *)

Config == [clusters : SUBSET Clusters,
           schemas  : SUBSET Collections,
           route    : [Collections -> Clusters \cup {"none", "default", "disabled"}],
           alias    : [Clusters -> Collections \cup {Nil}]]

ASSUME NoConfigIsNil == Nil \notin Config

BaseConfig == [clusters |-> {Base},
               schemas  |-> {},
               route    |-> [k \in Collections |-> "none"],
               alias    |-> [c \in Clusters |-> Nil]]

Op(kind, c, k, g) == [kind |-> kind, cluster |-> c, coll |-> k, cfg |-> g]

\* What an administrator has saved: exports of the revisions so far.
Exports == {log[n].cfg : n \in 1..Len(log)}

\* What an administrator can ask for.
Operations ==
    {Op(kind, c, Nil, Nil) : kind \in {"register", "unregister", "unalias"}, c \in Clusters}
    \cup {Op(kind, Nil, k, Nil) : kind \in {"create", "tombstone", "unroute"}, k \in Collections}
    \cup {Op(kind, c, k, Nil) : kind \in {"alias", "route"}, c \in Clusters, k \in Collections}
    \cup {Op("import", Nil, Nil, g) : g \in Exports}
    \cup {Op("reconcile", Nil, Nil, Nil)}

\* "async def" handlers, run on the event loop.
OnLoop(o) == o.kind \in {"create", "tombstone", "finalize", "alias", "unalias"}

\* No routing rule names the cluster.
Unused(g, c) == \A k \in Collections : g.route[k] # c

\* Routes and aliases name registered clusters (_validate_import_snapshot).
Referenced(g) ==
    /\ \A k \in Collections : g.route[k] \in Clusters => g.route[k] \in g.clusters
    /\ \A c \in Clusters : g.alias[c] # Nil => c \in g.clusters

\* The handler's checks of the runtime let the operation through.
Admissible(g, o) ==
    /\ o.kind = "register" => o.cluster \notin g.clusters
    /\ o.kind \in {"unregister", "alias", "unalias", "route"} => o.cluster \in g.clusters
    /\ o.kind = "unregister" => Unused(g, o.cluster)
    /\ o.kind = "import" => Referenced(o.cfg)

\* The aliases of a deleted collection are dropped.
WithoutAliasesTo(g, k) == [c \in Clusters |-> IF g.alias[c] = k THEN Nil ELSE g.alias[c]]

\* What each operation makes of a configuration g.
Registered(g, c) == [g EXCEPT !.clusters = @ \cup {c}]

Unregistered(g, c) == [g EXCEPT !.clusters = @ \ {c}, !.alias[c] = Nil]

Created(g, k) ==
    [g EXCEPT !.schemas = @ \cup {k},
              !.route[k] = IF @ \in {"none", "disabled"} THEN "default" ELSE @]
Tombstoned(g, k) ==
    [g EXCEPT !.route[k] = "disabled", !.alias = WithoutAliasesTo(g, k)]
Aliased(g, c, k)   == [g EXCEPT !.alias[c] = k]
Unaliased(g, c)    == [g EXCEPT !.alias[c] = Nil]
Routed(g, k, c)    == [g EXCEPT !.route[k] = c]
Unrouted(g, k)     == [g EXCEPT !.route[k] = "default"]

\* The collection is gone from every provider; its tombstone stays.
Finalized(g, k) == [g EXCEPT !.schemas = @ \ {k}, !.alias = WithoutAliasesTo(g, k)]

Apply(g, o) ==
    CASE o.kind = "register"   -> Registered(g, o.cluster)
      [] o.kind = "unregister" -> Unregistered(g, o.cluster)
      [] o.kind = "create"     -> Created(g, o.coll)
      [] o.kind = "tombstone"  -> Tombstoned(g, o.coll)
      [] o.kind = "finalize"   -> Finalized(g, o.coll)
      [] o.kind = "alias"      -> Aliased(g, o.cluster, o.coll)
      [] o.kind = "unalias"    -> Unaliased(g, o.cluster)
      [] o.kind = "route"      -> Routed(g, o.coll, o.cluster)
      [] o.kind = "unroute"    -> Unrouted(g, o.coll)
      [] o.kind = "import"     -> o.cfg

\* The clusters an operation goes on to call once it is committed.
Targets(g, o) ==
    CASE o.kind \in {"create", "tombstone", "reconcile"} -> g.clusters
      [] o.kind \in {"register", "alias", "unalias"} -> {o.cluster}
      [] o.kind = "import"                           ->
            {c \in g.clusters : \E d \in Clusters : g.alias[d] # Nil}
      [] OTHER                                       -> {}

\* What a provider holds after the call.
Provided(held, g, o) ==
    CASE o.kind = "create"               -> held \cup {o.coll}
      [] o.kind = "tombstone"            -> held \ {o.coll}
      [] o.kind \in {"register", "import", "reconcile"} -> held \cup g.schemas
      [] OTHER                           -> held

\* set_routing_rules: the collection is in the desired state, or the first of
\* the clusters, whichever that is, is asked for it.
Found(g, k)   == k \in g.schemas \/ g.clusters = {} \/ \E c \in g.clusters : k \in prov[c]
Unfound(g, k) == k \notin g.schemas /\ \E c \in g.clusters : k \notin prov[c]

-----------------------------------------------------------------------------
(* An admin request *)

\* The handler is between its revision check and the end of its commit.
Working(q) == pc[q] \in {"checked", "mutated", "committed", "current"}

\* Nothing that runs on the event loop of r is in progress.
LoopFree(r) ==
    /\ loaded[r] = Nil
    /\ \A q \in Requests : Working(q) /\ at[q] = r => ~(Turns \/ OnLoop(op[q]))

Finish(q, a) ==
    /\ pc' = [pc EXCEPT ![q] = "done"]
    /\ ans' = [ans EXCEPT ![q] = a]

\* _expected_revision.
Begin(q, r, o) ==
    /\ pc[q] = "new"
    /\ status[r] = "up"
    /\ o.kind \in Kinds
    /\ Turns \/ OnLoop(o) => LoopFree(r)
    /\ pc' = [pc EXCEPT ![q] = "checked"]
    /\ at' = [at EXCEPT ![q] = r]
    /\ op' = [op EXCEPT ![q] = o]
    /\ exp' = [exp EXCEPT ![q] = cur[r]]
    /\ UNCHANGED <<log, prov, memory, snap, todo, ans, faults>>

\* The checks fail: 400, 404 or 409, and nothing has changed.
Refuse(q) ==
    LET g == run[at[q]].cfg IN
    /\ pc[q] = "checked"
    /\ \/ ~Admissible(g, op[q])
       \/ op[q].kind = "route" /\ Unfound(g, op[q].coll)
       \/ op[q].kind = "register"  \* a node of the cluster does not answer
    /\ Finish(q, "refused")
    /\ UNCHANGED <<log, prov, memory, at, op, exp, snap, todo, faults>>

\* There is nothing to commit: the schemas are applied again to every
\* cluster, or a deletion finds its tombstone.
Committable(g, o) ==
    /\ o.kind # "reconcile"
    /\ o.kind = "tombstone" => g.route[o.coll] # "disabled"

\* Such a request goes straight to the providers.
Resume(q) ==
    LET g == run[at[q]].cfg IN
    /\ pc[q] = "checked"
    /\ ~Committable(g, op[q])
    /\ pc' = [pc EXCEPT ![q] = "provider"]
    /\ todo' = [todo EXCEPT ![q] = Targets(g, op[q])]
    /\ UNCHANGED <<log, prov, memory, at, op, exp, snap, ans, faults>>

\* Variant: a deletion keeps the copy it made for its tombstone.
SnapshotStale(q) == IF op[q].kind = "finalize" THEN snap[q] ELSE run[at[q]]

\* _federation_runtime_snapshot.
Snapshot(q) == run[at[q]]

\* The runtime is copied and changed in place.  An import leaves it alone.
Mutate(q) ==
    LET r == at[q]
        g == run[r].cfg
    IN
    /\ pc[q] = "checked"
    /\ Admissible(g, op[q])
    /\ op[q].kind = "route" => Found(g, op[q].coll)
    /\ Committable(g, op[q])
    /\ pc' = [pc EXCEPT ![q] = "mutated"]
    /\ snap' = [snap EXCEPT ![q] = Snapshot(q)]
    /\ run' = IF op[q].kind = "import" THEN run
              ELSE [run EXCEPT ![r].cfg = Apply(g, op[q])]
    /\ UNCHANGED <<log, prov, status, cur, loaded, missed,
                   at, op, exp, todo, ans, faults>>

\* The state handed to save_state.
Payload(q) == IF op[q].kind = "import" THEN op[q].cfg ELSE run[at[q]].cfg

\* Variant: the runtime keeps what could not be committed.
RestoredNever(q) == run

\* _restore_federation_runtime.  An import has nothing to take back.
Restored(q) ==
    IF op[q].kind = "import" THEN run ELSE [run EXCEPT ![at[q]] = snap[q]]

\* Variant: UPDATE without the condition on the revision.
IsCurrentUnchecked(q) == TRUE

IsCurrent(q) == exp[q] = Len(log)

\* The transaction of PostgresControlPlaneStore.commit.  "on" is the revision
\* that the runtime had.
Committed(g, o, q, n) == log' = Append(log, [cfg |-> g, op |-> o, by |-> q, on |-> n])

Commit(q) ==
    /\ pc[q] = "mutated"
    /\ IsCurrent(q)
    /\ Committed(Payload(q), op[q], q, snap[q].rev)
    /\ pc' = [pc EXCEPT ![q] = "committed"]
    /\ UNCHANGED <<prov, memory, at, op, exp, snap, todo, ans, faults>>

\* StateConflictError: the runtime is rolled back, the answer is 409.
Conflict(q) ==
    /\ pc[q] = "mutated"
    /\ ~IsCurrent(q)
    /\ run' = Restored(q)
    /\ Finish(q, "conflict")
    /\ UNCHANGED <<log, prov, status, cur, loaded, missed,
                   at, op, exp, snap, todo, faults>>

\* save_state returns False: the commit failed, or it succeeded and the
\* answer of the database was lost.
CommitFails(q) ==
    /\ pc[q] = "mutated"
    /\ faults < MaxFaults /\ faults' = faults + 1
    /\ \/ UNCHANGED log
       \/ IsCurrent(q) /\ Committed(Payload(q), op[q], q, snap[q].rev)
    /\ run' = Restored(q)
    /\ Finish(q, "error")
    /\ UNCHANGED <<prov, status, cur, loaded, missed, at, op, exp, snap, todo>>

\* Variant: the outcome of save_state is not looked at.
SavedUnchecked(q) == pc[q] \in {"mutated", "committed"}

\* save_state has returned True.
Saved(q) == pc[q] = "committed"

NextRevision(q) == exp[q] + 1

\* StateManager.current_revision is set to the revision of the record.
SetCurrent(q) ==
    /\ Saved(q)
    /\ cur' = [cur EXCEPT ![at[q]] = NextRevision(q)]
    /\ pc' = [pc EXCEPT ![q] = "current"]
    /\ UNCHANGED <<log, prov, status, run, loaded, missed,
                   at, op, exp, snap, todo, ans, faults>>

\* mark_applied_revision raises when the runtime is already further.
MarkRaises(q) == op[q].kind # "import" /\ cur[at[q]] < run[at[q]].rev

\* An import has only committed its snapshot and loads it now.
Installed(q) == IF op[q].kind = "import" THEN op[q].cfg ELSE run[at[q]].cfg

\* The runtime gets the revision (an import: revision and configuration),
\* the other replicas are notified as far as Redis goes, and the calls to the
\* providers begin.
Install(q) ==
    LET r == at[q]
        g == Installed(q)
    IN
    /\ pc[q] = "current"
    /\ IF MarkRaises(q)
       THEN Finish(q, "error") /\ UNCHANGED <<run, exp, todo>>
       ELSE /\ run' = [run EXCEPT ![r] = [rev |-> cur[r], cfg |-> g]]
            /\ exp' = [exp EXCEPT ![q] = cur[r]]
            /\ pc' = [pc EXCEPT ![q] = "provider"]
            /\ todo' = [todo EXCEPT ![q] = Targets(g, op[q])]
            /\ UNCHANGED ans
    /\ UNCHANGED <<log, prov, status, cur, loaded, missed, at, op, snap, faults>>

\* The revision that the replica has come to cannot be loaded.
Miss(r) == missed' = [missed EXCEPT ![r] = @ \cup {cur[r]}]

\* An import cannot load what it has committed.
InstallFails(q) ==
    /\ pc[q] = "current" /\ op[q].kind = "import"
    /\ faults < MaxFaults /\ faults' = faults + 1
    /\ Miss(at[q])
    /\ Finish(q, "error")
    /\ UNCHANGED <<log, prov, status, cur, run, loaded, at, op, exp, snap, todo>>

CallProvider(q, c) ==
    /\ pc[q] = "provider"
    /\ c \in todo[q]
    /\ prov' = [prov EXCEPT ![c] = Provided(@, run[at[q]].cfg, op[q])]
    /\ todo' = [todo EXCEPT ![q] = @ \ {c}]
    /\ UNCHANGED <<log, memory, pc, at, op, exp, snap, ans, faults>>

\* reconcile_collection_schemas goes from cluster to cluster and stops at the
\* first failure; the other calls do not depend on each other.
AfterFailedCall(q, c) == IF op[q].kind \in {"import", "reconcile"} THEN {} ELSE todo[q] \ {c}

\* A call fails, with or without effect; the answer will be 500 or 503.
ProviderFails(q, c) ==
    /\ pc[q] = "provider"
    /\ c \in todo[q]
    /\ faults < MaxFaults /\ faults' = faults + 1
    /\ prov' \in {prov, [prov EXCEPT ![c] = Provided(@, run[at[q]].cfg, op[q])]}
    /\ todo' = [todo EXCEPT ![q] = AfterFailedCall(q, c)]
    /\ ans' = [ans EXCEPT ![q] = "pending"]
    /\ UNCHANGED <<log, memory, pc, at, op, exp, snap>>

\* A deletion goes on to its second commit, on the event loop.
Finalize(q) ==
    /\ pc[q] = "provider" /\ todo[q] = {}
    /\ op[q].kind = "tombstone" /\ ans[q] # "pending"
    /\ LoopFree(at[q])
    /\ pc' = [pc EXCEPT ![q] = "checked"]
    /\ op' = [op EXCEPT ![q].kind = "finalize"]
    /\ UNCHANGED <<log, prov, memory, at, exp, snap, todo, ans, faults>>

Answer(q) ==
    /\ pc[q] = "provider" /\ todo[q] = {}
    /\ op[q].kind = "tombstone" => ans[q] = "pending"
    /\ Finish(q, IF ans[q] = "pending" THEN "pending" ELSE "ok")
    /\ UNCHANGED <<log, prov, memory, at, op, exp, snap, todo, faults>>

-----------------------------------------------------------------------------
(* Replicas following the log *)

\* load_state: the revision is set before the runtime is replaced.
LoadState(r) ==
    /\ cur' = [cur EXCEPT ![r] = Len(log)]
    /\ loaded' = [loaded EXCEPT ![r] = log[Len(log)].cfg]

\* Variant: a difference of one is let pass.
BehindByTwo(r) == Len(log) > run[r].rev + 1

Behind(r) == Len(log) > run[r].rev

\* _listen_for_updates has a notification of another replica, or
\* _reconcile_revisions has polled the head: the state is newer than the
\* runtime.  (A poll that compares a local revision the replica has passed in
\* the meantime reloads what it serves already.)
Reload(r) ==
    /\ status[r] = "up" /\ LoopFree(r)
    /\ Behind(r)
    /\ LoadState(r)
    /\ UNCHANGED <<log, prov, status, run, missed, handler, faults>>

\* load_state or load_from_state raises: a secret is not allowed or a client
\* cannot be built.  The runtime stays, and so does the new revision.
LoadFails(r) ==
    /\ loaded[r] # Nil
    /\ faults < MaxFaults /\ faults' = faults + 1
    /\ loaded' = [loaded EXCEPT ![r] = Nil]
    /\ Miss(r)
    /\ UNCHANGED <<log, prov, status, cur, run, handler>>

\* load_from_state: one pointer swap, at what is then the current revision.
Swap(r) ==
    /\ loaded[r] # Nil
    /\ run' = [run EXCEPT ![r] = [rev |-> cur[r], cfg |-> loaded[r]]]
    /\ loaded' = [loaded EXCEPT ![r] = Nil]
    /\ UNCHANGED <<log, prov, status, cur, missed, handler, faults>>

Serve(r, n, g) ==
    /\ status' = [status EXCEPT ![r] = "up"]
    /\ cur' = [cur EXCEPT ![r] = n]
    /\ run' = [run EXCEPT ![r] = [rev |-> n, cfg |-> g]]

\* lifespan: load the state, or find none and prepare the default one.
Start(r) ==
    /\ status[r] = "down"
    /\ IF log = <<>> THEN /\ status' = [status EXCEPT ![r] = "boot"]
                         /\ UNCHANGED <<cur, run>>
       ELSE Serve(r, Len(log), log[Len(log)].cfg)
    /\ UNCHANGED <<log, prov, loaded, missed, handler, faults>>

\* The default state is committed as revision 1, or another replica was
\* first and this one fails to start.
Bootstrap(r) ==
    /\ status[r] = "boot"
    /\ IF log = <<>> THEN /\ Committed(BaseConfig, Op("import", Nil, Nil, BaseConfig), Nil, 0)
                         /\ Serve(r, 1, BaseConfig)
       ELSE /\ status' = [status EXCEPT ![r] = "down"]
            /\ UNCHANGED <<log, cur, run>>
    /\ UNCHANGED <<prov, loaded, missed, handler, faults>>

\* The process ends, and the requests it handles with it.
Crash(r) ==
    LET lost == {q \in Requests : at[q] = r /\ pc[q] \notin {"new", "done"}} IN
    /\ status[r] = "up"
    /\ faults < MaxFaults /\ faults' = faults + 1
    /\ status' = [status EXCEPT ![r] = "down"]
    /\ cur' = [cur EXCEPT ![r] = 0]
    /\ run' = [run EXCEPT ![r] = [rev |-> 0, cfg |-> BaseConfig]]
    /\ loaded' = [loaded EXCEPT ![r] = Nil]
    /\ pc' = [q \in Requests |-> IF q \in lost THEN "done" ELSE pc[q]]
    /\ ans' = [q \in Requests |-> IF q \in lost THEN "lost" ELSE ans[q]]
    /\ UNCHANGED <<log, prov, missed, at, op, exp, snap, todo>>

-----------------------------------------------------------------------------

Init ==
    /\ log = <<>> /\ faults = 0
    /\ prov = [c \in Clusters |-> {}]
    /\ status = [r \in Replicas |-> "down"]
    /\ cur = [r \in Replicas |-> 0]
    /\ run = [r \in Replicas |-> [rev |-> 0, cfg |-> BaseConfig]]
    /\ loaded = [r \in Replicas |-> Nil]
    /\ missed = [r \in Replicas |-> {}]
    /\ pc = [q \in Requests |-> "new"]
    /\ at = [q \in Requests |-> Nil]
    /\ op = [q \in Requests |-> Op("import", Nil, Nil, BaseConfig)]
    /\ exp = [q \in Requests |-> 0]
    /\ snap = [q \in Requests |-> [rev |-> 0, cfg |-> BaseConfig]]
    /\ todo = [q \in Requests |-> {}]
    /\ ans = [q \in Requests |-> "none"]

\* The steps of a handler, once the request is in.
Handle(q) ==
    \/ Refuse(q) \/ Resume(q) \/ Mutate(q)
    \/ Commit(q) \/ Conflict(q) \/ SetCurrent(q) \/ Install(q)
    \/ Finalize(q) \/ Answer(q)
    \/ \E c \in Clusters : CallProvider(q, c)

\* The steps of a replica on its own.
Follow(r) ==
    Reload(r) \/ Swap(r) \/ Start(r) \/ Bootstrap(r)

Fault ==
    \/ \E q \in Requests : CommitFails(q) \/ InstallFails(q)
    \/ \E q \in Requests, c \in Clusters : ProviderFails(q, c)
    \/ \E r \in Replicas : LoadFails(r) \/ Crash(r)

Next ==
    \/ \E q \in Requests, r \in Replicas : \E o \in Operations : Begin(q, r, o)
    \/ \E q \in Requests : Handle(q)
    \/ \E r \in Replicas : Follow(r)
    \/ Fault

Spec == Init /\ [][Next]_vars

\* The poll and the reload are a loop of the process and handlers run to
\* their end; a replica that is down is started again.
Fairness ==
    /\ \A q \in Requests : WF_vars(Handle(q))
    /\ \A r \in Replicas : WF_vars(Follow(r))

LiveSpec == Spec /\ Fairness

-----------------------------------------------------------------------------
(* Properties *)

Runtime == [rev : Nat, cfg : Config]

Operation == [kind : {"register", "unregister", "create", "tombstone", "finalize",
                      "alias", "unalias", "route", "unroute", "import", "reconcile"},
              cluster : Clusters \cup {Nil}, coll : Collections \cup {Nil},
              cfg : Config \cup {Nil}]

\* Every part of the state has its type; no replica and no
\* request knows a revision that does not exist.
TypeOK ==
    /\ log \in Seq([cfg : Config, op : Operation, by : Requests \cup {Nil}, on : Nat])
    /\ prov \in [Clusters -> SUBSET Collections]
    /\ status \in [Replicas -> {"down", "boot", "up"}]
    /\ cur \in [Replicas -> 0..Len(log)]
    /\ run \in [Replicas -> Runtime]
    /\ loaded \in [Replicas -> Config \cup {Nil}]
    /\ missed \in [Replicas -> SUBSET (1..Len(log))]
    /\ pc \in [Requests -> {"new", "checked", "mutated", "committed", "current",
                            "provider", "done"}]
    /\ at \in [Requests -> Replicas \cup {Nil}]
    /\ op \in [Requests -> Operation]
    /\ exp \in [Requests -> 0..Len(log)]
    /\ snap \in [Requests -> Runtime]
    /\ todo \in [Requests -> SUBSET Clusters]
    /\ ans \in [Requests -> {"none", "ok", "pending", "refused", "conflict", "error", "lost"}]
    /\ faults \in 0..MaxFaults

\* Every revision is an earlier one, complete, with exactly the change of the
\* request that committed it, checked against that earlier one: no commit
\* carries along what was not committed, or part of a revision.  The earlier
\* one is the revision before it: no commit drops the change of another one (a
\* lost update), unless its replica has read that revision and failed to load
\* it, in which case the compare-and-swap lets the old runtime pass.
OneChangePerRevision ==
    \A n \in 2..Len(log) :
        LET m == log[n].on IN
        /\ m \in 1..n-1
        /\ Admissible(log[m].cfg, log[n].op)
        /\ log[n].cfg = Apply(log[m].cfg, log[n].op)
        /\ m = n-1 \/ n-1 \in missed[at[log[n].by]]

\* No reload and no commit is under way on the replica.
Quiet(r) ==
    /\ status[r] = "up" /\ loaded[r] = Nil
    /\ \A q \in Requests : Working(q) => at[q] # r

\* Between operations a replica serves exactly the revision it says it
\* applied: roll-backs, reloads and imports never leave it with another
\* configuration under that number.
RuntimeMatchesRevision ==
    \A r \in Replicas : Quiet(r) =>
        /\ run[r].rev \in 1..Len(log)
        /\ run[r].cfg = log[run[r].rev].cfg

\* No committed configuration routes to, or has an alias on, a cluster that
\* is not registered, whichever replicas registered, removed and routed.
ReferencesResolve == \A n \in 1..Len(log) : Referenced(log[n].cfg)

\* A tombstone stays until the collection is created again or a snapshot is
\* imported: no other change makes the collection visible.
TombstoneKept ==
    \A n \in 2..Len(log), k \in Collections :
        log[n-1].cfg.route[k] = "disabled" /\ log[n].op.kind \notin {"create", "import"}
            => log[n].cfg.route[k] = "disabled"

\* An answer tells the truth about the log: success means that the change is
\* committed, and refusal that no change of the request is.
AnswersAgree ==
    \A q \in Requests :
        LET mine == {n \in 1..Len(log) : log[n].by = q} IN
        /\ ans[q] = "ok" /\ op[q].kind # "reconcile" => \E n \in mine : log[n].op = op[q]
        /\ ans[q] = "refused" => mine = {}
        /\ ans[q] = "conflict" => \A n \in mine : log[n].op.kind = "tombstone"

\* While a process runs, the revision it serves never goes back.
AppliedAdvances ==
    [][\A r \in Replicas : status[r] = "up" /\ status'[r] = "up"
            => run'[r].rev >= run[r].rev]_vars

\* Every replica ends up serving the newest revision, whatever notifications
\* are lost, and whichever processes restart.
Converges ==
    <>[](\A r \in Replicas :
            status[r] = "up" /\ run[r] = [rev |-> Len(log), cfg |-> log[Len(log)].cfg])

-----------------------------------------------------------------------------
(* What the documentation says and the code does not keep. *)

\* Every revision carries all that the revision before it has (docs/README.md:
\* "compare-and-swap so two operators cannot silently overwrite one another").
NoLostUpdate == \A n \in 2..Len(log) : log[n].on = n-1

\* A request that is answered with a conflict has changed nothing
\* (docs/adr/0003: "A stale operator receives 409 and no side effect").
ConflictLeavesNothing ==
    \A q \in Requests : ans[q] = "conflict" =>
        \A n \in 1..Len(log) : log[n].by # q

\* A provider's copy of a collection is deleted only once every replica has
\* stopped routing to the collection, as delete_collection's comment has it.
\* (A replica at the newest revision may serve a later create.)
RoutingStopsFirst ==
    [][\A c \in Clusters, k \in Collections :
            k \in prov[c] /\ k \notin prov'[c] =>
                \A r \in Replicas :
                    status[r] = "up" => \/ run[r].cfg.route[k] = "disabled"
                                        \/ run[r].rev = Len(log)]_vars

\* A create that was answered with success, and that nothing has come after,
\* has its collection on every cluster ("The schema is applied to all
\* registered clusters").
CreatedEverywhere ==
    \A q \in Requests :
        /\ ans[q] = "ok" /\ op[q].kind = "create"
        /\ log[Len(log)].by = q
        /\ \A p \in Requests : pc[p] \in {"new", "done"}
        => \A c \in log[Len(log)].cfg.clusters : op[q].coll \in prov[c]

\* A collection whose deletion was answered with success, and that nothing
\* has asked for since, is on no cluster ("Delete a collection from all
\* federated clusters").
DeletedEverywhere ==
    \A q \in Requests :
        /\ ans[q] = "ok" /\ op[q].kind = "finalize"
        /\ log[Len(log)].by = q
        => \A c \in log[Len(log)].cfg.clusters : op[q].coll \notin prov[c]

\* The cluster that documents of the collection are sent to by default.
DefaultOf(g) == IF Base \in g.clusters THEN {Base} ELSE g.clusters

\* A cluster is removed only when no routing leads to it, directly or as the
\* resolution of the default ("must not be in use by any routing rules").
RoutedClusterKept ==
    \A n \in 2..Len(log) : log[n].op.kind = "unregister" =>
        \A k \in Collections :
            /\ log[n-1].cfg.route[k] # log[n].op.cluster
            /\ log[n-1].cfg.route[k] = "default" =>
                    DefaultOf(log[n-1].cfg) # {log[n].op.cluster}
=============================================================================
