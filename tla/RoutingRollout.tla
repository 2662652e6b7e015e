--------------------------- MODULE RoutingRollout ---------------------------
(***************************************************************************)
(* A routing rollout: the change of a collection's placement from one      *)
(* policy to another while documents are written                           *)
(* (query_api/app/domain/routing_rollout.py, the rollout handlers of       *)
(* routers/admin.py, services/routing_migration.py, and the evidence of    *)
(* services/kafka_operations.py).                                          *)
(*                                                                         *)
(* Around the rollout record there are the replicas, which route by the    *)
(* record they have loaded, the event log with its outbox and topic, and   *)
(* the providers.  A worker handles an event in one step here; the steps   *)
(* of a worker are the subject of IndexingWorker.                          *)
(*                                                                         *)
(* The code leaves some of the order of things to the operator and to      *)
(* luck.  Lapses names what is not guaranteed to go well:                  *)
(*   "unsettled"    the source barrier is taken while a mutation that was  *)
(*                  routed before dual-write is not yet indexed;           *)
(*   "stale"        the next phase is requested while a replica still      *)
(*                  routes by an earlier one;                              *)
(*   "overtaken"    a repair is published while an older event of its      *)
(*                  document is not yet indexed;                           *)
(*   "late"         an import of a handler that has lost its revision;     *)
(*   "early"        a mutation is routed to fewer clusters by a record     *)
(*                  that is in the runtime and not yet committed;          *)
(*   "stranded"     a replica keeps its record under a newer revision: its *)
(*                  reload fails after the revision is set, a handler      *)
(*                  begins between the two, or handlers that overlap give  *)
(*                  back each other's runtime (ControlPlane).              *)
(***************************************************************************)
EXTENDS RoutingRules, FiniteSets, FiniteSetsExt, Functions

CONSTANTS
    Docs,        \* document ids, 1 .. n
    Values,      \* document -> value of the field that rules look at
    Clients,     \* the registered data clusters
    Policies,    \* "old" and "new" -> routing policy
    Historic,    \* documents that an earlier policy placed elsewhere
    Replicas,    \* Query API processes
    Operators,   \* admin requests at a time
    Lapses,
    Nil,
    MaxDocuments,  \* max_documents of a backfill step
    MaxLag,        \* ROUTING_CUTOVER_MAX_KAFKA_LAG
    MaxLog,        \* bound: mutations after the first ones
    MaxVersion,    \* bound: rollout versions
    MaxFaults      \* bound: failed calls, dead letters and other operations

Clusters == Names(Clients)

LapseNames == {"unsettled", "stale", "overtaken", "late", "early", "stranded"}

ASSUME DocsAssumption == IsFiniteSet(Docs) /\ Docs = 1 .. Cardinality(Docs)
ASSUME PoliciesAssumption == \A p \in {"old", "new"} : Valid(Policies[p], Clients)
ASSUME NilAssumption == Nil \notin Int \X Int \X Docs
ASSUME LapsesAssumption == Lapses \subseteq LapseNames
ASSUME BoundsAssumption ==
    /\ MaxDocuments \in Nat \ {0}
    /\ {MaxLag, MaxLog, MaxVersion, MaxFaults} \subseteq Nat

VARIABLES
    log,         \* indexing events; the position of an event is its index
    pending,     \* positions not yet published from the outbox
    topic,       \* positions published and not yet handled
    dlq,         \* positions in the dead-letter topic
    store,       \* cluster -> document -> body it holds, 0 for none
    ckpt,        \* cluster -> document -> position of its checkpoint
    rec,         \* the committed rollout record
    rev,         \* the committed control-plane revision
    view,        \* replica -> the record in its runtime, or to be given back to it
    cur,         \* replica -> current_revision
    route,       \* a mutation that is routed and not yet recorded, or Nil
    job,         \* operator -> the handler in progress, or Nil
    window,      \* the rollback window has elapsed
    faults

events == <<log, pending, topic, dlq>>
data   == <<store, ckpt>>
config == <<rec, rev, view, cur>>
vars   == <<events, data, config, route, job, window, faults>>

-----------------------------------------------------------------------------
(* The record *)

Terminal == {"completed", "cancelled", "rolled_back"}

\* _ALLOWED_TRANSITIONS.
Allowed ==
    [draft        |-> {"validating", "cancelled"},
     validating   |-> {"dual_write", "failed", "cancelled"},
     dual_write   |-> {"backfill", "rolling_back", "failed"},
     backfill     |-> {"verifying", "rolling_back", "failed"},
     verifying    |-> {"backfill", "cutover", "rolling_back", "failed"},
     cutover      |-> {"drain", "rolling_back", "failed"},
     drain        |-> {"completed", "rolling_back", "failed"},
     failed       |-> {"rolling_back"},
     rolling_back |-> {"rolled_back", "failed"},
     completed    |-> {}, cancelled |-> {}, rolled_back |-> {},
     none         |-> {}]

\* No position: a checkpoint entry that is not there.
Unset == -1

\* The policies a replica reads from, and those it writes to.
ReadModes(v) ==
    CASE v.phase \in {"none", "draft", "validating", "cancelled", "rolled_back"} -> {v.from}
      [] v.phase \in {"cutover", "drain", "completed"} -> {v.to}
      [] OTHER -> {v.from, v.to}

\* Variant: after cutover the former placement is no longer written.
WriteModesCandidate(v) ==
    IF v.phase \in {"cutover", "drain"} THEN {v.to} ELSE ReadModes(v)

\* Variant: verification goes back to writing the former placement alone.
WriteModesVerifying(v) ==
    IF v.phase = "verifying" THEN {v.from}
    ELSE IF v.phase \in {"cutover", "drain"} THEN {v.from, v.to} ELSE ReadModes(v)

WriteModes(v) ==
    IF v.phase \in {"cutover", "drain"} THEN {v.from, v.to} ELSE ReadModes(v)

\* Where a policy places a document.
Placements == [p \in {"old", "new"}, d \in Docs |-> RouteOf(Policies[p], Values[d], Clients)]
Placement(p, d) == Placements[p, d]

\* Every cluster that a policy can place a document on.
Coverage == [p \in {"old", "new"} |-> ClustersOf(Policies[p], Clients)]
PolicyClusters(p) == Coverage[p]

\* The clusters a replica's search asks: without a rollout and without rules
\* every cluster, as it may hold historical copies.
SearchClusters(v) ==
    IF v.phase = "none" /\ Policies[v.from].rules = <<>> THEN Clusters
    ELSE UNION {PolicyClusters(p) : p \in ReadModes(v)}

\* get_indexing_route: one target set from one snapshot of the runtime.
WriteTargets(v, d) == UNION {Placement(p, d) : p \in WriteModes(v)}

\* The gates of a transition; ev is the evidence measured for it.
GatesPass(v, goal, ev) ==
    /\ goal = "verifying" => v.complete /\ v.barrier # Unset
    /\ goal = "cutover" => v.parity
    /\ goal = "completed" => window
    /\ goal \in {"cutover", "completed"} => ev.dlq = 0 /\ ev.lag <= MaxLag

Draft(v) ==
    [id |-> v.id + 1, phase |-> "draft", ver |-> v.ver + 1,
     from |-> IF v.phase = "completed" THEN v.to ELSE v.from,
     to |-> IF v.phase = "completed" THEN v.from ELSE v.to,
     barrier |-> Unset, last |-> 0, raw |-> FALSE,
     through |-> Unset, cursor |-> Unset, repaired |-> FALSE,
     complete |-> FALSE, parity |-> FALSE]

Moved(v, goal) == [v EXCEPT !.phase = goal, !.ver = @ + 1]

\* record_backfill_progress.
Backfilled(v) ==
    [v EXCEPT !.complete = v.raw /\ v.repaired, !.parity = FALSE, !.ver = @ + 1]

\* record_parity_evidence.
Verified(v, passed) == [v EXCEPT !.parity = passed, !.ver = @ + 1]

-----------------------------------------------------------------------------
(* Documents on their way to the providers *)

\* The newest event of a document, 0 when there is none.
Newest(d) == Max({0} \cup {p \in DOMAIN log : log[p].doc = d})

Event(d, body, T, rep) == [doc |-> d, body |-> body, targets |-> T, repair |-> rep]

Record(e) ==
    /\ log' = Append(log, e)
    /\ pending' = pending \cup {Len(log) + 1}

\* The handler whose record is in the runtime of replica r and not committed.
Installing(r) == {o \in Operators : job[o] # Nil /\ job[o].at = r /\ job[o].step = "commit"}
Free(r) == Installing(r) = {}

\* _rollout_for_collection, when record w is installed beside v: one that has
\* ended does not displace another that has not.
Shown(v, w) ==
    IF w.phase \in Terminal /\ v.phase \notin Terminal \cup {"none"} /\ v.id # w.id
    THEN v ELSE w

\* The record that replica r routes and searches by.
Runtime(r) ==
    IF Free(r) THEN view[r] ELSE Shown(view[r], job[CHOOSE o \in Installing(r) : TRUE].rec)

\* A replica routes a mutation; a deletion goes to every cluster.
Route(r, d, gone) ==
    /\ route = Nil
    /\ Cardinality({p \in DOMAIN log : log[p].repair = Nil}) < Cardinality(Docs) + MaxLog
    /\ "early" \in Lapses \/ WriteTargets(view[r], d) \subseteq WriteTargets(Runtime(r), d)
    /\ route' = [doc |-> d, gone |-> gone,
                 targets |-> IF gone THEN Clusters ELSE WriteTargets(Runtime(r), d)]
    /\ UNCHANGED <<events, data, config, job, window, faults>>

\* The mutation is recorded in the event store.
Accept ==
    /\ route # Nil
    /\ Record(Event(route.doc, IF route.gone THEN 0 ELSE Len(log) + 1,
                    route.targets, Nil))
    /\ route' = Nil
    /\ UNCHANGED <<topic, dlq, data, config, job, window, faults>>

\* By the request thread or, later, by the outbox dispatcher.
Publish(p) ==
    /\ pending' = pending \ {p}
    /\ topic' = Append(topic, p)
    /\ UNCHANGED <<log, dlq, data, config, route, job, window, faults>>

\* An event is written to none of its targets when one is ahead of it.
Superseded(p) == \E c \in log[p].targets : ckpt[c][log[p].doc] > p

Written(p, T) ==
    [c \in Clusters |-> IF c \in T THEN [store[c] EXCEPT ![log[p].doc] = log[p].body]
                                   ELSE store[c]]

Checked(p, T) ==
    [c \in Clusters |-> IF c \in T THEN [ckpt[c] EXCEPT ![log[p].doc] = p] ELSE ckpt[c]]

Index ==
    LET p == Head(topic)
        T == IF Superseded(p) THEN {} ELSE log[p].targets
    IN
    /\ topic # <<>>
    /\ topic' = Tail(topic)
    /\ store' = Written(p, T)
    /\ ckpt' = Checked(p, T)
    /\ UNCHANGED <<log, pending, dlq, config, route, job, window, faults>>

\* The attempts at the event are used up, with some of its targets written.
DeadLetter ==
    LET p == Head(topic) IN
    /\ topic # <<>>
    /\ faults < MaxFaults
    /\ faults' = faults + 1
    /\ topic' = Tail(topic)
    /\ dlq' = dlq \cup {p}
    /\ \E T \in SUBSET log[p].targets :
          /\ T # log[p].targets
          /\ Superseded(p) => T = {}
          /\ store' = Written(p, T)
          /\ ckpt' = Checked(p, T)
    /\ UNCHANGED <<log, pending, config, route, job, window>>

\* The dead-letter resolver sends the event again.
Replay(p) ==
    /\ dlq' = dlq \ {p}
    /\ topic' = Append(topic, p)
    /\ UNCHANGED <<log, pending, data, config, route, job, window, faults>>

\* A replica reloads the committed state, between two commits of its own.
\* load_state moves current_revision; a stranded replica keeps its runtime.
Reload(r) ==
    /\ Free(r)
    /\ view[r] # rec \/ cur[r] # rev
    /\ \E v \in {rec} \cup (IF "stranded" \in Lapses THEN {view[r]} ELSE {}) :
          view' = [view EXCEPT ![r] = v]
    /\ cur' = [cur EXCEPT ![r] = rev]
    /\ UNCHANGED <<events, data, rec, rev, route, job, window, faults>>

\* Another operation of the control plane commits the runtime it finds.
Administer(r) ==
    /\ Free(r)
    /\ cur[r] = rev
    /\ faults < MaxFaults
    /\ faults' = faults + 1
    /\ rec' = view[r]
    /\ rev' = rev + 1
    /\ cur' = [cur EXCEPT ![r] = rev + 1]
    /\ UNCHANGED <<events, data, view, route, job, window>>

\* The rollback window of the cutover elapses.
Elapse ==
    /\ ~window
    /\ rec.phase \in {"cutover", "drain"}
    /\ window' = TRUE
    /\ UNCHANGED <<events, data, config, route, job, faults>>

-----------------------------------------------------------------------------
(* The handlers.  A job is [at |-> replica, exp |-> the revision and       *)
(* rec |-> the record it read, step |-> what it does next, ...].  Where    *)
(* the new record is worked out it is installed in the runtime of the      *)
(* replica, and step is "commit".                                          *)

Handle(o, j) ==
    /\ job' = [job EXCEPT ![o] = j]
    /\ UNCHANGED <<events, data, config, route, window, faults>>

Job(r, step, v) == [at |-> r, step |-> step, exp |-> cur[r], rec |-> v]

\* A job that has worked something more out.
With(j, more) ==
    [x \in DOMAIN j \cup DOMAIN more |-> IF x \in DOMAIN j THEN j[x] ELSE more[x]]

\* A request of operator o begins at replica r, between two commits there.
Begins(o, r) == job[o] = Nil /\ Free(r) /\ rec.ver < MaxVersion

\* Every replica routes by the committed phase.
AllLoaded == \A r \in Replicas : view[r].phase = rec.phase

\* create_routing_rollout.
Create(o, r) ==
    /\ Begins(o, r)
    /\ view[r].phase \in Terminal \cup {"none"}
    /\ Handle(o, Job(r, "commit", Draft(view[r])))

\* transition_routing_rollout: cutover and completion measure lag first.
Transition(o, r, goal) ==
    /\ goal \in Allowed[view[r].phase]
    /\ Begins(o, r)
    /\ "stale" \in Lapses \/ AllLoaded
    /\ \/ /\ goal \in {"cutover", "completed"}
          /\ Handle(o, With(Job(r, "lag", view[r]), [goal |-> goal]))
       \/ /\ goal \notin {"cutover", "completed"}
          /\ GatesPass(view[r], goal, Nil)
          /\ Handle(o, Job(r, "commit", Moved(view[r], goal)))

\* KafkaOperationalProbe.measure: the lag of the consumers, then the dead
\* letters.
MeasureLag(o) ==
    /\ job[o] # Nil /\ job[o].step = "lag"
    /\ Handle(o, With([job[o] EXCEPT !.step = "dlq"], [lag |-> Len(topic)]))

MeasureDlq(o) ==
    /\ job[o] # Nil /\ job[o].step = "dlq"
    /\ Handle(o, With([job[o] EXCEPT !.step = "pending"],
                      [ev |-> [lag |-> job[o].lag, dlq |-> Cardinality(dlq)]]))

\* pending_count, and the transition with its gates.
MeasurePending(o) ==
    LET ev == [job[o].ev EXCEPT !.lag = @ + Cardinality(pending)] IN
    /\ job[o] # Nil /\ job[o].step = "pending" /\ Free(job[o].at)
    /\ Handle(o, IF GatesPass(job[o].rec, job[o].goal, ev)
                 THEN [Job(job[o].at, "commit", Moved(job[o].rec, job[o].goal))
                          EXCEPT !.exp = job[o].exp]
                 ELSE Nil)

\* Mutations routed before dual-write are indexed.
Settled ==
    LET Behind(T, d) == ~(UNION {Placement(p, d) : p \in {"old", "new"}} \subseteq T) IN
    /\ \A p \in DOMAIN log :
          p \in pending \cup dlq \cup Range(topic) => ~Behind(log[p].targets, log[p].doc)
    /\ route # Nil => ~Behind(route.targets, route.doc)

\* The source barrier: the high-water mark of the first step.
Barrier(v) == IF v.barrier = Unset THEN Len(log) ELSE v.barrier

\* run_routing_backfill_step: copy, then repair, then nothing.
BackfillStep(o, r) ==
    LET v == [view[r] EXCEPT !.barrier = Barrier(view[r])] IN
    /\ Begins(o, r)
    /\ v.phase = "backfill"
    /\ "unsettled" \in Lapses \/ view[r].barrier # Unset \/ Settled
    /\ Handle(o, Job(r, CASE ~v.raw                -> "export"
                          [] v.raw /\ ~v.repaired  -> "window"
                          [] OTHER                 -> "commit",
                     IF v.raw /\ v.repaired THEN Backfilled(v) ELSE v))

\* _export_policy_union: what the clusters of a policy hold of a document.
Copies(p, d) == {store[c][d] : c \in PolicyClusters(p)} \ {0}
Conflicting(p) == \E d \in Docs : Cardinality(Copies(p, d)) > 1
Exported(p) == [d \in Docs |-> IF Copies(p, d) = {} THEN 0
                               ELSE CHOOSE b \in Copies(p, d) : TRUE]

\* The next documents after the last one copied.
Remaining(v, src) == {d \in Docs : d > v.last /\ src[d] # 0}
Selected(v, src) ==
    {d \in Remaining(v, src) :
        Cardinality({e \in Remaining(v, src) : e <= d}) <= MaxDocuments}

\* run_step: the source is exported and split into batches, one per
\* candidate cluster.  Conflicting copies end the step.
Export(o) ==
    LET v   == job[o].rec
        src == Exported(v.from)
        sel == Selected(v, src)
    IN
    /\ job[o] # Nil /\ job[o].step = "export"
    /\ Handle(o, IF Conflicting(v.from) THEN Nil ELSE
                 With([job[o] EXCEPT !.step = "import"],
                      [src |-> src, sel |-> sel,
                       todo |-> UNION {Placement(v.to, d) : d \in sel},
                       all |-> sel = Remaining(v, src)]))

\* An upsert that passes the checkpoints by.
Imported(c, S, src) ==
    [store EXCEPT ![c] = [d \in Docs |-> IF d \in S THEN src[d] ELSE store[c][d]]]

InTime(o) == "late" \in Lapses \/ job[o].exp = rev

\* One batch is imported; or it fails with some of it written, and the
\* checkpoint stays where it is.
Import(o, c) ==
    LET S == {d \in job[o].sel : c \in Placement(job[o].rec.to, d)} IN
    /\ job[o] # Nil /\ job[o].step = "import"
    /\ c \in job[o].todo
    /\ InTime(o)
    /\ \/ /\ store' = Imported(c, S, job[o].src)
          /\ job' = [job EXCEPT ![o].todo = @ \ {c}]
          /\ UNCHANGED faults
       \/ /\ faults < MaxFaults
          /\ faults' = faults + 1
          /\ \E F \in SUBSET S : store' = Imported(c, F, job[o].src)
          /\ job' = [job EXCEPT ![o] = Nil]
    /\ UNCHANGED <<events, ckpt, config, route, window>>

\* When the last document is copied, the events since the barrier are left
\* to repair.
Copied(v, last, all) ==
    IF all
    THEN [v EXCEPT !.last = last, !.raw = TRUE, !.through = Len(log),
                   !.cursor = v.barrier, !.repaired = v.barrier >= Len(log)]
    ELSE [v EXCEPT !.last = last]

FinishCopy(o) ==
    LET v == job[o].rec IN
    /\ job[o] # Nil /\ job[o].step = "import" /\ job[o].todo = {} /\ Free(job[o].at)
    /\ Handle(o, [Job(job[o].at, "commit",
                      Backfilled(Copied(v, Max({v.last} \cup job[o].sel), job[o].all)))
                     EXCEPT !.exp = job[o].exp])

\* latest_events_by_identity: newest event of each document in the window,
\* oldest first, at most MaxDocuments of them.
Window(v) ==
    LET range == {p \in DOMAIN log : v.cursor < p /\ p <= v.through}
        last  == {p \in range : \A q \in range : log[q].doc = log[p].doc => q <= p}
    IN {p \in last : Cardinality({q \in last : q <= p}) <= MaxDocuments}

ListEvents(o) ==
    /\ job[o] # Nil /\ job[o].step = "window"
    /\ Handle(o, With([job[o] EXCEPT !.step = "repair"],
                      [todo |-> Window(job[o].rec), page |-> Window(job[o].rec)]))

\* The idempotency key of a repair.
RepairKey(v, d) == <<v.id, v.through, d>>

\* publish_latest_repair: the newest mutation of the document, once more,
\* to every cluster of the candidate policy; a repeated key adds nothing.
Repair(o) ==
    LET v == job[o].rec
        d == log[Min(job[o].todo)].doc
    IN
    /\ job[o] # Nil /\ job[o].step = "repair" /\ job[o].todo # {}
    /\ "overtaken" \in Lapses \/ \A p \in pending \cup dlq \cup Range(topic) : log[p].doc # d
    /\ \/ /\ \A p \in DOMAIN log : log[p].repair # RepairKey(v, d)
          /\ Record(Event(d, log[Newest(d)].body, PolicyClusters(v.to), RepairKey(v, d)))
       \/ /\ \E p \in DOMAIN log : log[p].repair = RepairKey(v, d)
          /\ UNCHANGED <<log, pending>>
    /\ job' = [job EXCEPT ![o].todo = @ \ {Min(@)}]
    /\ UNCHANGED <<topic, dlq, data, config, route, window, faults>>

FinishRepair(o) ==
    LET v == job[o].rec
        n == IF job[o].page = {} THEN v.through ELSE Max(job[o].page)
    IN
    /\ job[o] # Nil /\ job[o].step = "repair" /\ job[o].todo = {} /\ Free(job[o].at)
    /\ Handle(o, [Job(job[o].at, "commit",
                      Backfilled([v EXCEPT !.cursor = n, !.repaired = n >= v.through]))
                     EXCEPT !.exp = job[o].exp])

\* verify_routing_rollout_parity: barrier and outbox, both exports, barrier
\* and outbox again.
BeginParity(o, r) ==
    /\ Begins(o, r)
    /\ view[r].phase = "verifying" /\ view[r].repaired
    /\ Handle(o, With(Job(r, "source", view[r]),
                      [start |-> Len(log), clear |-> pending = {}]))

ExportSource(o) ==
    /\ job[o] # Nil /\ job[o].step = "source"
    /\ Handle(o, IF Conflicting(job[o].rec.from) THEN Nil
                 ELSE With([job[o] EXCEPT !.step = "candidate"],
                           [src |-> Exported(job[o].rec.from)]))

Parity(o) ==
    LET v == job[o].rec IN
    /\ job[o].src = Exported(v.to)
    /\ job[o].start = Len(log)
    /\ job[o].clear /\ pending = {}

ExportCandidate(o) ==
    LET v == job[o].rec IN
    /\ job[o] # Nil /\ job[o].step = "candidate" /\ Free(job[o].at)
    /\ Handle(o, IF Conflicting(v.to) THEN Nil
                 ELSE [Job(job[o].at, "commit", Verified(v, Parity(o)))
                          EXCEPT !.exp = job[o].exp])

\* Variant: the commit does not compare revisions.
UnchangedSinceAny(o) == TRUE

UnchangedSince(o) == job[o].exp = rev

Committed(o) ==
    /\ rec' = job[o].rec
    /\ rev' = rev + 1
    /\ window' = (window /\ job[o].rec.phase # "draft")

\* _persist_state_or_500: the runtime is committed by compare-and-swap of the
\* revision, or what was in it is given back.
Commit(o) ==
    /\ job[o] # Nil /\ job[o].step = "commit"
    /\ IF UnchangedSince(o)
       THEN /\ Committed(o)
            /\ view' = [view EXCEPT ![job[o].at] = job[o].rec]
            /\ cur' = [cur EXCEPT ![job[o].at] = rev + 1]
       ELSE UNCHANGED <<config, window>>
    /\ job' = [job EXCEPT ![o] = Nil]
    /\ UNCHANGED <<events, data, route, faults>>

\* The commit is done and its answer is lost: the runtime is given back too.
CommitUnanswered(o) ==
    /\ job[o] # Nil /\ job[o].step = "commit"
    /\ UnchangedSince(o)
    /\ faults < MaxFaults
    /\ faults' = faults + 1
    /\ Committed(o)
    /\ job' = [job EXCEPT ![o] = Nil]
    /\ UNCHANGED <<events, data, view, cur, route>>

\* The handler fails at a call, its commit included, or its process ends.
Abandon(o) ==
    /\ job[o] # Nil
    /\ faults < MaxFaults
    /\ faults' = faults + 1
    /\ job' = [job EXCEPT ![o] = Nil]
    /\ UNCHANGED <<events, data, config, route, window>>

-----------------------------------------------------------------------------

NoRollout == [Draft([id |-> -1, phase |-> "none", ver |-> -1, from |-> "old", to |-> "new"])
                 EXCEPT !.phase = "none"]

\* Every document has been written once: where the old policy places it, or
\* where a policy before it did.
Init ==
    LET at(d) == IF d \in Historic THEN Clusters \ PolicyClusters("old")
                                   ELSE Placement("old", d)
        first == [c \in Clusters |-> [d \in Docs |-> IF c \in at(d) THEN d ELSE 0]]
    IN
    /\ log = [d \in Docs |-> Event(d, d, at(d), Nil)]
    /\ pending = {} /\ topic = <<>> /\ dlq = {}
    /\ store = first /\ ckpt = first
    /\ rec = NoRollout
    /\ rev = 0
    /\ view = [r \in Replicas |-> NoRollout]
    /\ cur = [r \in Replicas |-> 0]
    /\ route = Nil
    /\ job = [o \in Operators |-> Nil]
    /\ window = FALSE
    /\ faults = 0

Next ==
    \/ \E r \in Replicas :
          \/ \E d \in Docs, gone \in BOOLEAN : Route(r, d, gone)
          \/ Reload(r) \/ Administer(r)
    \/ Accept
    \/ \E p \in pending : Publish(p)
    \/ Index
    \/ DeadLetter
    \/ \E p \in dlq : Replay(p)
    \/ Elapse
    \/ \E o \in Operators :
          \/ \E r \in Replicas :
                \/ Create(o, r)
                \/ \E goal \in DOMAIN Allowed : Transition(o, r, goal)
                \/ BackfillStep(o, r)
                \/ BeginParity(o, r)
          \/ MeasureLag(o) \/ MeasureDlq(o) \/ MeasurePending(o)
          \/ Export(o) \/ FinishCopy(o)
          \/ \E c \in Clusters : Import(o, c)
          \/ ListEvents(o) \/ Repair(o) \/ FinishRepair(o)
          \/ ExportSource(o) \/ ExportCandidate(o)
          \/ Commit(o) \/ CommitUnanswered(o) \/ Abandon(o)

Spec == Init /\ [][Next]_vars

-----------------------------------------------------------------------------

TypeOK ==
    /\ pending \cup dlq \cup Range(topic) \subseteq DOMAIN log
    /\ \A c \in Clusters, d \in Docs :
          /\ store[c][d] \in 0 .. Len(log) /\ ckpt[c][d] \in 0 .. Len(log)
          /\ store[c][d] # 0 => log[store[c][d]].doc = d
    /\ \A v \in {rec} \cup {view[r] : r \in Replicas} :
          /\ v.phase \in DOMAIN Allowed
          /\ v.ver \in 0 .. MaxVersion
          /\ {v.barrier, v.cursor, v.through} \subseteq Unset .. Len(log)

\* Nothing is on its way and no import is under way.
Quiet ==
    /\ pending = {} /\ topic = <<>> /\ dlq = {}
    /\ route = Nil
    /\ \A o \in Operators : job[o] # Nil => job[o].step # "import"

\* The record in the runtime of replica r has lost its revision: its commit
\* is going to fail, and the runtime to be given back.
Lost(r) == \E o \in Installing(r) : job[o].exp # rev

\* What a search on replica r can return of document d.
Served(r, d) == {store[c][d] : c \in SearchClusters(Runtime(r))} \ {0}

(* NoHiddenDocument: once the pipeline is quiet, every replica serves the  *)
(* newest mutation of every document, in every phase of a rollout, also    *)
(* by a record that is in its runtime and not yet committed.  Where one    *)
(* policy is read (after cutover, after a roll-back), it serves nothing    *)
(* else: no superseded copy, no deleted document.                          *)
NoHiddenDocument ==
    Quiet => \A r \in Replicas, d \in Docs :
        LET now == {log[Newest(d)].body} \ {0} IN
        ~Lost(r) =>
            /\ now \subseteq Served(r, d)
            /\ Cardinality(ReadModes(Runtime(r))) = 1 => Served(r, d) \subseteq now

(* ProgressKept: within a rollout the source barrier is fixed by the first *)
(* backfill step, and neither the copy nor the repair goes back: handlers  *)
(* work on the record of a replica that may be behind, install it and give *)
(* it back, lose answers, and commit by the revision of the whole state.   *)
ProgressKept ==
    [][rec'.id = rec.id =>
          /\ rec'.ver = rec.ver + 1 \/ rec' = rec
          /\ rec.barrier # Unset => rec'.barrier = rec.barrier
          /\ rec'.last >= rec.last /\ rec'.cursor >= rec.cursor
          /\ rec.raw => rec'.raw /\ rec'.through = rec.through]_vars

(* CutoverExact: at the step into cutover the candidate placement holds    *)
(* exactly what the active one holds, of every document that has no event  *)
(* on its way: the parity evidence, which is older than the step and was   *)
(* taken between two reads of a moving log, is still true.                 *)
CutoverExact ==
    [][rec.phase = "verifying" /\ rec'.phase = "cutover" =>
          \A d \in Docs :
              \/ \E p \in pending \cup dlq \cup Range(topic) : log[p].doc = d
              \/ Copies(rec.from, d) = Copies(rec.to, d)]_vars
=============================================================================
