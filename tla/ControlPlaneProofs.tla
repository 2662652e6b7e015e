------------------------- MODULE ControlPlaneProofs -------------------------
(***************************************************************************)
(* The control plane, for any number of replicas and requests, any         *)
(* clusters and collections, any operations and any failures: what an      *)
(* answer says of the log, however the handlers of a replica overlap; and, *)
(* when they take turns, what a revision is and what a replica serves.     *)
(***************************************************************************)
EXTENDS ControlPlane, SequenceTheorems, TLAPS

\* The revisions a request has committed.
Mine(q) == {n \in 1 .. Len(log) : log[n].by = q}

LogEntry == [cfg : Config, op : Operation, by : Requests \cup {Nil}, on : Nat]

\* An operation carries the arguments its kind needs.
WellFormed(o) ==
    /\ o \in Operation
    /\ o.kind \in {"register", "unregister", "alias", "unalias", "route"}
           => o.cluster \in Clusters
    /\ o.kind \in {"create", "tombstone", "finalize", "alias", "route", "unroute"}
           => o.coll \in Collections
    /\ o.kind = "import" => o.cfg \in Config

TypeInv ==
    /\ log \in Seq(LogEntry)
    /\ status \in [Replicas -> {"down", "boot", "up"}]
    /\ cur \in [Replicas -> Nat]
    /\ run \in [Replicas -> Runtime]
    /\ loaded \in [Replicas -> Config \cup {Nil}]
    /\ missed \in [Replicas -> SUBSET Nat]
    /\ pc \in [Requests -> {"new", "checked", "mutated", "committed", "current",
                            "provider", "done"}]
    /\ at \in [Requests -> Replicas \cup {Nil}]
    /\ op \in [Requests -> Operation]
    /\ \A q \in Requests : WellFormed(op[q])
    /\ exp \in [Requests -> Nat]
    /\ snap \in [Requests -> Runtime]
    /\ ans \in [Requests -> {"none", "ok", "pending", "refused", "conflict", "error", "lost"}]
    /\ \A q \in Requests : pc[q] # "new" => at[q] \in Replicas

-----------------------------------------------------------------------------
(* What a request has committed so far, by how far its handler is. *)

\* Nothing before its first commit; of a deletion, only its tombstone before
\* its second.
CommitsSoFar(q) ==
    /\ pc[q] = "new" => Mine(q) = {}
    /\ pc[q] \in {"checked", "mutated"} /\ op[q].kind # "finalize" => Mine(q) = {}
    /\ op[q].kind = "tombstone" \/ (op[q].kind = "finalize" /\ pc[q] \in {"checked", "mutated"})
           => \A n \in Mine(q) : log[n].op.kind = "tombstone"

\* What a handler goes on to do once it has committed.
CommitDone(q) ==
    \/ pc[q] \in {"committed", "current"}
    \/ pc[q] = "provider" /\ op[q].kind \notin {"reconcile", "tombstone"}
    => \E n \in Mine(q) : log[n].op = op[q]

\* Only a handler that has ended has answered.
NoAnswerYet(q) ==
    /\ pc[q] # "done" => ans[q] \in {"none", "pending"}
    /\ pc[q] \in {"new", "checked", "mutated", "committed", "current"} => ans[q] = "none"

\* AnswersAgree, for one request.
Truthful(q) ==
    /\ ans[q] = "ok" /\ op[q].kind # "reconcile" => \E n \in Mine(q) : log[n].op = op[q]
    /\ ans[q] = "refused" => Mine(q) = {}
    /\ ans[q] = "conflict" => \A n \in Mine(q) : log[n].op.kind = "tombstone"

RequestInv(q) == CommitsSoFar(q) /\ CommitDone(q) /\ NoAnswerYet(q) /\ Truthful(q)

AnswerInv == \A q \in Requests : RequestInv(q)

-----------------------------------------------------------------------------
(* What a replica serves, when handlers take turns. *)

\* Handlers that wait for each other: those of the event loop do, the others
\* only where Turns says so.
TakingTurns == Turns \/ Kinds \subseteq {"create", "tombstone", "alias", "unalias"}

\* A runtime is what the log has under its revision.
Serves(g) == g.rev \in 1 .. Len(log) /\ g.cfg = log[g.rev].cfg

\* A replica with a runtime of revision n has come to a newer one only where
\* it could not load it.
Near(r, n) == cur[r] \in n .. Len(log) /\ (cur[r] = n \/ cur[r] \in missed[r])

Settled(r) == Serves(run[r]) /\ Near(r, run[r].rev)

\* One handler or reload at a time, and only while the process runs.
TurnsInv ==
    /\ \A q \in Requests : Working(q) => status[at[q]] = "up" /\ loaded[at[q]] = Nil
    /\ \A p, q \in Requests : Working(p) /\ Working(q) /\ at[p] = at[q] => p = q
    /\ \A r \in Replicas : loaded[r] # Nil => status[r] = "up"
    /\ \A q \in Requests : pc[q] = "provider" => status[at[q]] = "up"

\* A replica at rest, and one that has read a newer state but not loaded it.
RestInv ==
    \A r \in Replicas : status[r] = "up" =>
        /\ Quiet(r) => Settled(r)
        /\ loaded[r] # Nil =>
               /\ Serves([rev |-> cur[r], cfg |-> loaded[r]])
               /\ Serves(run[r]) /\ run[r].rev <= cur[r]

\* What the handler's replica holds at each of its steps.
StepInv(q) ==
    LET r == at[q] IN
    /\ pc[q] = "checked" => Settled(r)
    /\ pc[q] = "mutated" =>
           /\ Serves(snap[q]) /\ Near(r, snap[q].rev) /\ run[r].rev = snap[q].rev
           /\ Admissible(snap[q].cfg, op[q])
           /\ run[r].cfg = IF op[q].kind = "import" THEN snap[q].cfg
                           ELSE Apply(snap[q].cfg, op[q])
    /\ pc[q] \in {"checked", "mutated", "provider"} => exp[q] <= cur[r]
    /\ pc[q] \in {"committed", "current"} =>
           /\ Serves([rev |-> exp[q] + 1, cfg |-> Installed(q)])
           /\ run[r].rev <= exp[q]
           /\ op[q].kind = "import" => Serves(run[r])
    /\ pc[q] = "committed" => cur[r] = exp[q]
    /\ pc[q] = "current" => cur[r] = exp[q] + 1
    /\ Working(q) => Turns \/ OnLoop(op[q])

\* Every revision but the first is a request's, which has begun.
ByRequests == \A n \in 2 .. Len(log) : log[n].by \in Requests /\ pc[log[n].by] # "new"

ChangesInv == ByRequests /\ OneChangePerRevision

ServeInv ==
    /\ TurnsInv /\ RestInv
    /\ \A q \in Requests : StepInv(q)
    /\ ChangesInv

-----------------------------------------------------------------------------
(* Types *)

(* BaseTyped: the default configuration.                                   *)
LEMMA BaseTyped == BaseConfig \in Config
  BY BaseAssumption DEF BaseConfig, Config

(* ConfigFields: what a configuration is made of.                          *)
LEMMA ConfigFields ==
    ASSUME NEW g \in Config
    PROVE  /\ g.clusters \subseteq Clusters /\ g.schemas \subseteq Collections
           /\ g.route \in [Collections -> Clusters \cup {"none", "default", "disabled"}]
           /\ g.alias \in [Clusters -> Collections \cup {Nil}]
           /\ DOMAIN g = {"clusters", "schemas", "route", "alias"}
  BY DEF Config

(* AliasesTyped: dropping the aliases of a collection.                     *)
LEMMA AliasesTyped ==
    ASSUME NEW g \in Config, NEW k
    PROVE  WithoutAliasesTo(g, k) \in [Clusters -> Collections \cup {Nil}]
  BY ConfigFields DEF WithoutAliasesTo

(* ApplyTyped: an operation turns a configuration into a configuration.    *)
LEMMA ApplyTyped ==
    ASSUME NEW g \in Config, NEW o, WellFormed(o), o.kind # "reconcile"
    PROVE  Apply(g, o) \in Config
  <1>1. o.kind \in {"register", "unregister", "create", "tombstone", "finalize",
                    "alias", "unalias", "route", "unroute", "import"}
    BY DEF WellFormed, Operation
  <1>2. CASE o.kind \in {"register", "unregister"}
    <2>1. o.cluster \in Clusters
      BY <1>2 DEF WellFormed
    <2>2. Registered(g, o.cluster) \in Config /\ Unregistered(g, o.cluster) \in Config
      BY <2>1 DEF Registered, Unregistered, Config
    <2> QED
      BY <1>2, <2>2 DEF Apply
  <1>3. CASE o.kind \in {"alias", "unalias"}
    <2>1. o.cluster \in Clusters /\ (o.kind = "alias" => o.coll \in Collections)
      BY <1>3 DEF WellFormed
    <2>2. o.kind = "alias" => Aliased(g, o.cluster, o.coll) \in Config
      BY <2>1 DEF Aliased, Config
    <2>3. Unaliased(g, o.cluster) \in Config
      BY <2>1 DEF Unaliased, Config
    <2> QED
      BY <1>3, <2>2, <2>3 DEF Apply
  <1>4. CASE o.kind \in {"route", "unroute"}
    <2>1. o.coll \in Collections /\ (o.kind = "route" => o.cluster \in Clusters)
      BY <1>4 DEF WellFormed
    <2>2. o.kind = "route" => Routed(g, o.coll, o.cluster) \in Config
      BY <2>1 DEF Routed, Config
    <2>3. Unrouted(g, o.coll) \in Config
      BY <2>1 DEF Unrouted, Config
    <2> QED
      BY <1>4, <2>2, <2>3 DEF Apply
  <1>5. CASE o.kind \in {"create", "tombstone", "finalize"}
    <2>1. o.coll \in Collections
      BY <1>5 DEF WellFormed
    <2>2. WithoutAliasesTo(g, o.coll) \in [Clusters -> Collections \cup {Nil}]
      BY AliasesTyped
    <2>3. Created(g, o.coll) \in Config
      BY <2>1 DEF Created, Config
    <2>4. Tombstoned(g, o.coll) \in Config
      BY <2>1, <2>2 DEF Tombstoned, Config
    <2>5. Finalized(g, o.coll) \in Config
      BY <2>1, <2>2 DEF Finalized, Config
    <2> QED
      BY <1>5, <2>3, <2>4, <2>5 DEF Apply
  <1>6. CASE o.kind = "import"
    BY <1>6 DEF Apply, WellFormed
  <1> QED
    BY <1>1, <1>2, <1>3, <1>4, <1>5, <1>6

(* OperationsTyped: what an administrator asks for is well formed.         *)
LEMMA OperationsTyped ==
    ASSUME TypeInv, NEW o \in Operations
    PROVE  WellFormed(o) /\ o.kind # "finalize"
  <1>1. \A n \in 1 .. Len(log) : log[n].cfg \in Config
    <2>1. \A n \in 1 .. Len(log) : log[n] \in LogEntry
      BY ElementOfSeq DEF TypeInv
    <2> QED
      BY <2>1 DEF LogEntry
  <1>2. CASE \E kind \in {"register", "unregister", "unalias"}, c \in Clusters :
                o = Op(kind, c, Nil, Nil)
    BY <1>2 DEF Op, WellFormed, Operation
  <1>3. CASE \E kind \in {"create", "tombstone", "unroute"}, k \in Collections :
                o = Op(kind, Nil, k, Nil)
    BY <1>3 DEF Op, WellFormed, Operation
  <1>4. CASE \E kind \in {"alias", "route"}, c \in Clusters, k \in Collections :
                o = Op(kind, c, k, Nil)
    BY <1>4 DEF Op, WellFormed, Operation
  <1>5. CASE \E g \in Exports : o = Op("import", Nil, Nil, g)
    BY <1>1, <1>5 DEF Op, WellFormed, Operation, Exports
  <1>6. CASE o = Op("reconcile", Nil, Nil, Nil)
    BY <1>6 DEF Op, WellFormed, Operation
  <1> QED
    BY <1>2, <1>3, <1>4, <1>5, <1>6 DEF Operations

(* CommittedTyped: the log grows by one entry.                             *)
LEMMA CommittedTyped ==
    ASSUME TypeInv, NEW g \in Config, NEW o \in Operation,
           NEW q \in Requests \cup {Nil}, NEW m \in Nat, Committed(g, o, q, m)
    PROVE  /\ log' \in Seq(LogEntry) /\ Len(log) \in Nat /\ Len(log') = Len(log) + 1
           /\ \A n \in 1 .. Len(log) : log'[n] = log[n]
           /\ log'[Len(log) + 1] = [cfg |-> g, op |-> o, by |-> q, on |-> m]
  <1>1. [cfg |-> g, op |-> o, by |-> q, on |-> m] \in LogEntry
    BY DEF LogEntry
  <1> QED
    BY <1>1, AppendProperties, LenProperties DEF TypeInv, Committed

(* LogTyped: the entries of the log.                                       *)
LEMMA LogTyped ==
    ASSUME TypeInv
    PROVE  /\ Len(log) \in Nat
           /\ \A n \in 1 .. Len(log) : log[n].cfg \in Config /\ log[n].op \in Operation
  <1>1. \A n \in 1 .. Len(log) : log[n] \in LogEntry
    BY ElementOfSeq DEF TypeInv
  <1> QED
    BY <1>1, LenProperties DEF TypeInv, LogEntry

(* TypeInvInit: nothing has happened.                                      *)
LEMMA TypeInvInit == Init => TypeInv
  <1> SUFFICES ASSUME Init PROVE TypeInv
    OBVIOUS
  <1>1. WellFormed(Op("import", Nil, Nil, BaseConfig))
    BY BaseTyped DEF WellFormed, Op, Operation
  <1>2. log \in Seq(LogEntry)
    BY EmptySeq DEF Init
  <1> QED
    BY <1>1, <1>2, BaseTyped DEF Init, TypeInv, Runtime, WellFormed

(* HandlerTypes: the steps of a handler up to its commit.                  *)
LEMMA HandlerTypes ==
    ASSUME TypeInv, NEW q \in Requests
    PROVE  /\ \A r \in Replicas : \A o \in Operations : Begin(q, r, o) => TypeInv'
           /\ Refuse(q) \/ Resume(q) => TypeInv'
           /\ Mutate(q) => TypeInv'
           /\ Conflict(q) => TypeInv'
           /\ Commit(q) => TypeInv'
           /\ CommitFails(q) => TypeInv'
  <1>1. ASSUME NEW r \in Replicas, NEW o \in Operations, Begin(q, r, o) PROVE TypeInv'
    <2>1. WellFormed(o) /\ o \in Operation
      BY OperationsTyped DEF WellFormed
    <2>2. \A p \in Requests : WellFormed(op'[p])
      BY <1>1, <2>1 DEF TypeInv, Begin
    <2> QED
      BY <1>1, <2>1, <2>2 DEF TypeInv, Begin, memory, WellFormed
  <1>2. ASSUME Refuse(q) \/ Resume(q) PROVE TypeInv'
    BY <1>2 DEF TypeInv, Refuse, Resume, Finish, memory, WellFormed
  <1>3. ASSUME Mutate(q) PROVE TypeInv'
    <2>1. at[q] \in Replicas /\ run[at[q]] \in Runtime /\ WellFormed(op[q])
      BY <1>3 DEF Mutate, TypeInv
    <2>2. run[at[q]].cfg \in Config
      BY <2>1 DEF Runtime
    <2>3. Apply(run[at[q]].cfg, op[q]) \in Config
      BY <1>3, <2>1, <2>2, ApplyTyped DEF Mutate, Committable
    <2>4. run' \in [Replicas -> Runtime]
      BY <1>3, <2>1, <2>3 DEF Mutate, TypeInv, Runtime
    <2>5. snap' \in [Requests -> Runtime]
      BY <1>3, <2>1 DEF Mutate, Snapshot, TypeInv
    <2> QED
      BY <1>3, <2>4, <2>5 DEF TypeInv, Mutate, WellFormed
  <1>4. ASSUME Conflict(q) PROVE TypeInv'
    <2>1. run' \in [Replicas -> Runtime]
      BY <1>4 DEF Conflict, TypeInv, Restored
    <2> QED
      BY <1>4, <2>1 DEF TypeInv, Conflict, Finish, WellFormed
  <1>5. pc[q] = "mutated" => Payload(q) \in Config
    BY DEF TypeInv, Payload, WellFormed, Runtime
  <1>6. ASSUME Commit(q) PROVE TypeInv'
    <2>1. log' \in Seq(LogEntry)
      BY <1>5, <1>6, CommittedTyped DEF Commit, TypeInv, Runtime
    <2> QED
      BY <1>6, <2>1 DEF TypeInv, Commit, WellFormed, memory
  <1>7. ASSUME CommitFails(q) PROVE TypeInv'
    <2>1. log' \in Seq(LogEntry)
      BY <1>5, <1>7, CommittedTyped DEF CommitFails, TypeInv, Runtime
    <2>2. run' \in [Replicas -> Runtime]
      BY <1>7 DEF CommitFails, TypeInv, Restored
    <2> QED
      BY <1>7, <2>1, <2>2 DEF TypeInv, CommitFails, Finish, WellFormed
  <1> QED
    BY <1>1, <1>2, <1>3, <1>4, <1>6, <1>7

(* AfterTypes: the steps of a handler after its commit.                    *)
LEMMA AfterTypes ==
    ASSUME TypeInv, NEW q \in Requests
    PROVE  /\ SetCurrent(q) => TypeInv'
           /\ Install(q) => TypeInv'
           /\ InstallFails(q) => TypeInv'
           /\ Finalize(q) => TypeInv'
           /\ Answer(q) => TypeInv'
           /\ \A c : CallProvider(q, c) \/ ProviderFails(q, c) => TypeInv'
  <1>1. ASSUME SetCurrent(q) PROVE TypeInv'
    BY <1>1 DEF TypeInv, SetCurrent, Saved, NextRevision, WellFormed
  <1>2. ASSUME Install(q) PROVE TypeInv'
    <2>1. Installed(q) \in Config /\ at[q] \in Replicas /\ cur[at[q]] \in Nat
      BY <1>2 DEF Install, TypeInv, Installed, WellFormed, Runtime
    <2>2. [rev |-> cur[at[q]], cfg |-> Installed(q)] \in Runtime
      BY <2>1 DEF Runtime
    <2>3. run' \in [Replicas -> Runtime] /\ exp' \in [Requests -> Nat]
      BY <1>2, <2>1, <2>2 DEF Install, TypeInv
    <2> QED
      BY <1>2, <2>1, <2>3 DEF TypeInv, Install, Finish, WellFormed
  <1>3. ASSUME Finalize(q) PROVE TypeInv'
    <2>1. WellFormed([op[q] EXCEPT !.kind = "finalize"])
      BY <1>3 DEF Finalize, TypeInv, WellFormed, Operation
    <2>2. op' \in [Requests -> Operation] /\ \A p \in Requests : WellFormed(op'[p])
      BY <1>3, <2>1 DEF Finalize, TypeInv, WellFormed
    <2> QED
      BY <1>3, <2>2 DEF TypeInv, Finalize, memory, WellFormed
  <1>4. ASSUME Answer(q) PROVE TypeInv'
    BY <1>4 DEF TypeInv, Answer, Finish, memory, WellFormed
  <1>5. ASSUME NEW c, CallProvider(q, c) \/ ProviderFails(q, c) PROVE TypeInv'
    BY <1>5 DEF TypeInv, CallProvider, ProviderFails, memory, WellFormed
  <1>6. ASSUME InstallFails(q) PROVE TypeInv'
    <2>1. missed' \in [Replicas -> SUBSET Nat]
      BY <1>6 DEF InstallFails, Miss, TypeInv
    <2> QED
      BY <1>6, <2>1 DEF TypeInv, InstallFails, Finish, WellFormed
  <1> QED
    BY <1>1, <1>2, <1>3, <1>4, <1>5, <1>6

(* ReplicaTypes: the steps of a replica.                                   *)
LEMMA ReplicaTypes ==
    ASSUME TypeInv, NEW r \in Replicas
    PROVE  /\ Reload(r) => TypeInv'
           /\ LoadFails(r) => TypeInv'
           /\ Swap(r) => TypeInv'
           /\ Start(r) => TypeInv'
           /\ Bootstrap(r) => TypeInv'
           /\ Crash(r) => TypeInv'
  <1>1. ASSUME Reload(r) PROVE TypeInv'
    <2>1. Len(log) \in 1 .. Len(log)
      BY <1>1, LogTyped DEF Reload, Behind, TypeInv, Runtime
    <2>2. loaded' \in [Replicas -> Config \cup {Nil}] /\ cur' \in [Replicas -> Nat]
      BY <1>1, <2>1, LogTyped DEF Reload, LoadState, TypeInv
    <2> QED
      BY <1>1, <2>2 DEF TypeInv, Reload, handler, WellFormed
  <1>2. ASSUME Swap(r) PROVE TypeInv'
    <2>1. run' \in [Replicas -> Runtime]
      BY <1>2 DEF Swap, TypeInv, Runtime
    <2> QED
      BY <1>2, <2>1 DEF TypeInv, Swap, handler, WellFormed
  <1>3. ASSUME Start(r) PROVE TypeInv'
    <2>1. log # <<>> => Len(log) \in 1 .. Len(log)
      BY LogTyped, EmptySeq DEF TypeInv
    <2>2. log # <<>> => [rev |-> Len(log), cfg |-> log[Len(log)].cfg] \in Runtime
      BY <2>1, LogTyped DEF Runtime
    <2>3. /\ status' \in [Replicas -> {"down", "boot", "up"}]
          /\ run' \in [Replicas -> Runtime] /\ cur' \in [Replicas -> Nat]
      BY <1>3, <2>2, LogTyped DEF Start, Serve, TypeInv
    <2> QED
      BY <1>3, <2>3 DEF TypeInv, Start, handler, WellFormed
  <1>4. ASSUME Bootstrap(r) PROVE TypeInv'
    <2>1. Op("import", Nil, Nil, BaseConfig) \in Operation
      BY BaseTyped DEF Op, Operation
    <2>2. log' \in Seq(LogEntry)
      BY <1>4, <2>1, BaseTyped, CommittedTyped DEF Bootstrap, TypeInv
    <2>3. [rev |-> 1, cfg |-> BaseConfig] \in Runtime
      BY BaseTyped DEF Runtime
    <2>4. /\ status' \in [Replicas -> {"down", "boot", "up"}]
          /\ run' \in [Replicas -> Runtime] /\ cur' \in [Replicas -> Nat]
      <3>1. CASE log = <<>>
        <4>1. Serve(r, 1, BaseConfig)
          BY <1>4, <3>1 DEF Bootstrap
        <4> QED
          BY <2>3, <4>1 DEF Serve, TypeInv
      <3>2. CASE log # <<>>
        BY <1>4, <3>2 DEF Bootstrap, TypeInv
      <3> QED
        BY <3>1, <3>2
    <2> QED
      BY <1>4, <2>2, <2>4 DEF TypeInv, Bootstrap, handler, WellFormed
  <1>5. ASSUME Crash(r) PROVE TypeInv'
    <2>1. run' \in [Replicas -> Runtime]
      BY <1>5, BaseTyped DEF Crash, TypeInv, Runtime
    <2>2. /\ pc' \in [Requests -> {"new", "checked", "mutated", "committed", "current",
                            "provider", "done"}]
          /\ ans' \in [Requests -> {"none", "ok", "pending", "refused", "conflict", "error", "lost"}]
          /\ \A q \in Requests : pc'[q] \notin {"new", "done"} => pc[q] = pc'[q]
      BY <1>5 DEF Crash, TypeInv
    <2> QED
      BY <1>5, <2>1, <2>2 DEF TypeInv, Crash, WellFormed
  <1>6. ASSUME LoadFails(r) PROVE TypeInv'
    <2>1. missed' \in [Replicas -> SUBSET Nat] /\ loaded' \in [Replicas -> Config \cup {Nil}]
      BY <1>6 DEF LoadFails, Miss, TypeInv
    <2> QED
      BY <1>6, <2>1 DEF TypeInv, LoadFails, handler, WellFormed
  <1> QED
    BY <1>1, <1>2, <1>3, <1>4, <1>5, <1>6

(* TypeInvStep: every step keeps the types.                                *)
LEMMA TypeInvStep == TypeInv /\ [Next]_vars => TypeInv'
  <1> SUFFICES ASSUME TypeInv, [Next]_vars PROVE TypeInv'
    OBVIOUS
  <1>1. CASE UNCHANGED vars
    BY <1>1 DEF TypeInv, vars, memory, handler, WellFormed
  <1>2. CASE Next
    BY <1>2, HandlerTypes, AfterTypes, ReplicaTypes DEF Next, Handle, Follow, Fault
  <1> QED
    BY <1>1, <1>2

-----------------------------------------------------------------------------
(* Answers *)

(* MineGrows: a commit is a revision of its request and of no other.       *)
LEMMA MineGrows ==
    ASSUME TypeInv, NEW g \in Config, NEW o \in Operation,
           NEW b \in Requests \cup {Nil}, NEW m \in Nat, Committed(g, o, b, m),
           NEW q \in Requests
    PROVE  /\ Mine(q)' = IF q = b THEN Mine(q) \cup {Len(log) + 1} ELSE Mine(q)
           /\ \A n \in Mine(q) : log'[n] = log[n]
           /\ log'[Len(log) + 1].op = o
  <1>1. /\ Len(log) \in Nat /\ Len(log') = Len(log) + 1
        /\ \A n \in 1 .. Len(log) : log'[n] = log[n]
        /\ log'[Len(log) + 1] = [cfg |-> g, op |-> o, by |-> b, on |-> m]
    BY CommittedTyped
  <1>2. \A n : n \in 1 .. Len(log) + 1 <=> n \in 1 .. Len(log) \/ n = Len(log) + 1
    BY <1>1
  <1> QED
    BY <1>1, <1>2 DEF Mine

(* OtherKeeps: what a request has not done changes nothing for it.         *)
LEMMA OtherKeeps ==
    ASSUME NEW q \in Requests, RequestInv(q),
           pc'[q] = pc[q], op'[q] = op[q], ans'[q] = ans[q],
           Mine(q)' = Mine(q), \A n \in Mine(q) : log'[n] = log[n]
    PROVE  RequestInv(q)'
  BY DEF RequestInv, CommitsSoFar, CommitDone, NoAnswerYet, Truthful

(* QuietAnswers: the steps that leave requests and log alone.                *)
LEMMA QuietAnswers ==
    ASSUME AnswerInv, UNCHANGED <<log, pc, op, ans>>
    PROVE  AnswerInv'
  <1>1. \A q \in Requests : Mine(q)' = Mine(q)
    BY DEF Mine
  <1> QED
    BY <1>1, OtherKeeps DEF AnswerInv

(* StepAnswers: a handler takes a step that does not touch the log.        *)
LEMMA StepAnswers ==
    ASSUME TypeInv, AnswerInv, NEW q \in Requests, UNCHANGED log,
           \A p \in Requests \ {q} : pc'[p] = pc[p] /\ op'[p] = op[p] /\ ans'[p] = ans[p],
           Mine(q)' = Mine(q) => RequestInv(q)'
    PROVE  AnswerInv'
  <1>1. \A p \in Requests : Mine(p)' = Mine(p)
    BY DEF Mine
  <1>2. \A p \in Requests \ {q} : RequestInv(p)'
    BY <1>1, OtherKeeps DEF AnswerInv
  <1> QED
    BY <1>1, <1>2 DEF AnswerInv

(* CommitAnswers: a handler takes a step that commits its change.          *)
LEMMA CommitAnswers ==
    ASSUME TypeInv, AnswerInv, NEW q \in Requests, NEW g \in Config,
           NEW m \in Nat, Committed(g, op[q], q, m), op' = op,
           pc[q] = "mutated",
           \/ pc'[q] = "committed" /\ ans' = ans
           \/ pc'[q] = "done" /\ ans'[q] = "error",
           \A p \in Requests \ {q} : pc'[p] = pc[p] /\ ans'[p] = ans[p]
    PROVE  AnswerInv'
  <1>1. op[q] \in Operation
    BY DEF TypeInv
  <1>2. ASSUME NEW p \in Requests \ {q} PROVE RequestInv(p)'
    <2>1. Mine(p)' = Mine(p) /\ \A n \in Mine(p) : log'[n] = log[n]
      BY <1>1, MineGrows
    <2> QED
      BY <2>1, OtherKeeps DEF AnswerInv
  <1>3. RequestInv(q)'
    <2>1. /\ Mine(q)' = Mine(q) \cup {Len(log) + 1}
          /\ \A n \in Mine(q) : log'[n] = log[n]
          /\ log'[Len(log) + 1].op = op[q]
      BY <1>1, MineGrows
    <2>2. RequestInv(q)
      BY DEF AnswerInv
    <2>3. CommitsSoFar(q)'
      BY <2>1, <2>2 DEF RequestInv, CommitsSoFar
    <2>4. CommitDone(q)'
      BY <2>1, <2>2 DEF CommitDone
    <2>5. NoAnswerYet(q)' /\ Truthful(q)'
      BY <2>2 DEF RequestInv, NoAnswerYet, Truthful
    <2> QED
      BY <2>3, <2>4, <2>5 DEF RequestInv
  <1> QED
    BY <1>2, <1>3 DEF AnswerInv

(* HandlerAnswers: the steps of a handler.                                 *)
LEMMA HandlerAnswers ==
    ASSUME TypeInv, AnswerInv, NEW q \in Requests
    PROVE  /\ \A r \in Replicas : \A o \in Operations : Begin(q, r, o) => AnswerInv'
           /\ Handle(q) => AnswerInv'
           /\ CommitFails(q) => AnswerInv'
           /\ InstallFails(q) => AnswerInv'
           /\ \A c \in Clusters : ProviderFails(q, c) => AnswerInv'
  <1> DEFINE OthersSame == \A p \in Requests \ {q} :
                 pc'[p] = pc[p] /\ op'[p] = op[p] /\ ans'[p] = ans[p]
             Own == Mine(q)' = Mine(q) => RequestInv(q)'
  <1>0. RequestInv(q) /\ Len(log) \in Nat
    BY LogTyped DEF AnswerInv
  <1>1. ASSUME NEW r \in Replicas, NEW o \in Operations, Begin(q, r, o) PROVE AnswerInv'
    <2>1. OthersSame /\ UNCHANGED log
      BY <1>1 DEF Begin, TypeInv
    <2>2. pc[q] = "new" /\ pc'[q] = "checked" /\ op'[q] = o /\ ans' = ans
      BY <1>1 DEF Begin, TypeInv
    <2>3. o.kind # "finalize"
      BY OperationsTyped
    <2>4. Own
      BY <1>0, <2>1, <2>2, <2>3
      DEF RequestInv, CommitsSoFar, CommitDone, NoAnswerYet, Truthful
    <2> QED
      BY <2>1, <2>4, StepAnswers
  <1>2. ASSUME Refuse(q) PROVE AnswerInv'
    <2>1. OthersSame /\ UNCHANGED log
      BY <1>2 DEF Refuse, Finish, TypeInv
    <2>2. pc[q] = "checked" /\ pc'[q] = "done" /\ ans'[q] = "refused" /\ op' = op
      BY <1>2 DEF Refuse, Finish, TypeInv
    <2>3. op[q].kind # "finalize"
      BY <1>2 DEF Refuse, Admissible
    <2>4. Own
      BY <1>0, <2>1, <2>2, <2>3
      DEF RequestInv, CommitsSoFar, CommitDone, NoAnswerYet, Truthful
    <2> QED
      BY <2>1, <2>4, StepAnswers
  <1>3. ASSUME Resume(q) PROVE AnswerInv'
    <2>1. OthersSame /\ UNCHANGED log
      BY <1>3 DEF Resume, TypeInv
    <2>2. pc[q] = "checked" /\ pc'[q] = "provider" /\ UNCHANGED <<op, ans>>
      BY <1>3 DEF Resume, TypeInv
    <2>3. op[q].kind \in {"reconcile", "tombstone"}
      BY <1>3 DEF Resume, Committable
    <2>4. Own
      BY <1>0, <2>1, <2>2, <2>3
      DEF RequestInv, CommitsSoFar, CommitDone, NoAnswerYet, Truthful
    <2> QED
      BY <2>1, <2>4, StepAnswers
  <1>4. ASSUME Mutate(q) \/ SetCurrent(q) PROVE AnswerInv'
    <2>1. OthersSame /\ UNCHANGED log
      BY <1>4 DEF Mutate, SetCurrent, TypeInv
    <2>2. /\ \/ pc[q] = "checked" /\ pc'[q] = "mutated"
             \/ pc[q] = "committed" /\ pc'[q] = "current"
          /\ UNCHANGED <<op, ans>>
      BY <1>4 DEF Mutate, SetCurrent, Saved, TypeInv
    <2>3. Own
      BY <1>0, <2>1, <2>2
      DEF RequestInv, CommitsSoFar, CommitDone, NoAnswerYet, Truthful
    <2> QED
      BY <2>1, <2>3, StepAnswers
  <1>5. ASSUME Conflict(q) PROVE AnswerInv'
    <2>1. OthersSame /\ UNCHANGED log
      BY <1>5 DEF Conflict, Finish, TypeInv
    <2>2. pc[q] = "mutated" /\ pc'[q] = "done" /\ ans'[q] = "conflict" /\ op' = op
      BY <1>5 DEF Conflict, Finish, TypeInv
    <2>3. Own
      BY <1>0, <2>1, <2>2
      DEF RequestInv, CommitsSoFar, CommitDone, NoAnswerYet, Truthful
    <2> QED
      BY <2>1, <2>3, StepAnswers
  <1>6. pc[q] = "mutated" => Payload(q) \in Config
    BY DEF TypeInv, Payload, WellFormed, Runtime
  <1>7. ASSUME Commit(q) PROVE AnswerInv'
    <2>1. PICK g \in Config, m \in Nat : g = Payload(q) /\ m = snap[q].rev
      BY <1>6, <1>7 DEF Commit, TypeInv, Runtime
    <2>2. Committed(g, op[q], q, m)
      BY <1>7, <2>1 DEF Commit
    <2>3. /\ pc[q] = "mutated" /\ pc'[q] = "committed" /\ UNCHANGED <<op, ans>>
          /\ OthersSame
      BY <1>7 DEF Commit, TypeInv
    <2> QED
      BY <2>2, <2>3, CommitAnswers
  <1>8. ASSUME CommitFails(q) PROVE AnswerInv'
    <2>1. PICK g \in Config, m \in Nat : g = Payload(q) /\ m = snap[q].rev
      BY <1>6, <1>8 DEF CommitFails, TypeInv, Runtime
    <2>2. UNCHANGED log \/ Committed(g, op[q], q, m)
      BY <1>8, <2>1 DEF CommitFails
    <2>3. /\ pc[q] = "mutated" /\ pc'[q] = "done" /\ ans'[q] = "error" /\ op' = op
          /\ OthersSame
      BY <1>8 DEF CommitFails, Finish, TypeInv
    <2>4. UNCHANGED log => Own
      BY <1>0, <2>3
      DEF RequestInv, CommitsSoFar, CommitDone, NoAnswerYet, Truthful
    <2> QED
      BY <2>2, <2>3, <2>4, StepAnswers, CommitAnswers
  <1>9. ASSUME Install(q) \/ InstallFails(q) PROVE AnswerInv'
    <2>1. OthersSame /\ UNCHANGED log
      BY <1>9 DEF Install, InstallFails, Finish, TypeInv
    <2>2. /\ pc[q] = "current" /\ op' = op
          /\ \/ pc'[q] = "done" /\ ans'[q] = "error"
             \/ pc'[q] = "provider" /\ ans' = ans
      BY <1>9 DEF Install, InstallFails, Finish, TypeInv
    <2>3. Own
      BY <1>0, <2>1, <2>2
      DEF RequestInv, CommitsSoFar, CommitDone, NoAnswerYet, Truthful
    <2> QED
      BY <2>1, <2>3, StepAnswers
  <1>10. ASSUME Finalize(q) PROVE AnswerInv'
    <2>1. OthersSame /\ UNCHANGED log
      BY <1>10 DEF Finalize, TypeInv
    <2>2. /\ pc[q] = "provider" /\ pc'[q] = "checked" /\ ans' = ans /\ ans[q] # "pending"
          /\ op[q].kind = "tombstone" /\ op'[q].kind = "finalize"
      BY <1>10 DEF Finalize, TypeInv, Operation
    <2>3. Own
      BY <1>0, <2>1, <2>2
      DEF RequestInv, CommitsSoFar, CommitDone, NoAnswerYet, Truthful
    <2> QED
      BY <2>1, <2>3, StepAnswers
  <1>11. ASSUME Answer(q) PROVE AnswerInv'
    <2>1. OthersSame /\ UNCHANGED log
      BY <1>11 DEF Answer, Finish, TypeInv
    <2>2. /\ pc[q] = "provider" /\ pc'[q] = "done" /\ op' = op
          /\ \/ ans'[q] = "pending"
             \/ ans'[q] = "ok" /\ op[q].kind # "tombstone"
      BY <1>11 DEF Answer, Finish, TypeInv
    <2>3. Own
      BY <1>0, <2>1, <2>2
      DEF RequestInv, CommitsSoFar, CommitDone, NoAnswerYet, Truthful
    <2> QED
      BY <2>1, <2>3, StepAnswers
  <1>12. ASSUME NEW c \in Clusters, CallProvider(q, c) PROVE AnswerInv'
    BY <1>12, QuietAnswers DEF CallProvider
  <1>13. ASSUME NEW c \in Clusters, ProviderFails(q, c) PROVE AnswerInv'
    <2>1. OthersSame /\ UNCHANGED log
      BY <1>13 DEF ProviderFails, TypeInv
    <2>2. pc[q] = "provider" /\ ans'[q] = "pending" /\ UNCHANGED <<pc, op>>
      BY <1>13 DEF ProviderFails, TypeInv
    <2>3. Own
      BY <1>0, <2>1, <2>2
      DEF RequestInv, CommitsSoFar, CommitDone, NoAnswerYet, Truthful
    <2> QED
      BY <2>1, <2>3, StepAnswers
  <1> QED
    BY <1>1, <1>2, <1>3, <1>4, <1>5, <1>7, <1>8, <1>9, <1>10, <1>11, <1>12, <1>13
    DEF Handle

(* ReplicaAnswers: the steps of a replica.                                 *)
LEMMA ReplicaAnswers ==
    ASSUME TypeInv, AnswerInv, NEW r \in Replicas
    PROVE  /\ Follow(r) => AnswerInv'
           /\ LoadFails(r) => AnswerInv'
           /\ Crash(r) => AnswerInv'
  <1>1. ASSUME Reload(r) \/ LoadFails(r) \/ Swap(r) \/ Start(r) PROVE AnswerInv'
    BY <1>1, QuietAnswers DEF Reload, LoadFails, Swap, Start, handler
  <1>2. ASSUME Bootstrap(r) PROVE AnswerInv'
    <2>1. CASE log = <<>>
      <3>1. Committed(BaseConfig, Op("import", Nil, Nil, BaseConfig), Nil, 0)
        BY <1>2, <2>1 DEF Bootstrap
      <3>2. Op("import", Nil, Nil, BaseConfig) \in Operation
        BY BaseTyped DEF Op, Operation
      <3>3. \A q \in Requests :
               Mine(q)' = Mine(q) /\ \A n \in Mine(q) : log'[n] = log[n]
        BY <3>1, <3>2, BaseTyped, NilAssumption, MineGrows
      <3> QED
        BY <1>2, <3>3, OtherKeeps DEF Bootstrap, handler, AnswerInv
    <2>2. CASE log # <<>>
      BY <1>2, <2>2, QuietAnswers DEF Bootstrap, handler
    <2> QED
      BY <2>1, <2>2
  <1>3. ASSUME Crash(r) PROVE AnswerInv'
    <2>1. \A q \in Requests : Mine(q)' = Mine(q)
      BY <1>3 DEF Crash, Mine
    <2>2. ASSUME NEW q \in Requests PROVE RequestInv(q)'
      <3>1. /\ op' = op /\ log' = log
            /\ \/ pc'[q] = pc[q] /\ ans'[q] = ans[q]
               \/ pc'[q] = "done" /\ ans'[q] = "lost"
        BY <1>3 DEF Crash
      <3>2. RequestInv(q)
        BY DEF AnswerInv
      <3> QED
        BY <2>1, <3>1, <3>2
        DEF RequestInv, CommitsSoFar, CommitDone, NoAnswerYet, Truthful
    <2> QED
      BY <2>2 DEF AnswerInv
  <1> QED
    BY <1>1, <1>2, <1>3 DEF Follow

(* AnswersCorrect: a success is in the log, a refusal and a conflict have  *)
(* nothing there but the tombstone of a deletion, whatever handlers of one *)
(* replica overlap, whichever calls fail and whichever processes end.      *)
THEOREM AnswersCorrect == Spec => []AnswersAgree
  <1>1. Init => AnswerInv
    <2> SUFFICES ASSUME Init PROVE AnswerInv
      OBVIOUS
    <2>1. \A q \in Requests : Mine(q) = {}
      BY DEF Init, Mine
    <2> QED
      BY <2>1 DEF Init, AnswerInv, RequestInv, CommitsSoFar, CommitDone,
                  NoAnswerYet, Truthful, Op
  <1>2. TypeInv /\ AnswerInv /\ [Next]_vars => AnswerInv'
    <2> SUFFICES ASSUME TypeInv, AnswerInv, [Next]_vars PROVE AnswerInv'
      OBVIOUS
    <2>1. CASE UNCHANGED vars
      BY <2>1, QuietAnswers DEF vars, handler
    <2>2. CASE Next
      BY <2>2, HandlerAnswers, ReplicaAnswers DEF Next, Fault
    <2> QED
      BY <2>1, <2>2
  <1>3. AnswerInv => AnswersAgree
    BY DEF AnswerInv, RequestInv, Truthful, AnswersAgree, Mine
  <1> QED
    BY <1>1, <1>2, <1>3, TypeInvInit, TypeInvStep, PTL DEF Spec

-----------------------------------------------------------------------------
(* Runtimes *)

\* The log keeps its revisions.
LogKept ==
    /\ Len(log) \in Nat /\ Len(log') \in Nat /\ Len(log) <= Len(log')
    /\ \A n \in 1 .. Len(log) : log'[n] = log[n]

\* What is past stays: the loads that failed, and where a request went.
PastKept ==
    /\ \A r \in Replicas : missed[r] \subseteq missed'[r]
    /\ \A q \in Requests : pc[q] # "new" => pc'[q] # "new" /\ at'[q] = at[q]

(* PastStays: no step takes such a thing back.                             *)
LEMMA PastStays == TypeInv /\ [Next]_vars => PastKept
  <1> SUFFICES ASSUME TypeInv, [Next]_vars PROVE PastKept
    OBVIOUS
  <1>1. CASE UNCHANGED vars
    BY <1>1 DEF vars, memory, handler, PastKept
  <1>2. ASSUME NEW q \in Requests, NEW r \in Replicas, NEW o \in Operations, Begin(q, r, o)
        PROVE  PastKept
    BY <1>2 DEF Begin, memory, TypeInv, PastKept
  <1>3. ASSUME NEW q \in Requests, Handle(q) \/ CommitFails(q) \/ InstallFails(q)
        PROVE  PastKept
    <2>1. missed' = missed \/ missed' = [missed EXCEPT ![at[q]] = @ \cup {cur[at[q]]}]
      BY <1>3 DEF Handle, CommitFails, InstallFails, Miss, Refuse, Resume, Mutate, Commit,
                  Conflict, SetCurrent, Install, Finalize, Answer, CallProvider, memory
    <2>2. \A s \in Replicas : missed[s] \subseteq missed'[s]
      BY <2>1 DEF TypeInv
    <2>3. at' = at /\ pc[q] # "new"
      BY <1>3 DEF Handle, CommitFails, InstallFails, Refuse, Resume, Mutate, Commit,
                  Conflict, SetCurrent, Saved, Install, Finalize, Answer, CallProvider
    <2>4. \A p \in Requests : pc'[p] = pc[p] \/ (p = q /\ pc'[p] # "new")
      BY <1>3 DEF Handle, CommitFails, InstallFails, Refuse, Resume, Mutate, Commit,
                  Conflict, SetCurrent, Install, Finalize, Answer, CallProvider, Finish,
                  TypeInv
    <2> QED
      BY <2>2, <2>3, <2>4 DEF PastKept
  <1>4. ASSUME NEW q \in Requests, NEW c \in Clusters, ProviderFails(q, c) PROVE PastKept
    BY <1>4 DEF ProviderFails, memory, PastKept
  <1>5. ASSUME NEW r \in Replicas, Follow(r) \/ LoadFails(r) PROVE PastKept
    <2>1. missed' = missed \/ missed' = [missed EXCEPT ![r] = @ \cup {cur[r]}]
      BY <1>5 DEF Follow, Reload, Swap, Start, Bootstrap, LoadFails, Miss
    <2>2. \A s \in Replicas : missed[s] \subseteq missed'[s]
      BY <2>1 DEF TypeInv
    <2>3. at' = at /\ pc' = pc
      BY <1>5 DEF Follow, Reload, Swap, Start, Bootstrap, LoadFails, handler
    <2> QED
      BY <2>2, <2>3 DEF PastKept
  <1>6. ASSUME NEW r \in Replicas, Crash(r) PROVE PastKept
    BY <1>6 DEF Crash, PastKept
  <1> QED
    BY <1>1, <1>2, <1>3, <1>4, <1>5, <1>6 DEF Next, Fault

(* LogStays: a step that leaves the log alone.                             *)
LEMMA LogStays ==
    ASSUME TypeInv, ServeInv, PastKept, UNCHANGED log
    PROVE  LogKept /\ ChangesInv'
  <1>1. LogKept
    BY LogTyped DEF LogKept
  <1>2. ByRequests'
    BY DEF ServeInv, ChangesInv, ByRequests, PastKept
  <1>3. ASSUME NEW n \in 2 .. Len(log), log[n].on = n - 1 \/ n - 1 \in missed[at[log[n].by]]
        PROVE  log[n].on = n - 1 \/ n - 1 \in missed'[at'[log[n].by]]
    <2>1. log[n].by \in Requests /\ pc[log[n].by] # "new"
      BY DEF ServeInv, ChangesInv, ByRequests
    <2>2. at[log[n].by] \in Replicas /\ at'[log[n].by] = at[log[n].by]
      BY <2>1 DEF TypeInv, PastKept
    <2> QED
      BY <1>3, <2>2 DEF PastKept
  <1>4. OneChangePerRevision'
    BY <1>3 DEF ServeInv, ChangesInv, OneChangePerRevision
  <1> QED
    BY <1>1, <1>2, <1>4 DEF ChangesInv

(* SettledStays: a replica whose revision and runtime have not moved.      *)
LEMMA SettledStays ==
    ASSUME TypeInv, LogKept, PastKept, NEW r \in Replicas, cur'[r] = cur[r], run'[r] = run[r],
           Settled(r)
    PROVE  Settled(r)'
  <1>1. run[r].rev \in 1 .. Len(log) /\ run'[r].rev = run[r].rev
    BY DEF Settled, Serves
  <1>2. Near(r, run[r].rev)'
    BY <1>1 DEF Settled, Near, LogKept, PastKept
  <1>3. Serves(run[r])'
    BY <1>1 DEF Settled, Serves, LogKept
  <1> QED
    BY <1>2, <1>3 DEF Settled

(* StepStays: a handler on whose replica nothing has moved.                *)
LEMMA StepStays ==
    ASSUME TypeInv, LogKept, PastKept, NEW q \in Requests, at[q] \in Replicas, StepInv(q),
           pc'[q] = pc[q], at'[q] = at[q], op'[q] = op[q], exp'[q] = exp[q], snap'[q] = snap[q],
           run'[at[q]] = run[at[q]], cur'[at[q]] = cur[at[q]]
    PROVE  StepInv(q)'
  <1> DEFINE r == at[q]
  <1>1. \A n : n \in 1 .. Len(log) => n \in 1 .. Len(log') /\ log'[n] = log[n]
    BY DEF LogKept
  <1>2. pc[q] = "checked" => Settled(r)'
    <2>1. PICK s \in Replicas : s = at[q]
      OBVIOUS
    <2>2. pc[q] = "checked" => Settled(s)
      BY <2>1 DEF StepInv
    <2>3. pc[q] = "checked" => Settled(s)'
      BY <2>1, <2>2, SettledStays
    <2> QED
      BY <2>1, <2>3 DEF Settled, Near
  <1>3. pc[q] = "mutated" => Serves(snap[q])' /\ Near(r, snap[q].rev)'
    <2>1. pc[q] = "mutated" => snap[q].rev \in 1 .. Len(log) /\ Near(r, snap[q].rev)
      BY DEF StepInv, Serves
    <2>2. pc[q] = "mutated" => Near(r, snap[q].rev)'
      BY <2>1 DEF Near, LogKept, PastKept
    <2> QED
      BY <1>1, <2>2 DEF StepInv, Serves
  <1>4. pc[q] \in {"committed", "current"} =>
            /\ Serves([rev |-> exp[q] + 1, cfg |-> Installed(q)])'
            /\ op[q].kind = "import" => Serves(run[r])'
    BY <1>1 DEF StepInv, Serves, Installed
  <1> QED
    BY <1>2, <1>3, <1>4 DEF StepInv, Working

(* HandlerFrame: a handler takes a step on its replica, where it is the    *)
(* only one at work.                                                       *)
LEMMA HandlerFrame ==
    ASSUME TypeInv, TypeInv', ServeInv, PastKept, NEW q \in Requests, NEW r \in Replicas,
           at'[q] = r, pc[q] = "new" \/ at[q] = r,
           \A p \in Requests \ {q} :
               /\ pc'[p] = pc[p] /\ at'[p] = at[p] /\ op'[p] = op[p]
               /\ exp'[p] = exp[p] /\ snap'[p] = snap[p]
               /\ Working(p) => at[p] # r,
           \A s \in Replicas \ {r} : run'[s] = run[s] /\ cur'[s] = cur[s],
           UNCHANGED <<status, loaded>>, status[r] = "up", loaded[r] = Nil,
           cur'[r] >= cur[r],
           LogKept, ChangesInv',
           StepInv(q)',
           ~ Working(q)' => Settled(r)'
    PROVE  ServeInv'
  <1>1. TurnsInv'
    BY DEF ServeInv, TurnsInv, Working
  <1>2. RestInv'
    <2> SUFFICES ASSUME NEW s \in Replicas, status'[s] = "up"
                 PROVE  /\ Quiet(s)' => Settled(s)'
                        /\ loaded'[s] # Nil =>
                             /\ Serves([rev |-> cur[s], cfg |-> loaded[s]])'
                             /\ Serves(run[s])' /\ run'[s].rev <= cur'[s]
      BY DEF RestInv
    <2>1. CASE s = r
      BY <2>1 DEF Quiet
    <2>2. CASE s # r
      <3>1. Quiet(s)' => Quiet(s)
        BY <2>2 DEF Quiet, Working
      <3>2. Settled(s) => Settled(s)'
        BY <2>2, SettledStays
      <3> QED
        BY <2>2, <3>1, <3>2 DEF ServeInv, RestInv, Serves, LogKept
    <2> QED
      BY <2>1, <2>2
  <1>3. ASSUME NEW p \in Requests \ {q} PROVE StepInv(p)'
    <2>1. StepInv(p)
      BY DEF ServeInv
    <2>2. CASE pc[p] \in {"new", "done"}
      BY <2>2 DEF StepInv, Working
    <2>3. CASE pc[p] \notin {"new", "done"} /\ at[p] # r
      <3>1. at[p] \in Replicas \ {r}
        BY <2>3 DEF TypeInv
      <3>2. /\ run'[at[p]] = run[at[p]] /\ cur'[at[p]] = cur[at[p]]
            /\ pc'[p] = pc[p] /\ at'[p] = at[p] /\ op'[p] = op[p]
            /\ exp'[p] = exp[p] /\ snap'[p] = snap[p]
        BY <3>1
      <3> QED
        BY <2>1, <3>1, <3>2, StepStays
    <2>4. CASE pc[p] \notin {"new", "done"} /\ at[p] = r
      <3>1. pc[p] = "provider"
        BY <2>4 DEF Working, TypeInv
      <3>2. exp[p] <= cur'[r]
        BY <2>1, <2>4, <3>1 DEF StepInv, Working, TypeInv
      <3> QED
        BY <2>4, <3>1, <3>2 DEF StepInv, Working
    <2> QED
      BY <2>2, <2>3, <2>4
  <1> QED
    BY <1>1, <1>2, <1>3 DEF ServeInv

(* ReplicaFrame: a replica takes a step of its own; no handler is at work. *)
LEMMA ReplicaFrame ==
    ASSUME TypeInv, TypeInv', ServeInv, PastKept, NEW r \in Replicas,
           UNCHANGED handler,
           \A q \in Requests : Working(q) => at[q] # r,
           \A s \in Replicas \ {r} : /\ run'[s] = run[s] /\ cur'[s] = cur[s]
                                     /\ status'[s] = status[s] /\ loaded'[s] = loaded[s],
           status[r] = "up" => status'[r] = "up" /\ cur'[r] >= cur[r],
           loaded'[r] # Nil => status'[r] = "up",
           LogKept, ChangesInv',
           status'[r] = "up" =>
               /\ loaded'[r] = Nil => Settled(r)'
               /\ loaded'[r] # Nil =>
                    /\ Serves([rev |-> cur[r], cfg |-> loaded[r]])'
                    /\ Serves(run[r])' /\ run'[r].rev <= cur'[r]
    PROVE  ServeInv'
  <1>0. UNCHANGED <<pc, at, op, exp, snap>>
    BY DEF handler
  <1>1. TurnsInv'
    <2>1. \A q \in Requests : pc[q] # "new" /\ pc[q] # "done" => at[q] \in Replicas
      BY DEF TypeInv
    <2> QED
      BY <1>0, <2>1 DEF ServeInv, TurnsInv, Working
  <1>2. RestInv'
    <2> SUFFICES ASSUME NEW s \in Replicas, status'[s] = "up"
                 PROVE  /\ Quiet(s)' => Settled(s)'
                        /\ loaded'[s] # Nil =>
                             /\ Serves([rev |-> cur[s], cfg |-> loaded[s]])'
                             /\ Serves(run[s])' /\ run'[s].rev <= cur'[s]
      BY DEF RestInv
    <2>1. CASE s = r
      BY <2>1 DEF Quiet
    <2>2. CASE s # r
      <3>1. Quiet(s)' => Quiet(s)
        BY <1>0, <2>2 DEF Quiet, Working
      <3>2. Settled(s) => Settled(s)'
        BY <2>2, SettledStays
      <3> QED
        BY <2>2, <3>1, <3>2 DEF ServeInv, RestInv, Serves, LogKept
    <2> QED
      BY <2>1, <2>2
  <1>3. ASSUME NEW p \in Requests PROVE StepInv(p)'
    <2>1. StepInv(p)
      BY DEF ServeInv
    <2>2. CASE pc[p] \in {"new", "done"}
      BY <1>0, <2>2 DEF StepInv, Working
    <2>3. CASE pc[p] \notin {"new", "done"} /\ at[p] # r
      <3>1. at[p] \in Replicas \ {r}
        BY <2>3 DEF TypeInv
      <3>2. run'[at[p]] = run[at[p]] /\ cur'[at[p]] = cur[at[p]]
        BY <3>1
      <3> QED
        BY <1>0, <2>1, <3>1, <3>2, StepStays
    <2>4. CASE pc[p] \notin {"new", "done"} /\ at[p] = r
      <3>1. pc[p] = "provider"
        BY <2>4 DEF Working, TypeInv
      <3>2. status[r] = "up"
        BY <2>4, <3>1 DEF ServeInv, TurnsInv
      <3>3. exp[p] <= cur'[r]
        BY <2>1, <2>4, <3>1, <3>2 DEF StepInv, Working, TypeInv
      <3> QED
        BY <1>0, <2>4, <3>1, <3>3 DEF StepInv, Working
    <2> QED
      BY <2>2, <2>3, <2>4
  <1> QED
    BY <1>1, <1>2, <1>3 DEF ServeInv

(* Alone: a handler at work shares its replica with no other and with no   *)
(* reload.                                                                 *)
LEMMA Alone ==
    ASSUME TypeInv, ServeInv, NEW q \in Requests, Working(q)
    PROVE  /\ at[q] \in Replicas /\ status[at[q]] = "up" /\ loaded[at[q]] = Nil
           /\ \A p \in Requests \ {q} : Working(p) => at[p] # at[q]
  BY DEF ServeInv, TurnsInv, TypeInv, Working

(* Free: where the event loop is free, nothing is at work.                 *)
LEMMA Free ==
    ASSUME ServeInv, NEW r \in Replicas, LoopFree(r)
    PROVE  loaded[r] = Nil /\ \A q \in Requests : Working(q) => at[q] # r
  BY DEF LoopFree, ServeInv, StepInv

(* BeginServes: a request finds its replica at rest.                       *)
LEMMA BeginServes ==
    ASSUME TakingTurns, TypeInv, TypeInv', ServeInv, PastKept,
           NEW q \in Requests, NEW r \in Replicas, NEW o \in Operations, Begin(q, r, o)
    PROVE  ServeInv'
  <1>0. Turns \/ OnLoop(o)
    BY DEF Begin, TakingTurns, OnLoop
  <1>1. LoopFree(r) /\ pc[q] = "new" /\ status[r] = "up"
    BY <1>0 DEF Begin
  <1>2. loaded[r] = Nil /\ \A p \in Requests : Working(p) => at[p] # r
    BY <1>1, Free
  <1>3. Quiet(r)
    BY <1>1, <1>2 DEF Quiet
  <1>4. Settled(r) /\ cur[r] \in Nat
    BY <1>1, <1>3 DEF ServeInv, RestInv, TypeInv
  <1>5. /\ pc'[q] = "checked" /\ at'[q] = r /\ exp'[q] = cur[r]
        /\ UNCHANGED <<log, status, cur, run, loaded>> /\ op'[q] = o
        /\ \A p \in Requests \ {q} :
               /\ pc'[p] = pc[p] /\ at'[p] = at[p] /\ op'[p] = op[p]
               /\ exp'[p] = exp[p] /\ snap'[p] = snap[p]
    BY DEF Begin, TypeInv, memory
  <1>6. LogKept /\ ChangesInv'
    BY <1>5, LogStays
  <1>7. Settled(r)'
    BY <1>4, <1>5, <1>6, SettledStays
  <1>8. StepInv(q)'
    BY <1>0, <1>4, <1>5, <1>7 DEF StepInv, Working, Settled, Near
  <1>9. Working(q)' /\ cur'[r] >= cur[r]
    BY <1>4, <1>5 DEF Working
  <1> QED
    BY <1>1, <1>2, <1>5, <1>6, <1>7, <1>8, <1>9, HandlerFrame

(* CheckedServes: the steps of a handler that has read its replica.        *)
LEMMA CheckedServes ==
    ASSUME TypeInv, TypeInv', ServeInv, PastKept, NEW q \in Requests,
           Refuse(q) \/ Resume(q) \/ Mutate(q)
    PROVE  ServeInv'
  <1> DEFINE r == at[q]
  <1>1. pc[q] = "checked" /\ Working(q)
    BY DEF Refuse, Resume, Mutate, Working
  <1>2. /\ r \in Replicas /\ status[r] = "up" /\ loaded[r] = Nil
        /\ \A p \in Requests \ {q} : Working(p) => at[p] # r
    BY <1>1, Alone
  <1>3. /\ Settled(r) /\ exp[q] <= cur[r] /\ (Turns \/ OnLoop(op[q]))
    BY <1>1 DEF ServeInv, StepInv, Working
  <1>4. /\ UNCHANGED <<log, status, cur, loaded, at, op, exp>>
        /\ \A p \in Requests \ {q} : pc'[p] = pc[p] /\ snap'[p] = snap[p]
    BY DEF Refuse, Resume, Mutate, TypeInv, memory, Finish
  <1>5. LogKept /\ ChangesInv'
    BY <1>4, LogStays
  <1>6. run[r] \in Runtime
    BY <1>2 DEF TypeInv
  <1>7. CASE Refuse(q) \/ Resume(q)
    <2>1. run' = run /\ pc'[q] \in {"done", "provider"}
      BY <1>7 DEF Refuse, Resume, TypeInv, memory, Finish
    <2>2. StepInv(q)' /\ ~ Working(q)'
      BY <1>3, <1>4, <2>1 DEF StepInv, Working
    <2>3. Settled(r)'
      BY <1>2, <1>3, <1>4, <1>5, <2>1, SettledStays
    <2>4. cur'[r] >= cur[r]
      BY <1>2, <1>4 DEF TypeInv
    <2> QED
      BY <1>2, <1>4, <1>5, <2>1, <2>2, <2>3, <2>4, HandlerFrame
  <1>8. CASE Mutate(q)
    <2>1. /\ pc'[q] = "mutated" /\ Admissible(run[r].cfg, op[q]) /\ snap'[q] = run[r]
          /\ \A s \in Replicas \ {r} : run'[s] = run[s]
      BY <1>8 DEF Mutate, Snapshot, TypeInv
    <2>2. /\ run'[r].rev = run[r].rev
          /\ run'[r].cfg = IF op[q].kind = "import" THEN run[r].cfg
                           ELSE Apply(run[r].cfg, op[q])
      BY <1>2, <1>6, <1>8 DEF Mutate, TypeInv, Runtime
    <2>3. Serves(snap[q])' /\ Near(r, snap[q].rev)'
      BY <1>2, <1>3, <1>4, <1>5, <2>1 DEF Settled, Serves, Near, LogKept, PastKept
    <2>4. StepInv(q)' /\ Working(q)'
      BY <1>3, <1>4, <2>1, <2>2, <2>3 DEF StepInv, Working
    <2>5. cur'[r] >= cur[r]
      BY <1>2, <1>4 DEF TypeInv
    <2> QED
      BY <1>2, <1>4, <1>5, <2>1, <2>4, <2>5, HandlerFrame
  <1> QED
    BY <1>7, <1>8

(* CommitIsChange: what a handler commits is the revision of its runtime   *)
(* with its change; unless a load has failed, that is the newest revision. *)
LEMMA CommitIsChange ==
    ASSUME TypeInv, ServeInv, PastKept, NEW q \in Requests, pc[q] = "mutated", IsCurrent(q),
           Committed(Payload(q), op[q], q, snap[q].rev)
    PROVE  /\ LogKept /\ ChangesInv'
           /\ Len(log') = Len(log) + 1 /\ log'[Len(log) + 1].cfg = Payload(q)
           /\ cur[at[q]] = Len(log) /\ snap[q].rev <= Len(log)
  <1>1. Payload(q) \in Config /\ op[q] \in Operation /\ snap[q].rev \in Nat
    BY DEF TypeInv, Payload, WellFormed, Runtime
  <1>2. /\ Len(log) \in Nat /\ Len(log') = Len(log) + 1
        /\ \A n \in 1 .. Len(log) : log'[n] = log[n]
        /\ log'[Len(log) + 1] = [cfg |-> Payload(q), op |-> op[q], by |-> q,
                                 on |-> snap[q].rev]
    BY <1>1, CommittedTyped
  <1>3. at[q] \in Replicas /\ cur[at[q]] \in Nat
    BY DEF TypeInv
  <1>4. /\ Serves(snap[q]) /\ Near(at[q], snap[q].rev) /\ exp[q] <= cur[at[q]]
        /\ Admissible(snap[q].cfg, op[q])
        /\ run[at[q]].cfg = IF op[q].kind = "import" THEN snap[q].cfg
                            ELSE Apply(snap[q].cfg, op[q])
    BY DEF ServeInv, StepInv, Working
  <1>5. /\ snap[q].rev \in 1 .. Len(log) /\ snap[q].cfg = log[snap[q].rev].cfg
        /\ cur[at[q]] = Len(log)
        /\ snap[q].rev = Len(log) \/ Len(log) \in missed[at[q]]
    BY <1>1, <1>2, <1>3, <1>4 DEF IsCurrent, Serves, Near
  <1>6. Payload(q) = Apply(snap[q].cfg, op[q])
    BY <1>4 DEF Payload, Apply
  <1>7. pc'[q] # "new" /\ at'[q] = at[q]
    BY DEF PastKept
  <1>8. ByRequests'
    <2> SUFFICES ASSUME NEW n \in 2 .. Len(log')
                 PROVE  log'[n].by \in Requests /\ pc'[log'[n].by] # "new"
      BY DEF ByRequests
    <2>1. CASE n = Len(log) + 1
      BY <1>2, <1>7, <2>1
    <2>2. CASE n # Len(log) + 1
      <3>1. n \in 2 .. Len(log) /\ log'[n] = log[n]
        BY <1>2, <2>2
      <3> QED
        BY <3>1 DEF ServeInv, ChangesInv, ByRequests, PastKept
    <2> QED
      BY <2>1, <2>2
  <1>9. ASSUME NEW n \in 2 .. Len(log')
        PROVE  /\ log'[n].on \in 1 .. n - 1
               /\ Admissible(log'[log'[n].on].cfg, log'[n].op)
               /\ log'[n].cfg = Apply(log'[log'[n].on].cfg, log'[n].op)
               /\ log'[n].on = n - 1 \/ n - 1 \in missed'[at'[log'[n].by]]
    <2>1. CASE n = Len(log) + 1
      <3>1. n - 1 = Len(log) /\ log'[n].on = snap[q].rev /\ log'[n].by = q
            /\ log'[n].op = op[q] /\ log'[n].cfg = Payload(q)
        BY <1>2, <2>1
      <3>2. log'[snap[q].rev].cfg = snap[q].cfg
        BY <1>2, <1>5
      <3>3. snap[q].rev = Len(log) \/ Len(log) \in missed'[at'[q]]
        BY <1>3, <1>5, <1>7 DEF PastKept
      <3> QED
        BY <1>4, <1>5, <1>6, <3>1, <3>2, <3>3
    <2>2. CASE n # Len(log) + 1
      <3>1. n \in 2 .. Len(log) /\ log'[n] = log[n]
        BY <1>2, <2>2
      <3>2. /\ log[n].on \in 1 .. n - 1
            /\ Admissible(log[log[n].on].cfg, log[n].op)
            /\ log[n].cfg = Apply(log[log[n].on].cfg, log[n].op)
            /\ log[n].on = n - 1 \/ n - 1 \in missed[at[log[n].by]]
        BY <3>1 DEF ServeInv, ChangesInv, OneChangePerRevision
      <3>3. log[n].on \in 1 .. Len(log) /\ log'[log[n].on] = log[log[n].on]
        BY <1>2, <3>1, <3>2
      <3>4. log[n].by \in Requests /\ pc[log[n].by] # "new"
        BY <3>1 DEF ServeInv, ChangesInv, ByRequests
      <3>5. at[log[n].by] \in Replicas /\ at'[log[n].by] = at[log[n].by]
        BY <3>4 DEF TypeInv, PastKept
      <3>6. n - 1 \in missed[at[log[n].by]] => n - 1 \in missed'[at'[log[n].by]]
        BY <3>5 DEF PastKept
      <3> QED
        BY <3>1, <3>2, <3>3, <3>6
    <2> QED
      BY <2>1, <2>2
  <1>10. LogKept
    BY <1>2 DEF LogKept
  <1>11. OneChangePerRevision'
    BY <1>9 DEF OneChangePerRevision
  <1>12. log'[Len(log) + 1].cfg = Payload(q)
    BY <1>2
  <1> QED
    BY <1>2, <1>5, <1>8, <1>10, <1>11, <1>12 DEF ChangesInv

(* MutatedServes: the commit, its conflict and its failure.                *)
LEMMA MutatedServes ==
    ASSUME TypeInv, TypeInv', ServeInv, PastKept, NEW q \in Requests,
           Commit(q) \/ Conflict(q) \/ CommitFails(q)
    PROVE  ServeInv'
  <1> DEFINE r == at[q]
  <1>1. pc[q] = "mutated" /\ Working(q)
    BY DEF Commit, Conflict, CommitFails, Working
  <1>2. /\ r \in Replicas /\ status[r] = "up" /\ loaded[r] = Nil
        /\ \A p \in Requests \ {q} : Working(p) => at[p] # r
    BY <1>1, Alone
  <1>3. /\ Serves(snap[q]) /\ Near(r, snap[q].rev) /\ run[r].rev = snap[q].rev
        /\ exp[q] <= cur[r] /\ (Turns \/ OnLoop(op[q]))
        /\ run[r].cfg = IF op[q].kind = "import" THEN snap[q].cfg
                        ELSE Apply(snap[q].cfg, op[q])
    BY <1>1 DEF ServeInv, StepInv, Working
  <1>4. /\ UNCHANGED <<status, cur, loaded, at, op, exp, snap>>
        /\ \A p \in Requests \ {q} : pc'[p] = pc[p]
    BY DEF Commit, Conflict, CommitFails, TypeInv, memory, Finish
  <1>5. LogKept /\ ChangesInv'
    <2>1. UNCHANGED log \/ (IsCurrent(q) /\ Committed(Payload(q), op[q], q, snap[q].rev))
      BY DEF Commit, Conflict, CommitFails
    <2> QED
      BY <1>1, <2>1, LogStays, CommitIsChange
  <1>6. run[r] \in Runtime /\ snap[q] \in Runtime
    BY <1>2 DEF TypeInv
  <1>7. CASE Commit(q)
    <2>1. /\ pc'[q] = "committed" /\ run' = run
          /\ IsCurrent(q) /\ Committed(Payload(q), op[q], q, snap[q].rev)
      BY <1>7 DEF Commit, TypeInv, memory
    <2>2. /\ snap[q].rev <= Len(log) /\ exp[q] = Len(log) /\ Len(log) \in Nat
          /\ cur[r] = Len(log)
          /\ Len(log') = Len(log) + 1 /\ log'[Len(log) + 1].cfg = Payload(q)
      BY <1>1, <2>1, CommitIsChange, LogTyped DEF IsCurrent
    <2>3. Installed(q)' = Payload(q)
      BY <1>4, <2>1 DEF Installed, Payload
    <2>4. Len(log) + 1 \in 1 .. Len(log')
      BY <2>2
    <2>5. op[q].kind = "import" => Serves(run[r])'
      BY <1>3, <1>4, <1>5, <2>1 DEF Serves, LogKept
    <2>6. StepInv(q)' /\ Working(q)'
      BY <1>3, <1>4, <2>1, <2>2, <2>3, <2>4, <2>5 DEF StepInv, Working, Serves
    <2>7. cur'[r] >= cur[r]
      BY <1>2, <1>4 DEF TypeInv
    <2> QED
      BY <1>2, <1>4, <1>5, <2>1, <2>6, <2>7, HandlerFrame
  <1>8. CASE Conflict(q) \/ CommitFails(q)
    <2>1. pc'[q] = "done" /\ run' = Restored(q)
      BY <1>8 DEF Conflict, CommitFails, Finish, TypeInv
    <2>2. /\ run'[r].rev = snap[q].rev /\ run'[r].cfg = snap[q].cfg
          /\ \A s \in Replicas \ {r} : run'[s] = run[s]
      BY <1>2, <1>3, <2>1 DEF Restored, TypeInv
    <2>3. Settled(r)'
      BY <1>2, <1>3, <1>4, <1>5, <2>2 DEF Settled, Serves, Near, LogKept, PastKept
    <2>4. StepInv(q)'
      BY <2>1 DEF StepInv, Working
    <2>5. cur'[r] >= cur[r]
      BY <1>2, <1>4 DEF TypeInv
    <2> QED
      BY <1>2, <1>4, <1>5, <2>2, <2>3, <2>4, <2>5, HandlerFrame
  <1> QED
    BY <1>7, <1>8

(* CommittedServes: the runtime is told its revision.                      *)
LEMMA CommittedServes ==
    ASSUME TypeInv, TypeInv', ServeInv, PastKept, NEW q \in Requests,
           SetCurrent(q) \/ Install(q) \/ InstallFails(q)
    PROVE  ServeInv'
  <1> DEFINE r == at[q]
  <1>1. pc[q] \in {"committed", "current"} /\ Working(q)
    BY DEF SetCurrent, Saved, Install, InstallFails, Working
  <1>2. /\ r \in Replicas /\ status[r] = "up" /\ loaded[r] = Nil
        /\ \A p \in Requests \ {q} : Working(p) => at[p] # r
    BY <1>1, Alone
  <1>3. /\ Serves([rev |-> exp[q] + 1, cfg |-> Installed(q)])
        /\ run[r].rev <= exp[q] /\ exp[q] \in Nat /\ run[r].rev \in Nat
        /\ op[q].kind = "import" => Serves(run[r])
        /\ pc[q] = "committed" => cur[r] = exp[q]
        /\ pc[q] = "current" => cur[r] = exp[q] + 1
        /\ Turns \/ OnLoop(op[q])
    BY <1>1, <1>2 DEF ServeInv, StepInv, Working, TypeInv, Runtime
  <1>4. /\ UNCHANGED <<log, status, loaded, at, op, snap>>
        /\ \A p \in Requests \ {q} : pc'[p] = pc[p] /\ exp'[p] = exp[p]
    BY DEF SetCurrent, Install, InstallFails, TypeInv, memory, Finish
  <1>5. LogKept /\ ChangesInv'
    BY <1>4, LogStays
  <1>6. CASE SetCurrent(q)
    <2>1. /\ pc'[q] = "current" /\ run' = run /\ exp' = exp
          /\ cur'[r] = exp[q] + 1 /\ \A s \in Replicas \ {r} : cur'[s] = cur[s]
      BY <1>2, <1>6 DEF SetCurrent, NextRevision, TypeInv
    <2>2. Installed(q)' = Installed(q)
      BY <1>4, <2>1 DEF Installed
    <2>3. StepInv(q)' /\ Working(q)'
      BY <1>3, <1>4, <2>1, <2>2 DEF StepInv, Working, Serves
    <2>4. cur'[r] >= cur[r]
      BY <1>3, <1>6, <2>1 DEF SetCurrent, Saved
    <2> QED
      BY <1>2, <1>4, <1>5, <2>1, <2>3, <2>4, HandlerFrame
  <1>7. CASE Install(q)
    <2>1. pc[q] = "current" /\ cur[r] = exp[q] + 1 /\ cur' = cur
      BY <1>3, <1>7 DEF Install
    <2>2. ~ MarkRaises(q)
      BY <1>3, <2>1 DEF MarkRaises
    <2>3. /\ run' = [run EXCEPT ![r] = [rev |-> cur[r], cfg |-> Installed(q)]]
          /\ exp'[q] = cur[r] /\ pc'[q] = "provider"
      BY <1>7, <2>2 DEF Install, TypeInv
    <2>4. /\ run'[r].rev = cur[r] /\ run'[r].cfg = Installed(q)
          /\ \A s \in Replicas \ {r} : run'[s] = run[s]
      BY <1>2, <2>3 DEF TypeInv
    <2>5. Settled(r)'
      BY <1>3, <1>4, <2>1, <2>4 DEF Settled, Serves, Near
    <2>6. StepInv(q)'
      BY <1>3, <1>4, <2>1, <2>3, <2>4 DEF StepInv, Working
    <2>7. cur'[r] >= cur[r]
      BY <1>3, <2>1
    <2> QED
      BY <1>2, <1>4, <1>5, <2>1, <2>4, <2>5, <2>6, <2>7, HandlerFrame
  <1>8. CASE InstallFails(q)
    <2>1. /\ cur[r] = exp[q] + 1 /\ UNCHANGED <<cur, run, exp>> /\ pc'[q] = "done"
          /\ Serves(run[r]) /\ cur[r] \in missed'[r]
      BY <1>2, <1>3, <1>8 DEF InstallFails, Miss, Finish, TypeInv
    <2>2. Settled(r)'
      BY <1>3, <1>4, <2>1 DEF Settled, Serves, Near
    <2>3. StepInv(q)'
      BY <2>1 DEF StepInv, Working
    <2>4. cur'[r] >= cur[r]
      BY <1>3, <2>1
    <2> QED
      BY <1>2, <1>4, <1>5, <2>1, <2>2, <2>3, <2>4, HandlerFrame
  <1> QED
    BY <1>6, <1>7, <1>8

(* ProviderServes: the calls to the providers and the answer.              *)
LEMMA ProviderServes ==
    ASSUME TypeInv, ServeInv, PastKept,
           UNCHANGED <<log, status, cur, run, loaded, at, op, exp, snap>>,
           \A q \in Requests :
               pc'[q] = pc[q] \/ (pc[q] = "provider" /\ pc'[q] = "done")
    PROVE  ServeInv'
  <1>0. LogKept /\ ChangesInv'
    BY LogStays
  <1>1. TurnsInv'
    BY DEF ServeInv, TurnsInv, Working
  <1>2. RestInv'
    <2>1. \A r \in Replicas : Quiet(r)' => Quiet(r)
      BY DEF Quiet, Working
    <2>2. \A r \in Replicas : Settled(r) => Settled(r)'
      BY <1>0, SettledStays
    <2> QED
      BY <2>1, <2>2 DEF ServeInv, RestInv, Serves
  <1>3. ASSUME NEW q \in Requests PROVE StepInv(q)'
    <2>1. StepInv(q)
      BY DEF ServeInv
    <2>2. CASE pc'[q] = pc[q]
      <3>1. CASE pc[q] = "new"
        BY <2>2, <3>1 DEF StepInv, Working
      <3>2. CASE pc[q] # "new"
        <4>1. at[q] \in Replicas
          BY <3>2 DEF TypeInv
        <4> QED
          BY <1>0, <2>1, <2>2, <4>1, StepStays
      <3> QED
        BY <3>1, <3>2
    <2>3. CASE pc'[q] = "done"
      BY <2>3 DEF StepInv, Working
    <2> QED
      BY <2>2, <2>3
  <1> QED
    BY <1>0, <1>1, <1>2, <1>3 DEF ServeInv

(* FinalizeServes: a deletion comes back to a replica at rest, which may   *)
(* have moved on in the meantime.                                          *)
LEMMA FinalizeServes ==
    ASSUME TakingTurns, TypeInv, TypeInv', ServeInv, PastKept, NEW q \in Requests, Finalize(q)
    PROVE  ServeInv'
  <1> DEFINE r == at[q]
  <1>1. LoopFree(r) /\ pc[q] = "provider" /\ r \in Replicas
    BY DEF Finalize, TypeInv
  <1>2. loaded[r] = Nil /\ \A p \in Requests : Working(p) => at[p] # r
    BY <1>1, Free
  <1>3. status[r] = "up" /\ exp[q] <= cur[r]
    BY <1>1 DEF ServeInv, TurnsInv, StepInv, Working
  <1>4. Quiet(r)
    BY <1>2, <1>3 DEF Quiet
  <1>5. Settled(r) /\ cur[r] \in Nat
    BY <1>1, <1>3, <1>4 DEF ServeInv, RestInv, TypeInv
  <1>6. /\ pc'[q] = "checked" /\ op'[q].kind = "finalize"
        /\ UNCHANGED <<log, status, cur, run, loaded, at, exp, snap>>
        /\ \A p \in Requests \ {q} : pc'[p] = pc[p] /\ op'[p] = op[p]
    BY DEF Finalize, TypeInv, Operation, memory
  <1>7. LogKept /\ ChangesInv'
    BY <1>6, LogStays
  <1>8. Settled(r)'
    BY <1>1, <1>5, <1>6, <1>7, SettledStays
  <1>9. StepInv(q)' /\ Working(q)'
    BY <1>3, <1>6, <1>8 DEF StepInv, Working, OnLoop
  <1>10. cur'[r] >= cur[r]
    BY <1>5, <1>6
  <1> QED
    BY <1>1, <1>2, <1>3, <1>6, <1>7, <1>9, <1>10, HandlerFrame

(* HandleServes: a handler's steps.                                        *)
LEMMA HandleServes ==
    ASSUME TakingTurns, TypeInv, TypeInv', ServeInv, PastKept, NEW q \in Requests,
           \/ Handle(q) \/ CommitFails(q) \/ InstallFails(q)
           \/ \E c \in Clusters : ProviderFails(q, c)
    PROVE  ServeInv'
  <1>1. CASE Answer(q) \/ \E c \in Clusters : CallProvider(q, c) \/ ProviderFails(q, c)
    <2>1. UNCHANGED <<log, status, cur, run, loaded, at, op, exp, snap>>
      BY <1>1 DEF Answer, CallProvider, ProviderFails, memory
    <2>2. \A p \in Requests :
              pc'[p] = pc[p] \/ (pc[p] = "provider" /\ pc'[p] = "done")
      BY <1>1 DEF Answer, CallProvider, ProviderFails, Finish, TypeInv
    <2> QED
      BY <2>1, <2>2, ProviderServes
  <1>2. CASE Finalize(q)
    BY <1>2, FinalizeServes
  <1>3. CASE Refuse(q) \/ Resume(q) \/ Mutate(q)
    BY <1>3, CheckedServes
  <1>4. CASE Commit(q) \/ Conflict(q) \/ CommitFails(q)
    BY <1>4, MutatedServes
  <1>5. CASE SetCurrent(q) \/ Install(q) \/ InstallFails(q)
    BY <1>5, CommittedServes
  <1> QED
    BY <1>1, <1>2, <1>3, <1>4, <1>5 DEF Handle

(* FollowServes: a replica reloads, starts or bootstraps the state.        *)
LEMMA FollowServes ==
    ASSUME TakingTurns, TypeInv, TypeInv', ServeInv, PastKept, NEW r \in Replicas,
           Follow(r) \/ LoadFails(r)
    PROVE  ServeInv'
  <1>1. UNCHANGED handler
    BY DEF Follow, LoadFails, Reload, Swap, Start, Bootstrap
  <1>2. run[r] \in Runtime /\ cur[r] \in Nat /\ Len(log) \in Nat
    BY LogTyped DEF TypeInv
  <1>3. \A q \in Requests : Working(q) => at[q] # r
    <2>1. CASE Reload(r)
      BY <2>1, Free DEF Reload
    <2>2. CASE LoadFails(r) \/ Swap(r) \/ Start(r) \/ Bootstrap(r)
      BY <2>2 DEF LoadFails, Swap, Start, Bootstrap, ServeInv, TurnsInv
    <2> QED
      BY <2>1, <2>2 DEF Follow
  <1>4. status[r] # "up" => loaded[r] = Nil
    BY DEF ServeInv, TurnsInv
  <1>5. CASE Reload(r)
    <2>0. Settled(r)
      BY <1>3, <1>5 DEF Reload, LoopFree, Quiet, ServeInv, RestInv
    <2>1. /\ UNCHANGED <<log, run, status>> /\ status[r] = "up" /\ loaded[r] = Nil
          /\ cur' = [cur EXCEPT ![r] = Len(log)]
          /\ loaded' = [loaded EXCEPT ![r] = log[Len(log)].cfg]
          /\ Len(log) > run[r].rev
      BY <1>5 DEF Reload, LoadState, Behind, LoopFree
    <2>2. /\ cur'[r] = Len(log) /\ loaded'[r] = log[Len(log)].cfg
          /\ \A s \in Replicas \ {r} : cur'[s] = cur[s] /\ loaded'[s] = loaded[s]
      BY <2>1 DEF TypeInv
    <2>3. Len(log) \in 1 .. Len(log)
      BY <1>2, <2>1 DEF Runtime
    <2>4. loaded'[r] # Nil
      BY <2>2, <2>3, LogTyped, NoConfigIsNil
    <2>5. /\ Serves([rev |-> cur[r], cfg |-> loaded[r]])'
          /\ Serves(run[r])' /\ run'[r].rev <= cur'[r]
      BY <1>2, <2>0, <2>1, <2>2, <2>3 DEF Settled, Serves, Runtime
    <2>6. LogKept /\ ChangesInv'
      BY <2>1, LogStays
    <2>7. cur'[r] >= cur[r]
      BY <1>2, <2>0, <2>2 DEF Settled, Near
    <2> QED
      BY <1>1, <1>3, <2>1, <2>2, <2>4, <2>5, <2>6, <2>7, ReplicaFrame
  <1>6. CASE Swap(r)
    <2>1. /\ UNCHANGED <<log, cur, status>> /\ loaded[r] # Nil
          /\ run' = [run EXCEPT ![r] = [rev |-> cur[r], cfg |-> loaded[r]]]
          /\ loaded' = [loaded EXCEPT ![r] = Nil]
      BY <1>6 DEF Swap
    <2>2. /\ run'[r] = [rev |-> cur[r], cfg |-> loaded[r]] /\ loaded'[r] = Nil
          /\ \A s \in Replicas \ {r} : run'[s] = run[s] /\ loaded'[s] = loaded[s]
      BY <2>1 DEF TypeInv
    <2>3. status[r] = "up"
      BY <2>1 DEF ServeInv, TurnsInv
    <2>4. Serves([rev |-> cur[r], cfg |-> loaded[r]]) /\ run[r].rev <= cur[r]
      BY <2>1, <2>3 DEF ServeInv, RestInv
    <2>5. Settled(r)' /\ cur'[r] >= cur[r]
      BY <1>2, <2>1, <2>2, <2>4 DEF Settled, Near, Serves, Runtime
    <2>6. LogKept /\ ChangesInv'
      BY <2>1, LogStays
    <2> QED
      BY <1>1, <1>3, <2>1, <2>2, <2>3, <2>5, <2>6, ReplicaFrame
  <1>7. CASE Start(r)
    <2>1. UNCHANGED <<log, loaded>> /\ status[r] = "down"
      BY <1>7 DEF Start
    <2>2. LogKept /\ ChangesInv'
      BY <2>1, LogStays
    <2>3. CASE log = <<>>
      <3>1. /\ UNCHANGED <<cur, run>> /\ status'[r] = "boot"
            /\ \A s \in Replicas \ {r} : status'[s] = status[s]
        BY <1>7, <2>3 DEF Start, TypeInv
      <3> QED
        BY <1>1, <1>3, <1>4, <2>1, <2>2, <3>1, ReplicaFrame
    <2>4. CASE log # <<>>
      <3>1. Serve(r, Len(log), log[Len(log)].cfg)
        BY <1>7, <2>4 DEF Start
      <3>2. /\ status'[r] = "up" /\ cur'[r] = Len(log)
            /\ run'[r] = [rev |-> Len(log), cfg |-> log[Len(log)].cfg]
            /\ \A s \in Replicas \ {r} : /\ status'[s] = status[s] /\ cur'[s] = cur[s]
                                         /\ run'[s] = run[s]
        BY <3>1 DEF Serve, TypeInv
      <3>3. Len(log) \in 1 .. Len(log)
        BY <1>2, <2>4, EmptySeq DEF TypeInv
      <3>4. Settled(r)'
        BY <2>1, <3>2, <3>3 DEF Settled, Near, Serves
      <3> QED
        BY <1>1, <1>3, <1>4, <2>1, <2>2, <3>2, <3>4, ReplicaFrame
    <2> QED
      BY <2>3, <2>4
  <1>8. CASE Bootstrap(r)
    <2>1. loaded' = loaded /\ status[r] = "boot"
      BY <1>8 DEF Bootstrap
    <2>2. CASE log # <<>>
      <3>1. /\ UNCHANGED <<log, cur, run>> /\ status'[r] = "down"
            /\ \A s \in Replicas \ {r} : status'[s] = status[s]
        BY <1>8, <2>2 DEF Bootstrap, TypeInv
      <3>2. LogKept /\ ChangesInv'
        BY <3>1, LogStays
      <3> QED
        BY <1>1, <1>3, <1>4, <2>1, <3>1, <3>2, ReplicaFrame
    <2>3. CASE log = <<>>
      <3>1. /\ Committed(BaseConfig, Op("import", Nil, Nil, BaseConfig), Nil, 0)
            /\ Serve(r, 1, BaseConfig)
        BY <1>8, <2>3 DEF Bootstrap
      <3>2. Op("import", Nil, Nil, BaseConfig) \in Operation
        BY BaseTyped DEF Op, Operation
      <3>3. /\ Len(log) = 0 /\ Len(log') = 1 /\ log'[1].cfg = BaseConfig
            /\ LogKept
        <4>1. Len(log) = 0
          BY <2>3
        <4>2. /\ Len(log') = Len(log) + 1
              /\ \A n \in 1 .. Len(log) : log'[n] = log[n]
              /\ log'[Len(log) + 1] = [cfg |-> BaseConfig,
                                       op |-> Op("import", Nil, Nil, BaseConfig),
                                       by |-> Nil, on |-> 0]
          BY <3>1, <3>2, BaseTyped, CommittedTyped
        <4> QED
          BY <4>1, <4>2 DEF LogKept
      <3>4. ChangesInv'
        BY <3>3 DEF ChangesInv, ByRequests, OneChangePerRevision
      <3>5. /\ status'[r] = "up" /\ cur'[r] = 1
            /\ run'[r] = [rev |-> 1, cfg |-> BaseConfig]
            /\ \A s \in Replicas \ {r} : /\ status'[s] = status[s] /\ cur'[s] = cur[s]
                                         /\ run'[s] = run[s]
        BY <3>1 DEF Serve, TypeInv
      <3>6. Settled(r)'
        BY <3>3, <3>5 DEF Settled, Near, Serves
      <3> QED
        BY <1>1, <1>3, <1>4, <2>1, <3>3, <3>4, <3>5, <3>6, ReplicaFrame
    <2> QED
      BY <2>2, <2>3
  <1>9. CASE LoadFails(r)
    <2>1. /\ UNCHANGED <<log, status, cur, run>> /\ loaded[r] # Nil /\ loaded'[r] = Nil
          /\ cur[r] \in missed'[r]
          /\ \A s \in Replicas \ {r} : loaded'[s] = loaded[s]
      BY <1>9 DEF LoadFails, Miss, TypeInv
    <2>2. status[r] = "up"
      BY <2>1 DEF ServeInv, TurnsInv
    <2>3. /\ Serves([rev |-> cur[r], cfg |-> loaded[r]])
          /\ Serves(run[r]) /\ run[r].rev <= cur[r]
      BY <2>1, <2>2 DEF ServeInv, RestInv
    <2>4. Settled(r)' /\ cur'[r] >= cur[r]
      BY <1>2, <2>1, <2>3 DEF Settled, Near, Serves
    <2>5. LogKept /\ ChangesInv'
      BY <2>1, LogStays
    <2> QED
      BY <1>1, <1>3, <2>1, <2>2, <2>4, <2>5, ReplicaFrame
  <1> QED
    BY <1>5, <1>6, <1>7, <1>8, <1>9 DEF Follow

(* CrashServes: the process and its requests are gone.                     *)
LEMMA CrashServes ==
    ASSUME TypeInv, TypeInv', ServeInv, PastKept, NEW r \in Replicas, Crash(r)
    PROVE  ServeInv'
  <1>1. /\ UNCHANGED <<log, at, op, exp, snap>>
        /\ status'[r] = "down" /\ loaded'[r] = Nil
        /\ \A s \in Replicas \ {r} : /\ status'[s] = status[s] /\ cur'[s] = cur[s]
                                     /\ run'[s] = run[s] /\ loaded'[s] = loaded[s]
    BY DEF Crash, TypeInv
  <1>2. \A q \in Requests :
            \/ pc'[q] \in {"new", "done"}
            \/ pc'[q] = pc[q] /\ at[q] \in Replicas \ {r}
    BY DEF Crash, TypeInv
  <1>0. LogKept /\ ChangesInv'
    BY <1>1, LogStays
  <1>3. TurnsInv'
    BY <1>1, <1>2 DEF ServeInv, TurnsInv, Working
  <1>4. RestInv'
    <2> SUFFICES ASSUME NEW s \in Replicas \ {r}, status'[s] = "up"
                 PROVE  /\ Quiet(s)' => Settled(s)'
                        /\ loaded'[s] # Nil =>
                             /\ Serves([rev |-> cur[s], cfg |-> loaded[s]])'
                             /\ Serves(run[s])' /\ run'[s].rev <= cur'[s]
      BY <1>1 DEF RestInv
    <2>1. \A q \in Requests : Working(q) /\ at[q] = s => pc'[q] = pc[q]
      BY DEF Crash, Working
    <2>2. Quiet(s)' => Quiet(s)
      BY <1>1, <2>1 DEF Quiet, Working
    <2>3. Settled(s) => Settled(s)'
      BY <1>0, <1>1, SettledStays
    <2> QED
      BY <1>1, <2>2, <2>3 DEF ServeInv, RestInv, Serves
  <1>5. ASSUME NEW q \in Requests PROVE StepInv(q)'
    <2>1. StepInv(q)
      BY DEF ServeInv
    <2>2. CASE pc'[q] \in {"new", "done"}
      BY <2>2 DEF StepInv, Working
    <2>3. CASE pc'[q] = pc[q] /\ at[q] \in Replicas \ {r}
      <3>1. run'[at[q]] = run[at[q]] /\ cur'[at[q]] = cur[at[q]]
        BY <1>1, <2>3
      <3> QED
        BY <1>0, <1>1, <2>1, <2>3, <3>1, StepStays
    <2> QED
      BY <1>2, <2>2, <2>3
  <1> QED
    BY <1>0, <1>3, <1>4, <1>5 DEF ServeInv

(* ServeInvInit: every process is down, and there is no revision.          *)
LEMMA ServeInvInit == Init => ServeInv
  <1> SUFFICES ASSUME Init PROVE ServeInv
    OBVIOUS
  <1>1. Len(log) = 0 /\ \A q \in Requests : pc[q] = "new"
    BY DEF Init
  <1>2. \A r \in Replicas : status[r] = "down" /\ loaded[r] = Nil
    BY DEF Init
  <1> QED
    BY <1>1, <1>2 
    DEF ServeInv, TurnsInv, RestInv, StepInv, ChangesInv, ByRequests, OneChangePerRevision,
        Working

(* ServeInvStep: with handlers that take turns, every step keeps it.       *)
LEMMA ServeInvStep ==
    ASSUME TakingTurns
    PROVE  TypeInv /\ TypeInv' /\ ServeInv /\ [Next]_vars => ServeInv'
  <1> SUFFICES ASSUME TypeInv, TypeInv', ServeInv, [Next]_vars PROVE ServeInv'
    OBVIOUS
  <1>0. PastKept
    BY PastStays
  <1>1. CASE UNCHANGED vars
    BY <1>0, <1>1, ProviderServes DEF vars, memory, handler
  <1>2. CASE \E q \in Requests, r \in Replicas : \E o \in Operations : Begin(q, r, o)
    BY <1>0, <1>2, BeginServes
  <1>3. CASE \E q \in Requests : \/ Handle(q) \/ CommitFails(q) \/ InstallFails(q)
                                 \/ \E c \in Clusters : ProviderFails(q, c)
    BY <1>0, <1>3, HandleServes
  <1>4. CASE \E r \in Replicas : Follow(r) \/ LoadFails(r) \/ Crash(r)
    BY <1>0, <1>4, FollowServes, CrashServes
  <1> QED
    BY <1>1, <1>2, <1>3, <1>4 DEF Next, Fault

(* ServeSafe: the invariant of the runtimes.                               *)
LEMMA ServeSafe ==
    ASSUME TakingTurns
    PROVE  Spec => [](TypeInv /\ ServeInv)
  <1>1. TypeInv /\ TypeInv' /\ ServeInv /\ [Next]_vars => ServeInv'
    BY ServeInvStep
  <1> QED
    BY <1>1, TypeInvInit, TypeInvStep, ServeInvInit, PTL DEF Spec

(* RevisionsAreChanges: when handlers take turns, or all run on the event  *)
(* loop, every revision is an earlier one with the change of the request   *)
(* that committed it: nothing is carried along, and no change is lost but  *)
(* that of a revision the committing replica had failed to load.           *)
THEOREM RevisionsAreChanges ==
    ASSUME TakingTurns
    PROVE  Spec => []OneChangePerRevision
  <1>1. ServeInv => OneChangePerRevision
    BY DEF ServeInv, ChangesInv
  <1> QED
    BY <1>1, ServeSafe, PTL

(* RuntimeCorrect: when handlers take turns, a replica at rest serves the  *)
(* revision it says it applied, after any roll-back, reload or import.     *)
THEOREM RuntimeCorrect ==
    ASSUME TakingTurns
    PROVE  Spec => []RuntimeMatchesRevision
  <1>1. ServeInv => RuntimeMatchesRevision
    BY DEF ServeInv, RestInv, RuntimeMatchesRevision, Quiet, Settled, Serves
  <1> QED
    BY <1>1, ServeSafe, PTL

(* AppliedForward: when handlers take turns, the revision a process serves *)
(* never goes back: neither a roll-back nor a reload installs an older one.*)
THEOREM AppliedForward ==
    ASSUME TakingTurns
    PROVE  Spec => AppliedAdvances
  <1> DEFINE Forward(r) == status[r] = "up" /\ status'[r] = "up"
                               => run'[r].rev >= run[r].rev
  <1>1. ASSUME TypeInv, ServeInv, [Next]_vars, NEW r \in Replicas PROVE Forward(r)
    <2>1. run[r].rev \in Nat /\ run[r] \in Runtime
      BY <1>1 DEF TypeInv, Runtime
    <2>2. run' = run => Forward(r)
      BY <2>1
    <2>3. CASE UNCHANGED run
      BY <2>2, <2>3
    <2>4. ASSUME NEW q \in Requests, Mutate(q) PROVE Forward(r)
      <3>1. run'[r].rev = run[r].rev
        BY <1>1, <2>1, <2>4 DEF Mutate, TypeInv, Runtime
      <3> QED
        BY <2>1, <3>1
    <2>5. ASSUME NEW q \in Requests, Conflict(q) \/ CommitFails(q) PROVE Forward(r)
      <3>1. run[at[q]].rev = snap[q].rev
        BY <1>1, <2>5 DEF ServeInv, StepInv, Working, Conflict, CommitFails
      <3>2. run' = run \/ run' = [run EXCEPT ![at[q]] = snap[q]]
        BY <2>5 DEF Conflict, CommitFails, Restored
      <3>3. run'[r].rev = run[r].rev
        BY <1>1, <3>1, <3>2 DEF TypeInv
      <3> QED
        BY <2>1, <3>3
    <2>6. ASSUME NEW q \in Requests, Install(q) PROVE Forward(r)
      <3>1. run[at[q]].rev <= exp[q] /\ cur[at[q]] = exp[q] + 1 /\ exp[q] \in Nat
        BY <1>1, <2>6 DEF ServeInv, StepInv, Working, Install, TypeInv
      <3>2. run' = run \/ run' = [run EXCEPT ![at[q]] =
                                     [rev |-> cur[at[q]], cfg |-> Installed(q)]]
        BY <2>6 DEF Install
      <3>3. run'[r].rev = run[r].rev \/ (r = at[q] /\ run'[r].rev = cur[at[q]])
        BY <1>1, <3>2 DEF TypeInv
      <3> QED
        BY <2>1, <3>1, <3>3
    <2>7. ASSUME NEW s \in Replicas, Swap(s) PROVE Forward(r)
      <3>1. run[s].rev <= cur[s]
        BY <1>1, <2>7 DEF ServeInv, TurnsInv, RestInv, Swap
      <3>2. run'[r].rev = run[r].rev \/ (r = s /\ run'[r].rev = cur[s])
        BY <1>1, <2>7 DEF Swap, TypeInv
      <3> QED
        BY <1>1, <2>1, <3>1, <3>2 DEF TypeInv
    <2>8. ASSUME NEW s \in Replicas, Start(s) \/ Bootstrap(s) PROVE Forward(r)
      <3>1. status[s] # "up" /\ (s # r => run'[r] = run[r])
        BY <1>1, <2>8 DEF Start, Bootstrap, Serve, TypeInv
      <3> QED
        BY <2>1, <3>1
    <2>9. ASSUME NEW s \in Replicas, Crash(s) PROVE Forward(r)
      <3>1. status'[s] # "up" /\ (s # r => run'[r] = run[r])
        BY <1>1, <2>9 DEF Crash, TypeInv
      <3> QED
        BY <2>1, <3>1
    <2> QED
      BY <1>1, <2>3, <2>4, <2>5, <2>6, <2>7, <2>8, <2>9
      DEF Next, Handle, Follow, Fault, Begin, Refuse, Resume, Commit, SetCurrent,
          Finalize, Answer, CallProvider, ProviderFails, InstallFails, Reload, LoadFails,
          memory, vars
  <1>2. TypeInv /\ ServeInv /\ [Next]_vars
            => [\A r \in Replicas : status[r] = "up" /\ status'[r] = "up"
                   => run'[r].rev >= run[r].rev]_vars
    BY <1>1
  <1> QED
    BY <1>2, ServeSafe, PTL DEF Spec, AppliedAdvances
=============================================================================
