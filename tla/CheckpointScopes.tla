-------------------------- MODULE CheckpointScopes --------------------------
(***************************************************************************)
(* The scopes of indexing_service/app/checkpoint_store.py: a thread that   *)
(* applies an event holds one fence per target of the event from before it *)
(* loads their checkpoints until the checkpoints it saved are stored.      *)
(*                                                                         *)
(* The three backends differ in where a fence lives and in when a save     *)
(* becomes visible:                                                        *)
(*   memory     in-process locks; saves are staged and stored at the end,  *)
(*   typesense  in-process locks; a save is an upsert, visible at once,    *)
(*   postgres   advisory locks of the transaction that also holds the      *)
(*              saves, so both end together, or with the connection.       *)
(* The in-process locks live in a registry that creates the lock of a key  *)
(* for its first user and forgets it with the last one.                    *)
(*                                                                         *)
(* The clocks are left out: a deadline may pass whenever a thread waits.   *)
(***************************************************************************)
EXTENDS Integers, Sequences, FiniteSets

CONSTANTS
    Threads,     \* threads that open scopes on one store
    Keys,        \* checkpoint ids: 1..n, in the order of their digests
    Events,      \* [seq, keys]: a position, and the fences of its targets
    Objects,     \* lock objects the interpreter can allocate
    NoObject,
    MaxScopes,   \* bound: scopes ever opened
    MaxFaults    \* bound: failed writes and lost connections together

ASSUME ScopesAssumption ==
    /\ IsFiniteSet(Threads) /\ IsFiniteSet(Keys)
    /\ Keys = 1 .. Cardinality(Keys)
    /\ NoObject \notin Objects
    /\ MaxScopes \in Nat /\ MaxFaults \in Nat
    /\ \A e \in Events : /\ e.seq \in Nat \ {0}
                         /\ e.keys \in Seq(Keys)
                         /\ e.keys # <<>>
                         /\ \A i, j \in DOMAIN e.keys : e.keys[i] = e.keys[j] => i = j

NoEvent == [seq |-> 0, keys |-> <<>>]

VARIABLES
    backend,   \* which of the three adapters the process was started with
    entry,     \* registry: key -> its lock object, NoObject if forgotten
    users,     \* lock object -> scopes that refer to it
    pc,        \* where a thread is
    event,     \* the event of its scope
    refs,      \* the lock object it found for each key of the event
    got,       \* the keys whose fence it has been granted
    plan,      \* the keys it still has to write
    staged,    \* the keys saved and not yet stored
    rows,      \* key -> position of the stored checkpoint, 0 for none
    opened, faults

scopeVars == <<pc, event, refs, got, plan, staged>>
vars == <<backend, entry, users, scopeVars, rows, opened, faults>>

InProcess == backend # "postgres"

Init ==
    /\ backend \in {"memory", "typesense", "postgres"}
    /\ entry  = [k \in Keys |-> NoObject]
    /\ users  = [o \in Objects |-> 0]
    /\ pc     = [t \in Threads |-> "idle"]
    /\ event  = [t \in Threads |-> NoEvent]
    /\ refs   = [t \in Threads |-> [k \in Keys |-> NoObject]]
    /\ got    = [t \in Threads |-> {}]
    /\ plan   = [t \in Threads |-> {}]
    /\ staged = [t \in Threads |-> {}]
    /\ rows   = [k \in Keys |-> 0]
    /\ opened = 0
    /\ faults = 0

-----------------------------------------------------------------------------

KeysOf(e) == {e.keys[n] : n \in DOMAIN e.keys}

Least(S)    == CHOOSE n \in S : \A m \in S : n <= m
Greatest(S) == CHOOSE n \in S : \A m \in S : m <= n

\* The first key of S in the order of the event's targets.
FirstListed(e, S) == e.keys[Least({n \in DOMAIN e.keys : e.keys[n] \in S})]

Ungranted(t) == KeysOf(event[t]) \ got[t]
Waiting(t)   == pc[t] = "acquiring" /\ Ungranted(t) # {}

\* Variant: the fences are requested in the order of the event's targets.
NextKeyListed(t) == FirstListed(event[t], Ungranted(t))

\* The fences are requested in the order of the checkpoint ids, not in that
\* of the event.
NextKey(t) == Least(Ungranted(t))

Holds(t, k) == k \in got[t]

\* Another thread has the fence of k: for the in-process locks it is the
\* lock object that counts, for the advisory ones the key.
Taken(t, k) ==
    \E u \in Threads \ {t} :
        \E j \in got[u] : IF InProcess THEN refs[u][j] = refs[t][k] ELSE j = k

\* Lock objects nothing refers to any more: the next one may be any of them.
Unreferenced == {o \in Objects : /\ \A k \in Keys : entry[k] # o
                                 /\ \A t \in Threads, k \in Keys : refs[t][k] # o}

(***************************************************************************)
(* Opening a scope. The registry is entered for all the keys under its     *)
(* guard; the fences are then requested one by one under one deadline.     *)
(***************************************************************************)
Opening(t, e) ==
    /\ pc[t] = "idle"
    /\ opened < MaxScopes
    /\ opened' = opened + 1
    /\ pc' = [pc EXCEPT ![t] = "acquiring"]
    /\ event' = [event EXCEPT ![t] = e]
    /\ UNCHANGED <<backend, got, plan, staged, rows, faults>>

\* The registry with an entry for every key of the event, new ones included.
Register(t, e) ==
    LET missing == {k \in KeysOf(e) : entry[k] = NoObject}
    IN  /\ entry' \in {f \in [Keys -> Objects \cup {NoObject}] :
                          /\ \A k \in Keys \ missing : f[k] = entry[k]
                          /\ \A k \in missing : f[k] \in Unreferenced
                          /\ \A j, k \in missing : f[j] = f[k] => j = k}
        /\ refs' = [refs EXCEPT ![t] =
                       [k \in Keys |-> IF k \in KeysOf(e) THEN entry'[k] ELSE NoObject]]
        /\ users' = [o \in Objects |->
                        users[o] + Cardinality({k \in KeysOf(e) : entry'[k] = o})]

Open(t) ==
    \E e \in Events :
        /\ Opening(t, e)
        /\ IF InProcess THEN Register(t, e) ELSE UNCHANGED <<entry, users, refs>>

Acquire(t) ==
    /\ Waiting(t)
    /\ ~Taken(t, NextKey(t))
    /\ got' = [got EXCEPT ![t] = @ \cup {NextKey(t)}]
    /\ UNCHANGED <<backend, entry, users, pc, event, refs, plan, staged, rows, opened, faults>>

\* How a scope that ends gives its fences back: those of a transaction go
\* with it, those of the registry one after the other.
Ended(t) ==
    IF InProcess
    THEN /\ pc' = [pc EXCEPT ![t] = "releasing"]
         /\ UNCHANGED <<event, got>>
    ELSE /\ pc' = [pc EXCEPT ![t] = "idle"]
         /\ got' = [got EXCEPT ![t] = {}]
         /\ event' = [event EXCEPT ![t] = NoEvent]

\* The deadline passes while a fence is awaited: nothing has been written.
LockTimeout(t) ==
    /\ Waiting(t)
    /\ Taken(t, NextKey(t))
    /\ Ended(t)
    /\ UNCHANGED <<backend, entry, users, refs, plan, staged, rows, opened, faults>>

(***************************************************************************)
(* Inside the scope: the checkpoints of all targets are loaded and         *)
(* classified, then each target is written and its checkpoint saved. An    *)
(* event some target is ahead of is not applied to any.                    *)
(***************************************************************************)
Planned(e) ==
    IF \E k \in KeysOf(e) : e.seq < rows[k]
    THEN {}
    ELSE {k \in KeysOf(e) : rows[k] < e.seq}

Load(t) ==
    /\ pc[t] = "acquiring" /\ ~Waiting(t)
    /\ pc' = [pc EXCEPT ![t] = "applying"]
    /\ plan' = [plan EXCEPT ![t] = Planned(event[t])]
    /\ UNCHANGED <<backend, entry, users, event, refs, got, staged, rows, opened, faults>>

\* The checkpoint a session has of a key: its own save, or the stored one.
Current(t, k) == IF k \in staged[t] THEN event[t].seq ELSE rows[k]

\* A save that would not advance the checkpoint raises in the memory and
\* PostgreSQL sessions; Typesense does not look.
Rejected(t, k) == backend # "typesense" /\ Current(t, k) >= event[t].seq

\* The targets are written in the order of the event.
NextTarget(t) == FirstListed(event[t], plan[t])

\* The checkpoint of the next target is saved: staged in the session,
StageInMemory(t) ==
    /\ backend = "memory"
    /\ ~Rejected(t, NextTarget(t))
    /\ staged' = [staged EXCEPT ![t] = @ \cup {NextTarget(t)}]
    /\ UNCHANGED rows

\* a conditional upsert of the transaction,
SaveInTransaction(t) ==
    /\ backend = "postgres"
    /\ ~Rejected(t, NextTarget(t))
    /\ staged' = [staged EXCEPT ![t] = @ \cup {NextTarget(t)}]
    /\ UNCHANGED rows

\* or an upsert of a Typesense document, visible at once.
UpsertCheckpoint(t) ==
    /\ backend = "typesense"
    /\ rows' = [rows EXCEPT ![NextTarget(t)] = event[t].seq]
    /\ UNCHANGED staged

\* The next target is written, and its checkpoint saved.
Apply(t) ==
    /\ pc[t] = "applying" /\ plan[t] # {}
    /\ StageInMemory(t) \/ SaveInTransaction(t) \/ UpsertCheckpoint(t)
    /\ plan' = [plan EXCEPT ![t] = @ \ {NextTarget(t)}]
    /\ UNCHANGED <<backend, entry, users, pc, event, refs, got, opened, faults>>

\* The rows once the saves of a scope are stored: never a step back.
Stored(t) ==
    [k \in Keys |-> IF k \in staged[t] /\ rows[k] < event[t].seq
                    THEN event[t].seq ELSE rows[k]]

\* Variant: a scope that fails is rolled back.
KeptIfApplied(t, failed) == IF failed THEN rows ELSE Stored(t)

\* The scope ends, with the event applied or with a failed target: what was
\* saved is stored in both cases.
Kept(t, failed) == Stored(t)

Leave(t, failed) ==
    /\ pc[t] = "applying"
    /\ rows' = Kept(t, failed)
    /\ staged' = [staged EXCEPT ![t] = {}]
    /\ plan' = [plan EXCEPT ![t] = {}]
    /\ Ended(t)
    /\ UNCHANGED <<backend, entry, users, refs, opened>>

Commit(t) == plan[t] = {} /\ Leave(t, FALSE) /\ UNCHANGED faults

\* A target that cannot be written, or whose checkpoint is not saved.  (A
\* statement of PostgreSQL that fails ends the transaction: ConnectionLost.)
ApplyFails(t) ==
    /\ plan[t] # {}
    /\ LET refused == Rejected(t, NextTarget(t))
       IN  /\ refused \/ faults < MaxFaults
           /\ faults' = IF refused THEN faults ELSE faults + 1
    /\ Leave(t, TRUE)

\* PostgreSQL loses the connection, or a statement fails and aborts the
\* transaction: its fences and its saves are gone.
ConnectionLost(t) ==
    /\ backend = "postgres" /\ pc[t] \in {"acquiring", "applying"}
    /\ faults < MaxFaults
    /\ faults' = faults + 1
    /\ staged' = [staged EXCEPT ![t] = {}]
    /\ plan' = [plan EXCEPT ![t] = {}]
    /\ Ended(t)
    /\ UNCHANGED <<backend, entry, users, refs, rows, opened>>

(***************************************************************************)
(* The finally block of the registry: the locks are released in reverse    *)
(* order, then the entries of the scope are given up under the guard, and  *)
(* those with no other user are forgotten.                                 *)
(***************************************************************************)
Release(t) ==
    /\ pc[t] = "releasing" /\ got[t] # {}
    /\ got' = [got EXCEPT ![t] = @ \ {Greatest(@)}]
    /\ UNCHANGED <<backend, entry, users, pc, event, refs, plan, staged, rows, opened, faults>>

\* Variants: an entry is dropped with the first scope that is done with it;
\* the count is looked at before it is decremented.
ForgottenAtOnce(t) == KeysOf(event[t])
ForgottenLate(t) == {k \in KeysOf(event[t]) : users[refs[t][k]] = 0}

\* The keys that are forgotten: nobody else refers to their lock.
Forgotten(t) == {k \in KeysOf(event[t]) : users[refs[t][k]] = 1}

Unregister(t) ==
    /\ pc[t] = "releasing" /\ got[t] = {}
    /\ entry' = [k \in Keys |-> IF k \in Forgotten(t) THEN NoObject ELSE entry[k]]
    /\ users' = [o \in Objects |->
                    users[o] - Cardinality({k \in KeysOf(event[t]) : refs[t][k] = o})]
    /\ refs' = [refs EXCEPT ![t] = [k \in Keys |-> NoObject]]
    /\ event' = [event EXCEPT ![t] = NoEvent]
    /\ pc' = [pc EXCEPT ![t] = "idle"]
    /\ UNCHANGED <<backend, got, plan, staged, rows, opened, faults>>

-----------------------------------------------------------------------------

Step(t) ==
    \/ Open(t)      \/ Acquire(t)    \/ LockTimeout(t)
    \/ Load(t)      \/ Apply(t)      \/ Commit(t)
    \/ ApplyFails(t) \/ ConnectionLost(t)
    \/ Release(t)   \/ Unregister(t)

Next == \E t \in Threads : Step(t)
Spec == Init /\ [][Next]_vars

-----------------------------------------------------------------------------
(***************************************************************************)
(* Properties.                                                             *)
(***************************************************************************)

\* A thread only stages saves, or has writes left, for fences it holds, and
\* an idle one has no trace of a scope.
TypeOK ==
    /\ entry \in [Keys -> Objects \cup {NoObject}]
    /\ users \in [Objects -> 0 .. Cardinality(Threads)]
    /\ pc \in [Threads -> {"idle", "acquiring", "applying", "releasing"}]
    /\ event \in [Threads -> Events \cup {NoEvent}]
    /\ rows \in [Keys -> Nat]
    /\ \A t \in Threads :
          /\ staged[t] \cup plan[t] \subseteq got[t]
          /\ got[t] \subseteq KeysOf(event[t])
          /\ pc[t] = "idle" <=> event[t] = NoEvent

\* Two scopes never hold the fence of the same checkpoint, however threads
\* register, wait, time out and give their entries up: the lock a thread
\* waits for is the one the next thread will find (_DeterministicLockRegistry
\* .hold, PostgresCheckpointStore.event_scope).
Exclusive ==
    \A t, u \in Threads : t # u => \A k \in Keys : ~(Holds(t, k) /\ Holds(u, k))

\* Threads that wait for fences never wait for one another: whenever some
\* thread is waiting, one of the threads with a scope can take a step other
\* than timing out. A deadline is needed for slow scopes only.
NeverDeadlocked ==
    (\E t \in Threads : Waiting(t)) =>
        \E t \in Threads : /\ pc[t] # "idle"
                           /\ Waiting(t) => ~Taken(t, NextKey(t))

\* The registry forgets what nobody uses: with no scope open it is empty,
\* whichever scopes timed out or failed, so a long-lived process does not
\* keep a lock for every document it ever indexed.
NothingKept ==
    (\A t \in Threads : pc[t] = "idle") =>
        /\ \A k \in Keys : entry[k] = NoObject
        /\ \A o \in Objects : users[o] = 0

\* A stored checkpoint only moves forward, although Typesense stores whatever
\* it is given: the fence is what keeps an older event from writing between
\* the load of a newer one and its save.
RowsAdvance == [][\A k \in Keys : rows'[k] >= rows[k]]_rows

\* A checkpoint saved for one target outlives the failure of a later one:
\* when a scope ends other than by losing its transaction, every save it
\* staged is stored, and the event is not applied to that target again
\* ("Preserve per-target progress even when a later target fails.").
ProgressStored ==
    [][\A t \in Threads :
          pc[t] = "applying" /\ ~ConnectionLost(t) =>
              \A k \in staged[t] \ staged'[t] : rows'[k] >= event[t].seq]_vars

=============================================================================
