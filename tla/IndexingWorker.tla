--------------------------- MODULE IndexingWorker ---------------------------
(***************************************************************************)
(* The indexing service: a consumer group that drains the document topics  *)
(* into Typesense clusters (indexing_service/app/consumer.py) behind the   *)
(* PostgreSQL checkpoint fences of checkpoint_store.py.                    *)
(*                                                                         *)
(* One record is handled at a time by a worker: it is polled, its scope of *)
(* advisory locks is opened and the checkpoints of all its targets are     *)
(* classified, each target is written and its checkpoint staged, the       *)
(* checkpoint transaction commits, and only then the offset is committed.  *)
(* A failed attempt keeps the checkpoints already staged and is retried; a *)
(* record whose attempts are exhausted goes to the dead-letter topic.      *)
(*                                                                         *)
(* Kafka (topics, offsets, group membership) and Typesense are external:   *)
(* they are modelled by what the code here relies on.                      *)
(***************************************************************************)
EXTENDS Integers, Sequences, FiniteSets

CONSTANTS
    Workers,         \* worker processes of the consumer group
    Partitions,      \* topic partitions the group consumes
    Idents,          \* document identities (tenant, collection, document)
    Clusters,        \* Typesense clusters an event may name
    Registered,      \* clusters the Query API returns to a worker that asks
    Loaded,          \* cluster sets a worker may have loaded when it started
    Events,          \* the version 2 envelopes the producers can emit
    Malformed,       \* a record that is not a valid version 2 envelope
    NoEvent,         \* "no checkpoint row" and "no document"
    NoBatch          \* a worker between two polls

CONSTANTS
    MaxAttempts,     \* INDEXING_MAX_PROCESSING_ATTEMPTS
    MaxPollRecords,  \* KAFKA_MAX_POLL_RECORDS
    MaxTopic,        \* bound: records ever sent to one partition
    MaxFaults,       \* bound: crashes, rebalances and failed calls together
    DlqMayFail,      \* publishing to the dead-letter topic may raise
    LateWrites       \* Typesense may run a write after its caller gave up

ASSUME EventsAssumption ==
    \A e \in Events : /\ e.id \in Nat
                      /\ e.ident \in Idents
                      /\ e.seq \in Nat \ {0}
                      /\ e.version \in Nat \ {0}
                      /\ e.targets \in SUBSET Clusters
                      /\ e.targets # {}

ASSUME MarkersAssumption ==
    /\ Malformed \notin Events
    /\ NoEvent \notin Events
    /\ NoBatch \notin [part : Partitions, off : Nat, last : Nat]

ASSUME SizesAssumption ==
    /\ MaxAttempts \in Nat \ {0}
    /\ MaxPollRecords \in Nat \ {0}
    /\ MaxTopic \in Nat
    /\ MaxFaults \in Nat
    /\ DlqMayFail \in BOOLEAN
    /\ LateWrites \in BOOLEAN
    /\ Registered \subseteq Clusters
    /\ Loaded \subseteq (SUBSET Registered) \ {{}}

(***************************************************************************)
(* Kafka.                                                                  *)
(***************************************************************************)
VARIABLES
    topic,       \* partition -> the records ever appended to it
    committed,   \* partition -> last offset the group has committed (0: none)
    position,    \* partition -> last offset its owner has fetched
    owner,       \* partition -> the group member it is assigned to
    dlq          \* records of the dead-letter topic

(***************************************************************************)
(* PostgreSQL checkpoints and Typesense.                                   *)
(***************************************************************************)
VARIABLES
    checkpoint,  \* cluster -> identity -> last event recorded as applied
    content,     \* cluster -> identity -> event the stored document is from
    late         \* writes given up by their caller that may still be run

(***************************************************************************)
(* One worker process: all of it is lost in a crash.                       *)
(***************************************************************************)
VARIABLES
    pc,          \* where the worker is in the handling of a record
    cur,         \* the polled batch: partition, current and last offset
    attempt,     \* number of the current processing attempt
    todo,        \* targets of the open scope still to be written
    staged,      \* targets whose checkpoint is saved but not committed
    err,         \* why the record is being quarantined
    known        \* clusters the worker holds a client for

VARIABLE faults  \* faults so far

kafkaVars  == <<committed, position, owner>>
storeVars  == <<checkpoint, content, late>>
workerVars == <<pc, cur, attempt, todo, staged, err, known>>
vars == <<topic, kafkaVars, dlq, storeVars, workerVars, faults>>

-----------------------------------------------------------------------------

Records == Events \cup {Malformed}
Batches == [part : Partitions, off : Nat, last : Nat]
Errors  == {"none", "envelope", "ordering", "failed"}

\* The record a worker is handling, and the document it is about.
Rec(w)   == topic[cur[w].part][cur[w].off]
Ident(w) == Rec(w).ident

Newer(e, c) == e.seq > c.seq /\ e.version > c.version
Older(e, c) == e.seq < c.seq /\ e.version < c.version

(***************************************************************************)
(* classify_event: an event against the checkpoint of one target.          *)
(***************************************************************************)
Classify(e, c) ==
    CASE c = NoEvent                                -> "apply"
      [] c # NoEvent /\ e = c                       -> "duplicate"
      [] c # NoEvent /\ e.id # c.id /\ Older(e, c)  -> "stale"
      [] c # NoEvent /\ e.id # c.id /\ Newer(e, c)  -> "apply"
      [] OTHER                                      -> "rejected"

Decision(e, t) == Classify(e, checkpoint[t][e.ident])

\* Variant: a retry after partial progress takes the event for done.
PlannedOnceOnly(e) ==
    IF \E t \in e.targets : Decision(e, t) \in {"stale", "duplicate"}
    THEN {}
    ELSE {t \in e.targets : Decision(e, t) = "apply"}

\* Targets written for the event: none of them when one target is already
\* ahead of it.
Planned(e) ==
    IF \E t \in e.targets : Decision(e, t) = "stale"
    THEN {}
    ELSE {t \in e.targets : Decision(e, t) = "apply"}

(***************************************************************************)
(* The advisory locks of a scope: held from the moment all of them are     *)
(* granted until the checkpoint transaction ends.                          *)
(***************************************************************************)
Fences(w) ==
    IF pc[w] = "apply" THEN {<<Ident(w), t>> : t \in Rec(w).targets} ELSE {}

\* Variant: the scope takes no locks.
ContendedNever(w) == FALSE

Contended(w) ==
    \E v \in Workers \ {w} :
        Fences(v) \cap {<<Ident(w), t>> : t \in Rec(w).targets} # {}

(***************************************************************************)
(* The checkpoint rows once the targets in S have committed event e.       *)
(***************************************************************************)
Saved(e, S) ==
    [t \in Clusters |-> IF t \in S THEN [checkpoint[t] EXCEPT ![e.ident] = e]
                                   ELSE checkpoint[t]]

\* The worker is still the member its current partition is assigned to.
Owns(w) == owner[cur[w].part] = w

\* Variant: a consumer starts at the earliest record whatever is committed.
RestartPositionEarliest(p) == 0

\* A consumer that is assigned the partition starts after what the group has
\* committed, or at the earliest record (no auto-commit, "earliest").
RestartPosition(p) == committed[p]

Fault == faults < MaxFaults /\ faults' = faults + 1

\* Variant: one attempt too many.
ExhaustedLate(w) == attempt[w] > MaxAttempts

Exhausted(w) == attempt[w] = MaxAttempts

(***************************************************************************)
(* An attempt raised: retry the record, or quarantine it when it was the   *)
(* last one.  The scope is gone.                                           *)
(***************************************************************************)
FailAttempt(w) ==
    /\ pc' = [pc EXCEPT ![w] = IF Exhausted(w) THEN "quarantine" ELSE "try"]
    /\ attempt' = [attempt EXCEPT ![w] = IF Exhausted(w) THEN @ ELSE @ + 1]
    /\ err' = [err EXCEPT ![w] = IF Exhausted(w) THEN "failed" ELSE @]
    /\ todo' = [todo EXCEPT ![w] = {}]
    /\ staged' = [staged EXCEPT ![w] = {}]
    /\ UNCHANGED cur

(***************************************************************************)
(* The poll loop turns to offset off of its batch, or to the next poll.    *)
(***************************************************************************)
StartRecord(w, batch) ==
    /\ cur' = [cur EXCEPT ![w] = batch]
    /\ pc' = [pc EXCEPT ![w] = IF batch = NoBatch THEN "idle" ELSE "try"]
    /\ attempt' = [attempt EXCEPT ![w] = IF batch = NoBatch THEN 0 ELSE 1]
    /\ err' = [err EXCEPT ![w] = "none"]
    /\ todo' = [todo EXCEPT ![w] = {}]
    /\ staged' = [staged EXCEPT ![w] = {}]

-----------------------------------------------------------------------------
(***************************************************************************)
(* Handling of one record.                                                 *)
(***************************************************************************)

(* consumer.poll: the owner fetches a batch, and its position moves past   *)
(* the whole of it.                                                        *)
Poll(w, p) ==
    /\ pc[w] = "idle"
    /\ owner[p] = w
    /\ \E n \in 1 .. MaxPollRecords :
          /\ position[p] + n <= Len(topic[p])
          /\ position' = [position EXCEPT ![p] = @ + n]
          /\ StartRecord(w, [part |-> p, off |-> position[p] + 1,
                             last |-> position[p] + n])
    /\ UNCHANGED <<topic, committed, owner, dlq, storeVars, known, faults>>

(* The scope opens: every lock is granted, every target has a client, and  *)
(* no checkpoint contradicts the event.  Phase one decides for all the     *)
(* targets before anything is written.                                     *)
OpenScope(w) ==
    /\ pc[w] = "try"
    /\ Rec(w) # Malformed
    /\ ~Contended(w)
    /\ Rec(w).targets \subseteq known[w]
    /\ \A t \in Rec(w).targets : Decision(Rec(w), t) # "rejected"
    /\ pc' = [pc EXCEPT ![w] = "apply"]
    /\ todo' = [todo EXCEPT ![w] = Planned(Rec(w))]
    /\ UNCHANGED <<topic, kafkaVars, dlq, storeVars, cur, attempt, staged, err,
                   known, faults>>

(* Lock timeout behind another worker, or PostgreSQL unavailable.          *)
ScopeUnavailable(w) ==
    /\ pc[w] = "try"
    /\ Rec(w) # Malformed
    /\ \/ Contended(w) /\ UNCHANGED faults
       \/ ~Contended(w) /\ Fault
    /\ FailAttempt(w)
    /\ UNCHANGED <<topic, kafkaVars, dlq, storeVars, known>>

\* Variant: the worker waits for the cluster without asking for it again.
MissingTargetWaits(w) ==
    /\ pc[w] = "try"
    /\ Rec(w) # Malformed
    /\ ~(Rec(w).targets \subseteq known[w])
    /\ UNCHANGED vars

(* MissingTargetClusterError: the clients are fetched again and the        *)
(* attempt is used up.                                                     *)
MissingTarget(w) ==
    /\ pc[w] = "try"
    /\ Rec(w) # Malformed
    /\ ~Contended(w)
    /\ ~(Rec(w).targets \subseteq known[w])
    /\ known' = [known EXCEPT ![w] = Registered]
    /\ FailAttempt(w)
    /\ UNCHANGED <<topic, kafkaVars, dlq, storeVars, faults>>

(* A record that no retry can help: an invalid payload or envelope, or a   *)
(* checkpoint that contradicts the event.                                  *)
Reject(w) ==
    /\ pc[w] = "try"
    /\ \/ /\ Rec(w) = Malformed
          /\ err' = [err EXCEPT ![w] = "envelope"]
       \/ /\ Rec(w) # Malformed
          /\ ~Contended(w)
          /\ \E t \in Rec(w).targets \cap known[w] :
                Decision(Rec(w), t) = "rejected"
          /\ err' = [err EXCEPT ![w] = "ordering"]
    /\ pc' = [pc EXCEPT ![w] = "quarantine"]
    /\ UNCHANGED <<topic, kafkaVars, dlq, storeVars, cur, attempt, todo, staged,
                   known, faults>>

(* One target: the Typesense call succeeds, then save stages the           *)
(* checkpoint if its compare-and-set finds an older row.                   *)
WriteTarget(w, t) ==
    /\ pc[w] = "apply"
    /\ t \in todo[w]
    /\ content' = [content EXCEPT ![t][Ident(w)] = Rec(w)]
    /\ IF \/ checkpoint[t][Ident(w)] = NoEvent
          \/ Newer(Rec(w), checkpoint[t][Ident(w)])
       THEN /\ staged' = [staged EXCEPT ![w] = @ \cup {t}]
            /\ todo' = [todo EXCEPT ![w] = @ \ {t}]
            /\ UNCHANGED <<pc, cur, attempt, err, checkpoint>>
       ELSE /\ FailAttempt(w)
            /\ checkpoint' = Saved(Rec(w), staged[w])
    /\ UNCHANGED <<topic, kafkaVars, dlq, late, known, faults>>

(* One target: the Typesense call raises.  It may have been executed, or   *)
(* not, or be executed later (LateWrites): the request timed out on a busy *)
(* node, or PostgreSQL dropped the connection, and the locks with it,      *)
(* before the worker made the call.  What was staged is committed as       *)
(* partial progress, unless that commit fails too.                         *)
WriteFails(w, t) ==
    /\ pc[w] = "apply"
    /\ t \in todo[w]
    /\ Fault
    /\ \/ UNCHANGED <<content, late>>
       \/ /\ content' = [content EXCEPT ![t][Ident(w)] = Rec(w)]
          /\ UNCHANGED late
       \/ /\ LateWrites
          /\ late' = late \cup {<<t, Rec(w)>>}
          /\ UNCHANGED content
    /\ \/ checkpoint' = Saved(Rec(w), staged[w])
       \/ staged[w] # {} /\ UNCHANGED checkpoint
    /\ FailAttempt(w)
    /\ UNCHANGED <<topic, kafkaVars, dlq, known>>

(* The checkpoint transaction commits and releases the locks.              *)
CommitScope(w) ==
    /\ pc[w] = "apply"
    /\ todo[w] = {}
    /\ checkpoint' = Saved(Rec(w), staged[w])
    /\ pc' = [pc EXCEPT ![w] = "ack"]
    /\ staged' = [staged EXCEPT ![w] = {}]
    /\ UNCHANGED <<topic, kafkaVars, dlq, content, late, cur, attempt, todo, err,
                   known, faults>>

(* The commit raises: rolled back, or done with its answer lost.           *)
CommitScopeFails(w) ==
    /\ pc[w] = "apply"
    /\ todo[w] = {}
    /\ Fault
    /\ \/ UNCHANGED checkpoint
       \/ staged[w] # {} /\ checkpoint' = Saved(Rec(w), staged[w])
    /\ FailAttempt(w)
    /\ UNCHANGED <<topic, kafkaVars, dlq, content, late, known>>

(* publish_to_dlq returns: the caller goes on to commit the offset.        *)
Quarantine(w) ==
    /\ pc[w] = "quarantine"
    /\ dlq' = dlq \cup {[part |-> cur[w].part, off |-> cur[w].off,
                         error |-> err[w]]}
    /\ pc' = [pc EXCEPT ![w] = "ack"]
    /\ UNCHANGED <<topic, kafkaVars, storeVars, cur, attempt, todo, staged, err,
                   known, faults>>

(* publish_to_dlq raises: the loop leaves the batch without committing and *)
(* without moving its position back.                                       *)
QuarantineFails(w) ==
    /\ pc[w] = "quarantine"
    /\ DlqMayFail
    /\ Fault
    /\ StartRecord(w, NoBatch)
    /\ UNCHANGED <<topic, kafkaVars, dlq, storeVars, known>>

(* commit_message_offset, accepted only from the partition's owner; then   *)
(* the next record of the batch, or the next poll.                         *)
CommitOffset(w) ==
    /\ pc[w] = "ack"
    /\ Owns(w)
    /\ committed' = [committed EXCEPT ![cur[w].part] = cur[w].off]
    /\ StartRecord(w, IF cur[w].off < cur[w].last
                      THEN [cur[w] EXCEPT !.off = @ + 1] ELSE NoBatch)
    /\ UNCHANGED <<topic, position, owner, dlq, storeVars, known, faults>>

(* The commit raises, because the partition has a new owner or because the *)
(* coordinator did not answer: the rest of the batch is abandoned.         *)
CommitOffsetFails(w) ==
    /\ pc[w] = "ack"
    /\ \/ ~Owns(w) /\ UNCHANGED faults
       \/ Owns(w) /\ Fault
    /\ StartRecord(w, NoBatch)
    /\ UNCHANGED <<topic, kafkaVars, dlq, storeVars, known>>

-----------------------------------------------------------------------------
(***************************************************************************)
(* Faults and the environment.                                             *)
(***************************************************************************)

(* The process dies (or stops between two records) and is started again:   *)
(* locks and staged checkpoints vanish with its connection, it loads the   *)
(* cluster configuration, and its partitions restart after the committed   *)
(* offset.                                                                 *)
Crash(w) ==
    /\ pc[w] # "idle"
    /\ Fault
    /\ StartRecord(w, NoBatch)
    /\ known' = [known EXCEPT ![w] = Registered]
    /\ position' = [p \in Partitions |-> IF owner[p] = w THEN RestartPosition(p)
                                                        ELSE position[p]]
    /\ \/ UNCHANGED late
       \/ /\ LateWrites /\ pc[w] = "apply"
          /\ \E t \in todo[w] : late' = late \cup {<<t, Rec(w)>>}
    /\ UNCHANGED <<topic, committed, owner, dlq, checkpoint, content>>

(* A group rebalance assigns the partition to a member that is in poll.    *)
(* The previous owner is not interrupted.                                  *)
Rebalance(p, w) ==
    /\ pc[w] = "idle"
    /\ owner[p] # w \/ position[p] # RestartPosition(p)
    /\ Fault
    /\ owner' = [owner EXCEPT ![p] = w]
    /\ position' = [position EXCEPT ![p] = RestartPosition(p)]
    /\ UNCHANGED <<topic, committed, dlq, storeVars, workerVars>>

(* Typesense executes a write whose caller has given up on it.             *)
LateWrite ==
    /\ \E x \in late : /\ content' = [content EXCEPT ![x[1]][x[2].ident] = x[2]]
                       /\ late' = late \ {x}
    /\ UNCHANGED <<topic, kafkaVars, dlq, checkpoint, workerVars, faults>>

(* A producer appends a record to a partition.                             *)
Deliver(p, r) ==
    /\ Len(topic[p]) < MaxTopic
    /\ topic' = [topic EXCEPT ![p] = Append(@, r)]
    /\ UNCHANGED <<kafkaVars, dlq, storeVars, workerVars, faults>>

-----------------------------------------------------------------------------

WorkerInit ==
    /\ topic = [p \in Partitions |-> <<>>]
    /\ committed = [p \in Partitions |-> 0]
    /\ position = [p \in Partitions |-> 0]
    /\ owner \in [Partitions -> Workers]
    /\ dlq = {}
    /\ checkpoint = [t \in Clusters |-> [i \in Idents |-> NoEvent]]
    /\ content = [t \in Clusters |-> [i \in Idents |-> NoEvent]]
    /\ late = {}
    /\ pc = [w \in Workers |-> "idle"]
    /\ cur = [w \in Workers |-> NoBatch]
    /\ attempt = [w \in Workers |-> 0]
    /\ todo = [w \in Workers |-> {}]
    /\ staged = [w \in Workers |-> {}]
    /\ err = [w \in Workers |-> "none"]
    /\ known \in [Workers -> Loaded]
    /\ faults = 0

Progress(w) ==
    \/ \E p \in Partitions : Poll(w, p)
    \/ OpenScope(w)
    \/ MissingTarget(w)
    \/ Reject(w)
    \/ \E t \in Clusters : WriteTarget(w, t)
    \/ CommitScope(w)
    \/ Quarantine(w)
    \/ CommitOffset(w)
    \/ CommitOffsetFails(w)

Failure(w) ==
    \/ ScopeUnavailable(w)
    \/ \E t \in Clusters : WriteFails(w, t)
    \/ CommitScopeFails(w)
    \/ QuarantineFails(w)
    \/ Crash(w)
    \/ \E p \in Partitions : Rebalance(p, w)

WorkerNext == (\E w \in Workers : Progress(w) \/ Failure(w)) \/ LateWrite

Next == WorkerNext \/ \E p \in Partitions, r \in Records : Deliver(p, r)

Spec == WorkerInit /\ [][Next]_vars

FairSpec == Spec /\ \A w \in Workers : WF_vars(Progress(w))

-----------------------------------------------------------------------------

KafkaTypeOK ==
    /\ topic \in [Partitions -> Seq(Records)]
    /\ committed \in [Partitions -> Nat]
    /\ position \in [Partitions -> Nat]
    /\ owner \in [Partitions -> Workers]
    /\ dlq \subseteq [part : Partitions, off : Nat, error : Errors]

StoreTypeOK ==
    /\ checkpoint \in [Clusters -> [Idents -> Events \cup {NoEvent}]]
    /\ content \in [Clusters -> [Idents -> Events \cup {NoEvent}]]
    /\ late \subseteq Clusters \X Events

WorkerTypeOK ==
    /\ pc \in [Workers -> {"idle", "try", "apply", "quarantine", "ack"}]
    /\ cur \in [Workers -> Batches \cup {NoBatch}]
    /\ attempt \in [Workers -> 0 .. MaxAttempts]
    /\ todo \in [Workers -> SUBSET Clusters]
    /\ staged \in [Workers -> SUBSET Clusters]
    /\ err \in [Workers -> Errors]

(* TypeOK: the types of the variables; in particular no record is tried    *)
(* more often than INDEXING_MAX_PROCESSING_ATTEMPTS allows.                *)
TypeOK ==
    /\ KafkaTypeOK
    /\ StoreTypeOK
    /\ WorkerTypeOK
    /\ known \in [Workers -> SUBSET Clusters]
    /\ faults \in 0 .. MaxFaults

(* FenceHolds: a target never shows an event older than the one its        *)
(* checkpoint records, whatever is redelivered, retried, abandoned or run  *)
(* by a worker that has lost its partition (a late older upsert cannot     *)
(* pass a checkpoint: classify_event under the locks of event_scope).      *)
FenceHolds ==
    \A t \in Clusters, i \in Idents :
        checkpoint[t][i] # NoEvent =>
            /\ content[t][i] # NoEvent
            /\ content[t][i].seq >= checkpoint[t][i].seq

(* A record is settled when each of its targets has a checkpoint at least  *)
(* as new, when a target was already ahead of it, or when the dead-letter  *)
(* topic has it.                                                           *)
SettledAt(p, o) ==
    LET e == topic[p][o] IN
    \/ \E d \in dlq : d.part = p /\ d.off = o
    \/ /\ e # Malformed
       /\ \/ \A t \in e.targets : /\ checkpoint[t][e.ident] # NoEvent
                                  /\ checkpoint[t][e.ident].seq >= e.seq
          \/ \E t \in e.targets : /\ checkpoint[t][e.ident] # NoEvent
                                  /\ checkpoint[t][e.ident].seq > e.seq

(* AckedSettled: an offset is committed only behind records that are       *)
(* settled.  A record that is neither applied nor quarantined may not be   *)
(* skipped (run_consumer).                                                 *)
AckedSettled ==
    \A p \in Partitions : \A o \in 1 .. committed[p] : SettledAt(p, o)

(* CheckpointsAdvance: a checkpoint row is only ever replaced by a newer   *)
(* event, so two workers never race to overwrite one another's progress.   *)
CheckpointsAdvance ==
    [][\A t \in Clusters, i \in Idents :
          checkpoint'[t][i] # checkpoint[t][i] =>
              \/ checkpoint[t][i] = NoEvent
              \/ Newer(checkpoint'[t][i], checkpoint[t][i])]_vars

(* OffsetsAdvance: the committed offset of a partition never moves back,   *)
(* although a worker may finish a record after it lost the partition.      *)
OffsetsAdvance ==
    [][\A p \in Partitions : committed'[p] >= committed[p]]_vars

-----------------------------------------------------------------------------
(* What run_consumer says of itself and does not keep.                      *)

(* Drained: once faults stop, every record is acknowledged: a record whose *)
(* offset was left uncommitted is fetched again (run_consumer).            *)
Drained ==
    \A p \in Partitions : \A n \in 1 .. MaxTopic :
        (Len(topic[p]) >= n) ~> (committed[p] >= n)
=============================================================================
