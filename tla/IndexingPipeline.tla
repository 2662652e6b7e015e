-------------------------- MODULE IndexingPipeline --------------------------
(***************************************************************************)
(* The write path end to end: a mutation accepted by a Query API replica   *)
(* is recorded in the event log, published to Kafka by the request's own   *)
(* thread or by the outbox dispatcher of any replica                       *)
(* (query_api/app/services/kafka_producer.py, main.py), and applied to its *)
(* Typesense clusters by the indexing workers (IndexingWorker).            *)
(***************************************************************************)
EXTENDS IndexingWorker

CONSTANTS
    Keys, RepairKeys, Bodies,
    Deletion,      \* the body of a delete
    Routes,        \* target sets the routing can choose for a document
    RepairRoutes,  \* candidate clusters of a rollout
    PartitionOf,   \* identity -> partition of its Kafka key
    Publishers,    \* request and dispatcher threads of the replicas
    BatchSize,     \* INDEXING_OUTBOX_BATCH_SIZE
    MaxRows,       \* bound: mutations accepted
    MaxMisses,     \* bound: failed calls and ends of publishers
    SendMayDrop    \* flush may return although the send has failed

VARIABLES
    rows, head, published,  \* the event log
    queue,         \* publisher -> rows it has yet to publish
    sent,          \* publisher -> the first of them was handed to Kafka
    misses         \* failures of publishers so far

outboxVars == <<rows, head, published>>
pubVars    == <<queue, sent, misses>>
pipeVars   == <<vars, outboxVars, pubVars>>

Log == INSTANCE EventLog WITH fence <- 0

\* The mutations within the bounds.
Mutations ==
    [pos : 1 .. MaxRows, ident : Idents, seq : 1 .. MaxRows, key : Keys, body : Bodies,
     targets : (SUBSET Clusters) \ {{}}]

Payload(r) == [id |-> r.pos, ident |-> r.ident, seq |-> r.seq,
               version |-> r.seq, targets |-> r.targets, body |-> r.body]

ASSUME PipelineAssumption ==
    /\ Routes \cup RepairRoutes \cup {Registered} \subseteq (SUBSET Clusters) \ {{}}
    /\ RepairKeys \subseteq Keys
    /\ PartitionOf \in [Idents -> Partitions]
    /\ {BatchSize, MaxRows, MaxMisses} \subseteq Nat
    /\ SendMayDrop \in BOOLEAN
    /\ \A r \in Mutations : Payload(r) \in Events

Pending == {r \in rows : r.pos \notin published}

\* What a send does to the topic: the record joins its key's partition.
Appended(r) == [topic EXCEPT ![PartitionOf[r.ident]] = Append(@, Payload(r))]

TopicHasRoom(r) == Len(topic[PartitionOf[r.ident]]) < MaxTopic

UnchangedWorkers == UNCHANGED <<kafkaVars, dlq, storeVars, workerVars, faults>>

Miss == misses < MaxMisses /\ misses' = misses + 1

\* Variant: a later mutation reuses the sequence of the one before it.
NextSequenceReused(i) == IF head[i] = 0 THEN 1 ELSE head[i]

NextSequence(i) == head[i] + 1

\* The first of the rows a publisher has taken.
InHand(x) == CHOOSE r \in queue[x] : \A s \in queue[x] : r.pos <= s.pos

\* list_pending: the oldest unpublished rows.
Page == {r \in Pending : Cardinality({s \in Pending : s.pos <= r.pos}) <= BatchSize}

-----------------------------------------------------------------------------

\* The row of a mutation, at the next position and sequence.
Drafted(i, k, b, T) ==
    [pos |-> Cardinality(rows) + 1, ident |-> i, seq |-> NextSequence(i),
     key |-> k, body |-> b, targets |-> T]

(* prepare under a new key: the row is recorded, and the thread of the     *)
(* request goes on to publish it.                                          *)
Recorded(x, r) ==
    /\ queue[x] = {}
    /\ Cardinality(rows) < MaxRows
    /\ Log!WithKey(r.ident, r.key) = {}
    /\ rows' = rows \cup {r}
    /\ head' = [head EXCEPT ![r.ident] = r.seq]
    /\ queue' = [queue EXCEPT ![x] = {r}]
    /\ UNCHANGED <<published, sent, misses, topic>>
    /\ UnchangedWorkers

(* A document is ingested: it goes where the routing sends it.             *)
Ingest(x, i, k, b) == \E T \in Routes : Recorded(x, Drafted(i, k, b, T))

(* A document is deleted: from every registered cluster.                   *)
Delete(x, i, k) == Recorded(x, Drafted(i, k, Deletion, Registered))

(* A rollout repair: the newest mutation of the identity again, for the    *)
(* candidate clusters only.                                                *)
Repair(x, i, k, T) ==
    \E s \in Log!Newest(i) : Recorded(x, Drafted(i, k, s.body, T))

(* The request is repeated under its key: the recorded event is published  *)
(* again unless it is marked already.                                      *)
Again(x, r) ==
    /\ queue[x] = {}
    /\ r \in Pending
    /\ queue' = [queue EXCEPT ![x] = {r}]
    /\ UNCHANGED <<outboxVars, sent, misses, topic>>
    /\ UnchangedWorkers

(* The dispatcher takes the oldest unpublished rows.                       *)
Dispatch(x) ==
    /\ queue[x] = {}
    /\ Pending # {}
    /\ queue' = [queue EXCEPT ![x] = Page]
    /\ UNCHANGED <<outboxVars, sent, misses, topic>>
    /\ UnchangedWorkers

(* send and flush return.  The future of the send is not looked at: with   *)
(* SendMayDrop the broker may have refused the record.                     *)
Send(x) ==
    /\ queue[x] # {}
    /\ ~sent[x]
    /\ TopicHasRoom(InHand(x))
    /\ \/ topic' = Appended(InHand(x)) /\ UNCHANGED misses
       \/ SendMayDrop /\ Miss /\ UNCHANGED topic
    /\ sent' = [sent EXCEPT ![x] = TRUE]
    /\ UNCHANGED <<outboxVars, queue>>
    /\ UnchangedWorkers

\* Variant: the error is logged and the row is marked all the same.
SendRaisesSwallowed(x) ==
    /\ queue[x] # {}
    /\ ~sent[x]
    /\ Miss
    /\ sent' = [sent EXCEPT ![x] = TRUE]
    /\ UNCHANGED <<outboxVars, queue, topic>>
    /\ UnchangedWorkers

(* send or flush raises, with the record in the topic or not: the failure  *)
(* is recorded, and the request or the dispatcher's round ends.            *)
SendRaises(x) ==
    /\ queue[x] # {}
    /\ ~sent[x]
    /\ TopicHasRoom(InHand(x))
    /\ Miss
    /\ \/ topic' = Appended(InHand(x))
       \/ UNCHANGED topic
    /\ queue' = [queue EXCEPT ![x] = {}]
    /\ UNCHANGED <<outboxVars, sent>>
    /\ UnchangedWorkers

(* mark_published, and on to the next row.                                 *)
Mark(x) ==
    /\ sent[x]
    /\ published' = published \cup {InHand(x).pos}
    /\ queue' = [queue EXCEPT ![x] = @ \ {InHand(x)}]
    /\ sent' = [sent EXCEPT ![x] = FALSE]
    /\ UNCHANGED <<rows, head, misses, topic>>
    /\ UnchangedWorkers

(* The replica dies, or PostgreSQL cannot be reached for the mark.         *)
Abandon(x) ==
    /\ queue[x] # {}
    /\ Miss
    /\ queue' = [queue EXCEPT ![x] = {}]
    /\ sent' = [sent EXCEPT ![x] = FALSE]
    /\ UNCHANGED <<outboxVars, topic>>
    /\ UnchangedWorkers

-----------------------------------------------------------------------------

PipeInit ==
    /\ WorkerInit
    /\ rows = {}
    /\ head = [i \in Idents |-> 0]
    /\ published = {}
    /\ queue = [x \in Publishers |-> {}]
    /\ sent = [x \in Publishers |-> FALSE]
    /\ misses = 0

Client(x) ==
    \/ \E i \in Idents, k \in Keys \ RepairKeys :
          \/ \E b \in Bodies \ {Deletion} : Ingest(x, i, k, b)
          \/ Deletion \in Bodies /\ Delete(x, i, k)
    \/ \E i \in Idents, k \in RepairKeys, T \in RepairRoutes : Repair(x, i, k, T)
    \/ \E r \in Pending : Again(x, r)

Publish(x) == Dispatch(x) \/ Send(x) \/ Mark(x)

PipeNext ==
    \/ \E x \in Publishers :
          Client(x) \/ Publish(x) \/ SendRaises(x) \/ Abandon(x)
    \/ WorkerNext /\ UNCHANGED <<outboxVars, pubVars>>

PipeSpec == PipeInit /\ [][PipeNext]_pipeVars

FairPipeSpec ==
    /\ PipeSpec
    /\ \A x \in Publishers : WF_pipeVars(Publish(x))
    /\ \A w \in Workers :
          WF_pipeVars(Progress(w) /\ UNCHANGED <<outboxVars, pubVars>>)

-----------------------------------------------------------------------------

PipeTypeOK ==
    /\ TypeOK
    /\ Log!LogTypeOK
    /\ queue \in [Publishers -> SUBSET rows]
    /\ sent \in [Publishers -> BOOLEAN]
    /\ misses \in 0 .. MaxMisses

InTopic(r) == \E o \in 1 .. Len(topic[PartitionOf[r.ident]]) :
                 topic[PartitionOf[r.ident]][o] = Payload(r)

(* PublishedReachedKafka: a row is marked published only once Kafka has    *)
(* it, so that no crash or retry of a publisher loses a mutation.          *)
PublishedReachedKafka == \A r \in rows \ Pending : InTopic(r)

(* NothingRejected: no event of the log is refused for its order: neither  *)
(* duplicates, nor publication out of sequence, nor a new owner of the     *)
(* partition make a worker raise EventOrderingError or EventEnvelopeError. *)
NothingRejected == \A d \in dlq : d.error = "failed"

\* Nothing is left to publish or to consume, and nothing was quarantined.
Quiet ==
    /\ Pending = {}
    /\ \A x \in Publishers : queue[x] = {}
    /\ \A p \in Partitions : committed[p] = Len(topic[p])
    /\ \A w \in Workers : pc[w] = "idle"
    /\ late = {}
    /\ dlq = {}

(* Converged: when the pipeline is quiet, every target of the newest       *)
(* mutation of a document holds exactly that mutation, in whatever order   *)
(* and however often its events were published and consumed.               *)
Converged ==
    Quiet => \A i \in Idents : \A r \in Log!Newest(i) : \A t \in r.targets :
                content[t][i] = Payload(r)

(* VisibleEverywhere: when the pipeline is quiet, every accepted write has *)
(* reached each of its targets, or a newer one has: replay converges also  *)
(* on a target that a later repair does not name.                          *)
VisibleEverywhere ==
    Quiet => \A r \in rows : \A t \in r.targets :
                content[t][r.ident] # NoEvent /\ content[t][r.ident].seq >= r.seq

(* EventuallySettled: an accepted mutation is eventually published and     *)
(* handled by the workers, once faults stop.                               *)
EventuallySettled ==
    \A n \in 1 .. MaxRows :
        (\E r \in rows : r.pos = n) ~>
        (\E r \in rows : /\ r.pos = n
                         /\ \E o \in 1 .. Len(topic[PartitionOf[r.ident]]) :
                               /\ topic[PartitionOf[r.ident]][o] = Payload(r)
                               /\ SettledAt(PartitionOf[r.ident], o))
=============================================================================
