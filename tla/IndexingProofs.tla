--------------------------- MODULE IndexingProofs ---------------------------
(***************************************************************************)
(* The write path, for any number of publishers, workers, partitions,      *)
(* documents and clusters, any bound on attempts, batches and faults, and  *)
(* any set of envelopes.                                                   *)
(*                                                                         *)
(* The first part is about IndexingWorker alone.  To the workers the       *)
(* publishers are the environment that it assumes, so its theorems hold of *)
(* IndexingPipeline; with what is in the topic and behind the checkpoints  *)
(* they give convergence, in the second part.                              *)
(***************************************************************************)
EXTENDS IndexingPipeline, FiniteSetTheorems, SequenceTheorems, TLAPS

-----------------------------------------------------------------------------
(* The workers *)

(***************************************************************************)
(* A worker outside of poll has a batch that lies in its partition, and    *)
(* opens a scope only for a valid envelope.                                *)
(***************************************************************************)
BatchInv ==
    \A w \in Workers :
        pc[w] # "idle" =>
            /\ cur[w] \in Batches
            /\ 1 <= cur[w].off
            /\ cur[w].off <= cur[w].last
            /\ cur[w].last <= Len(topic[cur[w].part])

ScopeInv == \A w \in Workers : pc[w] = "apply" => Rec(w) # Malformed

TypeInv == TypeOK /\ BatchInv /\ ScopeInv

-----------------------------------------------------------------------------

(* RecordTyped: the record a worker is handling is one of its topic.       *)
LEMMA RecordTyped ==
    ASSUME TypeInv, NEW w \in Workers, pc[w] # "idle"
    PROVE  /\ Rec(w) \in Records
           /\ cur[w] \in Batches
           /\ cur[w] # NoBatch
  BY MarkersAssumption DEF TypeInv, TypeOK, KafkaTypeOK, WorkerTypeOK, BatchInv,
                           Rec, Records, Batches

(* ScopeTyped: a worker with an open scope handles an event.               *)
LEMMA ScopeTyped ==
    ASSUME TypeInv, NEW w \in Workers, pc[w] = "apply"
    PROVE  Rec(w) \in Events /\ Ident(w) \in Idents
  BY RecordTyped, EventsAssumption DEF TypeInv, ScopeInv, Records, Ident

(* SavedTyped: committing checkpoints keeps the type of the table.         *)
LEMMA SavedTyped ==
    ASSUME StoreTypeOK, NEW e \in Events, NEW S
    PROVE  Saved(e, S) \in [Clusters -> [Idents -> Events \cup {NoEvent}]]
  BY EventsAssumption DEF StoreTypeOK, Saved

(* FailAttemptTyped: a failed attempt leaves the worker with its batch and *)
(* without a scope, and no other worker notices.                           *)
LEMMA FailAttemptTyped ==
    ASSUME TypeInv, NEW w \in Workers, pc[w] # "idle", FailAttempt(w),
           topic' = topic
    PROVE  WorkerTypeOK' /\ BatchInv' /\ ScopeInv'
  <1>1. WorkerTypeOK' /\ cur' = cur
    BY SizesAssumption DEF TypeInv, TypeOK, WorkerTypeOK, FailAttempt, Exhausted,
                           Errors
  <1>2. \A v \in Workers : /\ pc'[v] # "idle" => pc[v] # "idle"
                           /\ pc'[v] = "apply" => pc[v] = "apply"
    BY DEF TypeInv, TypeOK, WorkerTypeOK, FailAttempt
  <1> QED
    BY <1>1, <1>2 DEF TypeInv, BatchInv, ScopeInv, Rec

(* LeaveBatchTyped: a worker that goes back to poll needs no batch.        *)
LEMMA LeaveBatchTyped ==
    ASSUME TypeInv, NEW w \in Workers, StartRecord(w, NoBatch), topic' = topic
    PROVE  WorkerTypeOK' /\ BatchInv' /\ ScopeInv'
  <1>1. WorkerTypeOK'
    BY SizesAssumption DEF TypeInv, TypeOK, WorkerTypeOK, StartRecord, Errors
  <1>2. \A v \in Workers : pc'[v] # "idle" => pc'[v] = pc[v] /\ cur'[v] = cur[v]
    BY DEF TypeInv, TypeOK, WorkerTypeOK, StartRecord
  <1> QED
    BY <1>1, <1>2 DEF TypeInv, BatchInv, ScopeInv, Rec

(* StartRecordTyped: a worker turns to a record of its partition.          *)
LEMMA StartRecordTyped ==
    ASSUME TypeInv, NEW w \in Workers, topic' = topic,
           NEW b \in Batches, 1 <= b.off, b.off <= b.last,
           b.last <= Len(topic[b.part]), StartRecord(w, b)
    PROVE  WorkerTypeOK' /\ BatchInv' /\ ScopeInv'
  <1>1. b # NoBatch
    BY MarkersAssumption DEF Batches
  <1>2. WorkerTypeOK'
    BY <1>1, SizesAssumption DEF TypeInv, TypeOK, WorkerTypeOK, StartRecord, Errors
  <1>3. /\ cur'[w] = b /\ pc'[w] = "try"
        /\ \A v \in Workers : v # w => pc'[v] = pc[v] /\ cur'[v] = cur[v]
    BY <1>1 DEF TypeInv, TypeOK, WorkerTypeOK, StartRecord
  <1> QED
    BY <1>2, <1>3 DEF TypeInv, BatchInv, ScopeInv, Rec

(* TypeInit: the invariant holds before the first poll.                    *)
LEMMA TypeInit == WorkerInit => TypeInv
  <1> SUFFICES ASSUME WorkerInit PROVE TypeInv
    OBVIOUS
  <1>1. TypeOK
    BY SizesAssumption
    DEF WorkerInit, TypeOK, KafkaTypeOK, StoreTypeOK, WorkerTypeOK, Errors
  <1>2. BatchInv /\ ScopeInv
    BY DEF WorkerInit, BatchInv, ScopeInv
  <1> QED
    BY <1>1, <1>2 DEF TypeInv

(* TypeStep: every step of a worker, of Kafka or of Typesense keeps the    *)
(* types and the batches inside of their partitions.                       *)
LEMMA TypeStep == TypeInv /\ [Next]_vars => TypeInv'
  <1> SUFFICES ASSUME TypeInv, [Next]_vars PROVE TypeInv'
    OBVIOUS
  <1>a. TypeOK /\ KafkaTypeOK /\ StoreTypeOK /\ WorkerTypeOK /\ BatchInv /\ ScopeInv
    BY DEF TypeInv, TypeOK
  <1>b. ASSUME NEW w \in Workers, Fault PROVE faults' \in 0 .. MaxFaults
    BY <1>a, <1>b, SizesAssumption DEF TypeOK, Fault
  <1>1. ASSUME NEW w \in Workers, NEW p \in Partitions, Poll(w, p)
        PROVE  TypeInv'
    <2>1. PICK n \in 1 .. MaxPollRecords :
             /\ position[p] + n <= Len(topic[p])
             /\ position' = [position EXCEPT ![p] = @ + n]
             /\ StartRecord(w, [part |-> p, off |-> position[p] + 1,
                                last |-> position[p] + n])
      BY <1>1 DEF Poll
    <2> DEFINE b == [part |-> p, off |-> position[p] + 1, last |-> position[p] + n]
    <2>2. /\ b \in Batches /\ 1 <= b.off /\ b.off <= b.last
          /\ b.last <= Len(topic[b.part])
      BY <1>a, <2>1, SizesAssumption DEF Batches, KafkaTypeOK
    <2>3. WorkerTypeOK' /\ BatchInv' /\ ScopeInv'
      <3> HIDE DEF b
      <3>1. StartRecord(w, b)
        BY <2>1 DEF b
      <3> QED
        BY <1>1, <2>2, <3>1, StartRecordTyped DEF Poll
    <2>4. position' \in [Partitions -> Nat]
      BY <1>a, <2>1, SizesAssumption DEF KafkaTypeOK
    <2> QED
      BY <1>1, <1>a, <2>3, <2>4
      DEF Poll, TypeInv, TypeOK, KafkaTypeOK, StoreTypeOK, storeVars
  <1>2. ASSUME NEW w \in Workers, OpenScope(w)
        PROVE  TypeInv'
    <2>1. Planned(Rec(w)) \subseteq Clusters
      BY <1>2, RecordTyped, EventsAssumption DEF OpenScope, Planned, Records
    <2>2. WorkerTypeOK' /\ BatchInv' /\ ScopeInv'
      BY <1>2, <1>a, <2>1 DEF OpenScope, WorkerTypeOK, BatchInv, ScopeInv, Rec
    <2> QED
      BY <1>2, <1>a, <2>2
      DEF OpenScope, TypeInv, TypeOK, KafkaTypeOK, StoreTypeOK, kafkaVars, storeVars
  <1>3. ASSUME NEW w \in Workers, MissingTarget(w)
        PROVE  TypeInv'
    <2>1. WorkerTypeOK' /\ BatchInv' /\ ScopeInv'
      BY <1>3, FailAttemptTyped DEF MissingTarget
    <2> QED
      BY <1>3, <1>a, <2>1, SizesAssumption
      DEF MissingTarget, TypeInv, TypeOK, KafkaTypeOK, StoreTypeOK, kafkaVars,
          storeVars
  <1>4. ASSUME NEW w \in Workers, Reject(w)
        PROVE  TypeInv'
    <2>1. WorkerTypeOK' /\ BatchInv' /\ ScopeInv'
      BY <1>4, <1>a DEF Reject, WorkerTypeOK, BatchInv, ScopeInv, Rec, Errors
    <2> QED
      BY <1>4, <1>a, <2>1
      DEF Reject, TypeInv, TypeOK, KafkaTypeOK, StoreTypeOK, kafkaVars, storeVars
  <1>5. ASSUME NEW w \in Workers, NEW t \in Clusters, WriteTarget(w, t)
        PROVE  TypeInv'
    <2>1. Rec(w) \in Events /\ Ident(w) \in Idents
      BY <1>5, ScopeTyped DEF WriteTarget
    <2>2. StoreTypeOK'
      <3>1. content' \in [Clusters -> [Idents -> Events \cup {NoEvent}]]
        BY <1>5, <1>a, <2>1 DEF WriteTarget, StoreTypeOK
      <3>2. checkpoint' \in [Clusters -> [Idents -> Events \cup {NoEvent}]]
        <4>1. checkpoint' = checkpoint \/ checkpoint' = Saved(Rec(w), staged[w])
          BY <1>5 DEF WriteTarget
        <4> QED
          BY <1>a, <2>1, <4>1, SavedTyped DEF StoreTypeOK
      <3> QED
        BY <1>5, <1>a, <3>1, <3>2 DEF WriteTarget, StoreTypeOK
    <2>3. WorkerTypeOK' /\ BatchInv' /\ ScopeInv'
      <3>1. CASE FailAttempt(w)
        BY <1>5, <3>1, FailAttemptTyped DEF WriteTarget
      <3>2. CASE ~FailAttempt(w)
        <4>1. /\ staged' = [staged EXCEPT ![w] = @ \cup {t}]
              /\ todo' = [todo EXCEPT ![w] = @ \ {t}]
              /\ UNCHANGED <<pc, cur, attempt, err, topic>>
          BY <1>5, <3>2 DEF WriteTarget
        <4> QED
          BY <1>a, <4>1 DEF WorkerTypeOK, BatchInv, ScopeInv, Rec
      <3> QED
        BY <3>1, <3>2
    <2> QED
      BY <1>5, <1>a, <2>2, <2>3
      DEF WriteTarget, TypeInv, TypeOK, KafkaTypeOK, kafkaVars
  <1>6. ASSUME NEW w \in Workers, CommitScope(w)
        PROVE  TypeInv'
    <2>1. StoreTypeOK'
      BY <1>6, <1>a, ScopeTyped, SavedTyped DEF CommitScope, StoreTypeOK
    <2>2. WorkerTypeOK' /\ BatchInv' /\ ScopeInv'
      BY <1>6, <1>a DEF CommitScope, WorkerTypeOK, BatchInv, ScopeInv, Rec
    <2> QED
      BY <1>6, <1>a, <2>1, <2>2
      DEF CommitScope, TypeInv, TypeOK, KafkaTypeOK, kafkaVars
  <1>7. ASSUME NEW w \in Workers, Quarantine(w)
        PROVE  TypeInv'
    <2>1. cur[w].part \in Partitions /\ cur[w].off \in Nat /\ err[w] \in Errors
      BY <1>7, <1>a, RecordTyped DEF Quarantine, Batches, WorkerTypeOK
    <2>2. KafkaTypeOK'
      BY <1>7, <1>a, <2>1 DEF Quarantine, KafkaTypeOK, kafkaVars
    <2>3. WorkerTypeOK' /\ BatchInv' /\ ScopeInv'
      BY <1>7, <1>a DEF Quarantine, WorkerTypeOK, BatchInv, ScopeInv, Rec
    <2> QED
      BY <1>7, <1>a, <2>2, <2>3
      DEF Quarantine, TypeInv, TypeOK, StoreTypeOK, storeVars
  <1>8. ASSUME NEW w \in Workers, CommitOffset(w)
        PROVE  TypeInv'
    <2>1. /\ cur[w] \in Batches /\ cur[w].part \in Partitions
          /\ cur[w].off \in Nat /\ cur[w].last \in Nat
          /\ cur[w].last <= Len(topic[cur[w].part])
      BY <1>8, <1>a DEF CommitOffset, Batches, BatchInv
    <2>2. KafkaTypeOK'
      BY <1>8, <1>a, <2>1 DEF CommitOffset, KafkaTypeOK
    <2>3. WorkerTypeOK' /\ BatchInv' /\ ScopeInv'
      <3>1. CASE cur[w].off < cur[w].last
        <4> DEFINE b == [cur[w] EXCEPT !.off = @ + 1]
        <4>1. StartRecord(w, b) /\ topic' = topic
          BY <1>8, <3>1 DEF CommitOffset
        <4>2. /\ b \in Batches /\ b.off = cur[w].off + 1
              /\ b.last = cur[w].last /\ b.part = cur[w].part
          BY <2>1 DEF Batches
        <4> HIDE DEF b
        <4>3. 1 <= b.off /\ b.off <= b.last /\ b.last <= Len(topic[b.part])
          BY <2>1, <3>1, <4>2
        <4> QED
          BY <4>1, <4>2, <4>3, StartRecordTyped
      <3>2. CASE ~(cur[w].off < cur[w].last)
        <4>1. StartRecord(w, NoBatch) /\ topic' = topic
          BY <1>8, <3>2 DEF CommitOffset
        <4> QED
          BY <4>1, LeaveBatchTyped
      <3> QED
        BY <3>1, <3>2
    <2> QED
      BY <1>8, <1>a, <2>2, <2>3
      DEF CommitOffset, TypeInv, TypeOK, StoreTypeOK, storeVars
  <1>9. ASSUME NEW w \in Workers, CommitOffsetFails(w)
        PROVE  TypeInv'
    <2>1. WorkerTypeOK' /\ BatchInv' /\ ScopeInv'
      BY <1>9, LeaveBatchTyped DEF CommitOffsetFails
    <2>2. faults' \in 0 .. MaxFaults
      BY <1>9, <1>a, <1>b DEF CommitOffsetFails, TypeOK
    <2> QED
      BY <1>9, <1>a, <2>1, <2>2
      DEF CommitOffsetFails, TypeInv, TypeOK, KafkaTypeOK, StoreTypeOK, kafkaVars,
          storeVars
  <1>10. ASSUME NEW w \in Workers, ScopeUnavailable(w)
        PROVE  TypeInv'
    <2>1. WorkerTypeOK' /\ BatchInv' /\ ScopeInv'
      BY <1>10, FailAttemptTyped DEF ScopeUnavailable
    <2>2. faults' \in 0 .. MaxFaults
      BY <1>10, <1>a, <1>b DEF ScopeUnavailable, TypeOK
    <2> QED
      BY <1>10, <1>a, <2>1, <2>2
      DEF ScopeUnavailable, TypeInv, TypeOK, KafkaTypeOK, StoreTypeOK, kafkaVars,
          storeVars
  <1>11. ASSUME NEW w \in Workers, NEW t \in Clusters, WriteFails(w, t)
        PROVE  TypeInv'
    <2>1. Rec(w) \in Events /\ Ident(w) \in Idents
      BY <1>11, ScopeTyped DEF WriteFails
    <2>2. StoreTypeOK'
      <3>1. content' \in [Clusters -> [Idents -> Events \cup {NoEvent}]]
        <4>1. \/ content' = content
              \/ content' = [content EXCEPT ![t][Ident(w)] = Rec(w)]
          BY <1>11 DEF WriteFails
        <4>2. content \in [Clusters -> [Idents -> Events \cup {NoEvent}]]
          BY <1>a DEF StoreTypeOK
        <4>3. PICK i, e : i = Ident(w) /\ e = Rec(w)
          OBVIOUS
        <4>4. e \in Events \cup {NoEvent} /\ i \in Idents
          BY <2>1, <4>3
        <4>5. [content EXCEPT ![t][i] = e] \in [Clusters -> [Idents -> Events \cup {NoEvent}]]
          BY <4>2, <4>4
        <4> QED
          BY <4>1, <4>2, <4>3, <4>5
      <3>2. checkpoint' \in [Clusters -> [Idents -> Events \cup {NoEvent}]]
        <4>1. checkpoint' = checkpoint \/ checkpoint' = Saved(Rec(w), staged[w])
          BY <1>11 DEF WriteFails
        <4> QED
          BY <1>a, <2>1, <4>1, SavedTyped DEF StoreTypeOK
      <3>3. late' \subseteq Clusters \X Events
        <4>1. late' = late \/ late' = late \cup {<<t, Rec(w)>>}
          BY <1>11 DEF WriteFails
        <4> QED
          BY <1>a, <2>1, <4>1 DEF StoreTypeOK
      <3> QED
        BY <3>1, <3>2, <3>3 DEF StoreTypeOK
    <2>3. WorkerTypeOK' /\ BatchInv' /\ ScopeInv'
      BY <1>11, FailAttemptTyped DEF WriteFails
    <2>4. faults' \in 0 .. MaxFaults
      BY <1>11, <1>b DEF WriteFails
    <2> QED
      BY <1>11, <1>a, <2>2, <2>3, <2>4
      DEF WriteFails, TypeInv, TypeOK, KafkaTypeOK, kafkaVars
  <1>12. ASSUME NEW w \in Workers, CommitScopeFails(w)
        PROVE  TypeInv'
    <2>1. StoreTypeOK'
      BY <1>12, <1>a, ScopeTyped, SavedTyped DEF CommitScopeFails, StoreTypeOK
    <2>2. WorkerTypeOK' /\ BatchInv' /\ ScopeInv'
      BY <1>12, FailAttemptTyped DEF CommitScopeFails
    <2>3. faults' \in 0 .. MaxFaults
      BY <1>12, <1>b DEF CommitScopeFails
    <2> QED
      BY <1>12, <1>a, <2>1, <2>2, <2>3
      DEF CommitScopeFails, TypeInv, TypeOK, KafkaTypeOK, kafkaVars
  <1>13. ASSUME NEW w \in Workers, QuarantineFails(w)
        PROVE  TypeInv'
    <2>1. WorkerTypeOK' /\ BatchInv' /\ ScopeInv'
      BY <1>13, LeaveBatchTyped DEF QuarantineFails
    <2>2. faults' \in 0 .. MaxFaults
      BY <1>13, <1>b DEF QuarantineFails
    <2> QED
      BY <1>13, <1>a, <2>1, <2>2
      DEF QuarantineFails, TypeInv, TypeOK, KafkaTypeOK, StoreTypeOK, kafkaVars,
          storeVars
  <1>14. ASSUME NEW w \in Workers, Crash(w)
        PROVE  TypeInv'
    <2>1. StoreTypeOK'
      BY <1>14, <1>a, ScopeTyped DEF Crash, RestartPosition, StoreTypeOK, WorkerTypeOK
    <2>2. WorkerTypeOK' /\ BatchInv' /\ ScopeInv'
      BY <1>14, LeaveBatchTyped DEF Crash, RestartPosition
    <2>3. faults' \in 0 .. MaxFaults
      BY <1>14, <1>b DEF Crash, RestartPosition
    <2>4. KafkaTypeOK' /\ known' \in [Workers -> SUBSET Clusters]
      BY <1>14, <1>a, SizesAssumption DEF Crash, RestartPosition, KafkaTypeOK, TypeOK
    <2> QED
      BY <2>1, <2>2, <2>3, <2>4 DEF TypeInv, TypeOK
  <1>15. ASSUME NEW w \in Workers, NEW p \in Partitions, Rebalance(p, w)
        PROVE  TypeInv'
    <2>1. faults' \in 0 .. MaxFaults
      BY <1>15, <1>b DEF Rebalance, RestartPosition
    <2>2. KafkaTypeOK'
      BY <1>15, <1>a DEF Rebalance, RestartPosition, KafkaTypeOK
    <2> QED
      BY <1>15, <1>a, <2>1, <2>2
      DEF Rebalance, RestartPosition, TypeInv, TypeOK, StoreTypeOK, WorkerTypeOK, BatchInv, ScopeInv,
          Rec, storeVars, workerVars
  <1>16. ASSUME LateWrite
        PROVE  TypeInv'
    <2>1. PICK x \in late : /\ content' = [content EXCEPT ![x[1]][x[2].ident] = x[2]]
                            /\ late' = late \ {x}
      BY <1>16 DEF LateWrite
    <2>2. x[1] \in Clusters /\ x[2] \in Events /\ x[2].ident \in Idents
      BY <1>a, EventsAssumption DEF StoreTypeOK
    <2>3. StoreTypeOK'
      BY <1>16, <1>a, <2>1, <2>2 DEF LateWrite, StoreTypeOK
    <2> QED
      BY <1>16, <1>a, <2>3
      DEF LateWrite, TypeInv, TypeOK, KafkaTypeOK, WorkerTypeOK, BatchInv, ScopeInv,
          Rec, kafkaVars, workerVars
  <1>17. ASSUME NEW p \in Partitions, NEW r \in Records, Deliver(p, r)
        PROVE  TypeInv'
    <2>1. /\ topic' \in [Partitions -> Seq(Records)]
          /\ \A q \in Partitions :
                /\ Len(topic[q]) <= Len(topic'[q])
                /\ \A o \in 1 .. Len(topic[q]) : topic'[q][o] = topic[q][o]
      BY <1>17, <1>a DEF Deliver, KafkaTypeOK
    <2>2. TypeOK'
      BY <1>17, <1>a, <2>1
      DEF Deliver, TypeOK, KafkaTypeOK, StoreTypeOK, WorkerTypeOK, kafkaVars,
          storeVars, workerVars
    <2>3. \A w \in Workers : pc[w] # "idle" =>
             /\ cur[w].part \in Partitions
             /\ cur[w].off \in 1 .. Len(topic[cur[w].part])
      BY <1>a DEF BatchInv, Batches, KafkaTypeOK
    <2>4. BatchInv'
      <3> SUFFICES ASSUME NEW w \in Workers, pc[w] # "idle"
                   PROVE  cur[w].last <= Len(topic'[cur[w].part])
        BY <1>17, <1>a DEF Deliver, BatchInv, workerVars
      <3>1. /\ cur[w].last \in Nat /\ cur[w].part \in Partitions
            /\ cur[w].last <= Len(topic[cur[w].part])
        BY <1>a DEF BatchInv, Batches
      <3> QED
        BY <2>1, <3>1, <1>a DEF KafkaTypeOK
    <2>5. ScopeInv'
      BY <1>17, <1>a, <2>1, <2>3 DEF Deliver, ScopeInv, Rec, workerVars
    <2> QED
      BY <2>2, <2>4, <2>5 DEF TypeInv
  <1>18. CASE UNCHANGED vars
    BY <1>18, <1>a
    DEF vars, TypeInv, TypeOK, KafkaTypeOK, StoreTypeOK, WorkerTypeOK, BatchInv,
        ScopeInv, Rec, kafkaVars, storeVars, workerVars
  <1> QED
    BY <1>1, <1>2, <1>3, <1>4, <1>5, <1>6, <1>7, <1>8, <1>9, <1>10, <1>11, <1>12,
       <1>13, <1>14, <1>15, <1>16, <1>17, <1>18
    DEF Next, WorkerNext, Progress, Failure

(* TypeCorrect: the specification keeps the types; no record is tried more *)
(* often than allowed and none is read outside of its partition.           *)
THEOREM TypeCorrect == Spec => []TypeOK
  <1>1. TypeInv => TypeOK
    BY DEF TypeInv
  <1> QED
    BY <1>1, TypeInit, TypeStep, PTL DEF Spec
-----------------------------------------------------------------------------
(***************************************************************************)
(* The fences.  Two open scopes never share a target of one document, and  *)
(* what a scope has yet to commit is newer than every checkpoint it will   *)
(* replace.                                                                *)
(***************************************************************************)
Exclusive ==
    \A v, w \in Workers :
        v # w /\ pc[v] = "apply" /\ pc[w] = "apply" /\ Ident(v) = Ident(w) =>
            Rec(v).targets \cap Rec(w).targets = {}

Fresh(e, t) ==
    checkpoint[t][e.ident] = NoEvent \/ Newer(e, checkpoint[t][e.ident])

ScopesFresh ==
    \A w \in Workers :
        /\ pc[w] # "apply" => staged[w] = {}
        /\ pc[w] = "apply" =>
              /\ todo[w] \subseteq Rec(w).targets
              /\ staged[w] \subseteq Rec(w).targets
              /\ \A t \in todo[w] \cup staged[w] : Fresh(Rec(w), t)

(* Without late writes a staged target still shows the event that was      *)
(* written to it.                                                          *)
StagedShown ==
    ~LateWrites =>
        /\ late = {}
        /\ FenceHolds
        /\ \A w \in Workers : pc[w] = "apply" =>
              \A t \in staged[w] : content[t][Ident(w)] = Rec(w)

FenceInv == TypeInv /\ Exclusive /\ ScopesFresh /\ StagedShown

(* FenceInit: no scope is open and nothing is stored.                      *)
LEMMA FenceInit == WorkerInit => FenceInv
  BY TypeInit
  DEF WorkerInit, FenceInv, Exclusive, ScopesFresh, StagedShown, FenceHolds

(* ScopesKept: a step that neither opens nor touches a scope, and does not *)
(* reach the stores, keeps the fences.                                     *)
LEMMA ScopesKept ==
    ASSUME FenceInv, TypeInv',
           UNCHANGED <<checkpoint, content>>, late' = late \/ LateWrites,
           \A v \in Workers : pc'[v] = "apply" =>
               /\ pc[v] = "apply" /\ Rec(v)' = Rec(v)
               /\ todo'[v] = todo[v] /\ staged'[v] = staged[v],
           \A v \in Workers : pc'[v] # "apply" => staged'[v] = {}
    PROVE  FenceInv'
  <1>1. Exclusive'
    BY DEF FenceInv, Exclusive, Ident
  <1>2. ScopesFresh'
    BY DEF FenceInv, ScopesFresh, Fresh
  <1>3. StagedShown'
    BY DEF FenceInv, StagedShown, FenceHolds, Ident
  <1> QED
    BY <1>1, <1>2, <1>3 DEF FenceInv

(* SavedAt: what a commit of staged checkpoints changes.                   *)
LEMMA SavedAt ==
    ASSUME TypeInv, NEW e \in Events, NEW S, NEW t \in Clusters, NEW i \in Idents
    PROVE  Saved(e, S)[t][i] = IF t \in S /\ i = e.ident THEN e
                                                         ELSE checkpoint[t][i]
  BY EventsAssumption DEF TypeInv, TypeOK, StoreTypeOK, Saved

(* ScopeEnds: a scope ends with its checkpoints committed or lost, after a *)
(* last write or none.                                                     *)
LEMMA ScopeEnds ==
    ASSUME FenceInv, TypeInv', NEW w \in Workers, pc[w] = "apply",
           checkpoint' = checkpoint \/ checkpoint' = Saved(Rec(w), staged[w]),
           \/ content' = content
           \/ \E t \in todo[w] : content' = [content EXCEPT ![t][Ident(w)] = Rec(w)],
           late' = late \/ LateWrites,
           UNCHANGED <<topic, cur>>,
           pc'[w] # "apply", staged'[w] = {},
           \A v \in Workers : v # w =>
               pc'[v] = pc[v] /\ todo'[v] = todo[v] /\ staged'[v] = staged[v]
    PROVE  FenceInv'
  <1>1. Rec(w) \in Events /\ Ident(w) \in Idents /\ Ident(w) = Rec(w).ident
    BY ScopeTyped DEF FenceInv, Ident
  <1>2. todo[w] \subseteq Rec(w).targets /\ staged[w] \subseteq Rec(w).targets
        /\ Rec(w).targets \subseteq Clusters
    BY <1>1, EventsAssumption DEF FenceInv, ScopesFresh
  <1>3. \A v \in Workers : Rec(v)' = Rec(v) /\ Ident(v)' = Ident(v)
    BY DEF Rec, Ident
  <1>4. \A t \in Clusters, i \in Idents :
           /\ checkpoint'[t][i] # checkpoint[t][i] =>
                 t \in staged[w] /\ i = Ident(w) /\ checkpoint'[t][i] = Rec(w)
           /\ content'[t][i] # content[t][i] =>
                 t \in todo[w] /\ i = Ident(w) /\ content'[t][i] = Rec(w)
    <2> SUFFICES ASSUME NEW t \in Clusters, NEW i \in Idents
                 PROVE  /\ checkpoint'[t][i] # checkpoint[t][i] =>
                             t \in staged[w] /\ i = Ident(w) /\ checkpoint'[t][i] = Rec(w)
                        /\ content'[t][i] # content[t][i] =>
                             t \in todo[w] /\ i = Ident(w) /\ content'[t][i] = Rec(w)
      OBVIOUS
    <2>1. checkpoint'[t][i] # checkpoint[t][i] =>
             t \in staged[w] /\ i = Ident(w) /\ checkpoint'[t][i] = Rec(w)
      BY <1>1, SavedAt DEF FenceInv
    <2>2. content'[t][i] # content[t][i] =>
             t \in todo[w] /\ i = Ident(w) /\ content'[t][i] = Rec(w)
      BY <1>1, <1>2 DEF FenceInv, TypeInv, TypeOK, StoreTypeOK
    <2> QED
      BY <2>1, <2>2
  <1>5. ASSUME NEW v \in Workers, v # w, pc[v] = "apply", NEW t \in Rec(v).targets
        PROVE  /\ checkpoint'[t][Ident(v)] = checkpoint[t][Ident(v)]
               /\ content'[t][Ident(v)] = content[t][Ident(v)]
    <2>1. Rec(v) \in Events /\ Ident(v) \in Idents /\ t \in Clusters
      BY <1>5, ScopeTyped, EventsAssumption DEF FenceInv
    <2>2. Ident(v) = Ident(w) => t \notin Rec(w).targets
      BY <1>5 DEF FenceInv, Exclusive
    <2> QED
      BY <1>2, <1>4, <2>1, <2>2
  <1>6. Exclusive'
    BY <1>3 DEF FenceInv, Exclusive
  <1>7. ScopesFresh'
    <2> SUFFICES ASSUME NEW v \in Workers
                 PROVE  /\ pc'[v] # "apply" => staged'[v] = {}
                        /\ pc'[v] = "apply" =>
                              /\ todo'[v] \subseteq Rec(v).targets
                              /\ staged'[v] \subseteq Rec(v).targets
                              /\ \A t \in todo'[v] \cup staged'[v] : Fresh(Rec(v), t)'
      BY <1>3 DEF ScopesFresh, Fresh
    <2>1. CASE v = w
      BY <2>1
    <2>2. CASE v # w
      <3>1. pc[v] = "apply" => \A t \in todo[v] \cup staged[v] :
               t \in Rec(v).targets /\ Fresh(Rec(v), t)
        BY DEF FenceInv, ScopesFresh
      <3>2. pc[v] = "apply" => \A t \in todo[v] \cup staged[v] : Fresh(Rec(v), t)'
        BY <1>3, <1>5, <2>2, <3>1 DEF Fresh, Ident
      <3> QED
        BY <2>2, <3>2 DEF FenceInv, ScopesFresh
    <2> QED
      BY <2>1, <2>2
  <1>8. ASSUME ~LateWrites PROVE FenceHolds'
    <2> SUFFICES ASSUME NEW t \in Clusters, NEW i \in Idents,
                        checkpoint'[t][i] # NoEvent
                 PROVE  /\ content'[t][i] # NoEvent
                        /\ content'[t][i].seq >= checkpoint'[t][i].seq
      BY DEF FenceHolds
    <2>1. Rec(w) # NoEvent /\ Rec(w).seq \in Nat
      BY <1>1, EventsAssumption, MarkersAssumption
    <2>2. CASE checkpoint'[t][i] # checkpoint[t][i]
      BY <1>4, <1>8, <2>1, <2>2 DEF FenceInv, StagedShown
    <2>3. CASE checkpoint'[t][i] = checkpoint[t][i] /\ content'[t][i] # content[t][i]
      <3>1. t \in todo[w] /\ i = Ident(w) /\ content'[t][i] = Rec(w)
        BY <1>4, <2>3
      <3>2. Newer(Rec(w), checkpoint[t][i])
        BY <1>1, <2>3, <3>1 DEF FenceInv, ScopesFresh, Fresh
      <3>3. checkpoint[t][i].seq \in Nat
        BY <2>3, EventsAssumption DEF FenceInv, TypeInv, TypeOK, StoreTypeOK
      <3> QED
        BY <2>1, <2>3, <3>1, <3>2, <3>3 DEF Newer
    <2>4. CASE checkpoint'[t][i] = checkpoint[t][i] /\ content'[t][i] = content[t][i]
      BY <1>8, <2>4 DEF FenceInv, StagedShown, FenceHolds
    <2> QED
      BY <2>2, <2>3, <2>4
  <1>9. StagedShown'
    <2>1. ASSUME ~LateWrites, NEW v \in Workers, pc'[v] = "apply", NEW t \in staged'[v]
          PROVE  content'[t][Ident(v)] = Rec(v)
      BY <1>5, <2>1 DEF FenceInv, StagedShown, ScopesFresh
    <2> QED
      BY <1>3, <1>8, <2>1 DEF FenceInv, StagedShown
  <1> QED
    BY <1>6, <1>7, <1>9 DEF FenceInv
(* OpenScopeFresh: the locks exclude every other scope on the targets, and *)
(* phase one plans only writes that are newer than the checkpoints.        *)
LEMMA OpenScopeFresh ==
    ASSUME FenceInv, TypeInv', NEW w \in Workers, OpenScope(w)
    PROVE  FenceInv'
  <1>1. /\ pc[w] = "try" /\ pc' = [pc EXCEPT ![w] = "apply"]
        /\ todo' = [todo EXCEPT ![w] = Planned(Rec(w))]
        /\ UNCHANGED <<topic, cur, staged, checkpoint, content, late>>
        /\ Rec(w) # Malformed /\ ~Contended(w)
    BY DEF OpenScope, storeVars
  <1>2. \A v \in Workers : Rec(v)' = Rec(v) /\ Ident(v)' = Ident(v)
    BY <1>1 DEF Rec, Ident
  <1>3. Rec(w) \in Events /\ Ident(w) = Rec(w).ident
    BY <1>1, RecordTyped DEF FenceInv, Records, Ident
  <1>4. /\ pc'[w] = "apply" /\ todo'[w] = Planned(Rec(w))
        /\ \A v \in Workers : v # w => pc'[v] = pc[v] /\ todo'[v] = todo[v]
    BY <1>1 DEF FenceInv, TypeInv, TypeOK, WorkerTypeOK
  <1>5. ASSUME NEW v \in Workers, v # w, pc[v] = "apply", Ident(v) = Ident(w)
        PROVE  Rec(v).targets \cap Rec(w).targets = {}
    <2> SUFFICES ASSUME NEW t \in Rec(v).targets, t \in Rec(w).targets
                 PROVE  FALSE
      OBVIOUS
    <2>1. <<Ident(w), t>> \in Fences(v)
      BY <1>5 DEF Fences
    <2> QED
      BY <1>1, <1>5, <2>1 DEF Contended
  <1>6. Exclusive'
    <2> SUFFICES ASSUME NEW u \in Workers, NEW v \in Workers, u # v,
                        pc'[u] = "apply", pc'[v] = "apply", Ident(u) = Ident(v)
                 PROVE  Rec(u).targets \cap Rec(v).targets = {}
      BY <1>2 DEF Exclusive
    <2>1. CASE u = w
      BY <1>4, <1>5, <2>1
    <2>2. CASE v = w
      BY <1>4, <1>5, <2>2
    <2>3. CASE u # w /\ v # w
      BY <1>4, <2>3 DEF FenceInv, Exclusive
    <2> QED
      BY <2>1, <2>2, <2>3
  <1>7. \A t \in Planned(Rec(w)) : t \in Rec(w).targets /\ Fresh(Rec(w), t)
    <2> SUFFICES ASSUME NEW t \in Planned(Rec(w))
                 PROVE  t \in Rec(w).targets /\ Fresh(Rec(w), t)
      OBVIOUS
    <2>1. t \in Rec(w).targets /\ Decision(Rec(w), t) = "apply"
      BY DEF Planned
    <2> QED
      BY <2>1 DEF Decision, Classify, Fresh
  <1>8. ScopesFresh'
    BY <1>1, <1>2, <1>4, <1>7 DEF FenceInv, ScopesFresh, Fresh
  <1>9. StagedShown'
    BY <1>1, <1>2, <1>4 DEF FenceInv, StagedShown, FenceHolds, ScopesFresh
  <1> QED
    BY <1>6, <1>8, <1>9 DEF FenceInv

(* WriteTargetFresh: a write under the locks, with its checkpoint staged.  *)
LEMMA WriteTargetFresh ==
    ASSUME FenceInv, TypeInv', NEW w \in Workers, NEW t \in Clusters,
           WriteTarget(w, t)
    PROVE  FenceInv'
  <1>1. pc[w] = "apply" /\ t \in todo[w]
    BY DEF WriteTarget
  <1>2. Rec(w) \in Events /\ Ident(w) \in Idents /\ Ident(w) = Rec(w).ident
    BY <1>1, ScopeTyped DEF FenceInv, Ident
  <1>3. /\ content' = [content EXCEPT ![t][Ident(w)] = Rec(w)]
        /\ staged' = [staged EXCEPT ![w] = @ \cup {t}]
        /\ todo' = [todo EXCEPT ![w] = @ \ {t}]
        /\ UNCHANGED <<topic, pc, cur, checkpoint, late>>
    <2>1. Fresh(Rec(w), t)
      BY <1>1 DEF FenceInv, ScopesFresh
    <2> QED
      BY <1>2, <2>1 DEF WriteTarget, Fresh
  <1>4. \A v \in Workers : Rec(v)' = Rec(v) /\ Ident(v)' = Ident(v)
    BY <1>3 DEF Rec, Ident
  <1>5. /\ staged'[w] = staged[w] \cup {t} /\ todo'[w] = todo[w] \ {t}
        /\ \A v \in Workers : v # w => staged'[v] = staged[v] /\ todo'[v] = todo[v]
        /\ content'[t][Ident(w)] = Rec(w)
        /\ \A u \in Clusters, i \in Idents :
              u # t \/ i # Ident(w) => content'[u][i] = content[u][i]
    BY <1>2, <1>3 DEF FenceInv, TypeInv, TypeOK, WorkerTypeOK, StoreTypeOK
  <1>6. Exclusive'
    BY <1>3, <1>4 DEF FenceInv, Exclusive
  <1>7. ScopesFresh'
    BY <1>1, <1>3, <1>4, <1>5 DEF FenceInv, ScopesFresh, Fresh
  <1>8. ASSUME ~LateWrites PROVE FenceHolds'
    <2>1. Rec(w) # NoEvent /\ Rec(w).seq \in Nat
      BY <1>2, EventsAssumption, MarkersAssumption
    <2>2. checkpoint[t][Ident(w)] # NoEvent =>
             /\ checkpoint[t][Ident(w)].seq \in Nat
             /\ Newer(Rec(w), checkpoint[t][Ident(w)])
      BY <1>1, <1>2, EventsAssumption
      DEF FenceInv, TypeInv, TypeOK, StoreTypeOK, ScopesFresh, Fresh
    <2>3. checkpoint[t][Ident(w)] # NoEvent =>
             content'[t][Ident(w)].seq >= checkpoint[t][Ident(w)].seq
      BY <1>5, <2>1, <2>2 DEF Newer
    <2>4. FenceHolds
      BY <1>8 DEF FenceInv, StagedShown
    <2> QED
      BY <1>3, <1>5, <2>1, <2>3, <2>4 DEF FenceHolds
  <1>9. StagedShown'
    <2>1. ASSUME ~LateWrites, NEW v \in Workers, pc[v] = "apply", NEW u \in staged'[v]
          PROVE  content'[u][Ident(v)] = Rec(v)
      <3>1. Ident(v) \in Idents /\ Rec(v).targets \subseteq Clusters
        BY <2>1, ScopeTyped, EventsAssumption DEF FenceInv
      <3>2. CASE v = w
        BY <1>1, <1>2, <1>5, <2>1, <3>1, <3>2 DEF FenceInv, StagedShown, ScopesFresh
      <3>3. CASE v # w
        <4>1. u \in staged[v] /\ u \in Rec(v).targets /\ content[u][Ident(v)] = Rec(v)
          BY <1>5, <2>1, <3>3 DEF FenceInv, StagedShown, ScopesFresh
        <4>2. t \in Rec(w).targets
          BY <1>1 DEF FenceInv, ScopesFresh
        <4>3. u # t \/ Ident(v) # Ident(w)
          BY <1>1, <2>1, <3>3, <4>1, <4>2 DEF FenceInv, Exclusive
        <4> QED
          BY <1>5, <3>1, <4>1, <4>3
      <3> QED
        BY <3>2, <3>3
    <2> QED
      BY <1>3, <1>4, <1>8, <2>1 DEF FenceInv, StagedShown
  <1> QED
    BY <1>6, <1>7, <1>9 DEF FenceInv

(* FenceStep: every step keeps the fences.                                 *)
LEMMA FenceStep == FenceInv /\ [Next]_vars => FenceInv'
  <1> SUFFICES ASSUME FenceInv, [Next]_vars PROVE FenceInv'
    OBVIOUS
  <1>a. TypeInv /\ TypeInv'
    BY TypeStep DEF FenceInv
  <1>b. WorkerTypeOK /\ ScopesFresh
    BY <1>a DEF TypeInv, TypeOK, FenceInv
  <1>c. ASSUME NEW w \in Workers, pc[w] # "apply", FailAttempt(w) \/ \E b : StartRecord(w, b),
               UNCHANGED <<topic, checkpoint, content, late>>
        PROVE  FenceInv'
    <2>1. /\ pc'[w] # "apply" /\ staged'[w] = {}
          /\ \A v \in Workers : v # w =>
                /\ pc'[v] = pc[v] /\ cur'[v] = cur[v]
                /\ todo'[v] = todo[v] /\ staged'[v] = staged[v]
      BY <1>b, <1>c DEF FailAttempt, StartRecord, WorkerTypeOK
    <2>2. \A v \in Workers : pc'[v] = "apply" =>
             /\ pc[v] = "apply" /\ Rec(v)' = Rec(v)
             /\ todo'[v] = todo[v] /\ staged'[v] = staged[v]
      BY <1>c, <2>1 DEF Rec
    <2>3. \A v \in Workers : pc'[v] # "apply" => staged'[v] = {}
      BY <1>b, <2>1 DEF ScopesFresh
    <2> QED
      BY <1>a, <1>c, <2>2, <2>3, ScopesKept
  <1>d. ASSUME UNCHANGED <<topic, checkpoint, content, late, cur, todo, staged>>,
               \A v \in Workers : pc'[v] = "apply" <=> pc[v] = "apply"
        PROVE  FenceInv'
    BY <1>a, <1>b, <1>d, ScopesKept DEF ScopesFresh, Rec
  <1>e. ASSUME NEW w \in Workers, pc[w] = "apply", FailAttempt(w),
               checkpoint' = checkpoint \/ checkpoint' = Saved(Rec(w), staged[w]),
               \/ content' = content
               \/ \E t \in todo[w] : content' = [content EXCEPT ![t][Ident(w)] = Rec(w)],
               late' = late \/ LateWrites, topic' = topic
        PROVE  FenceInv'
    <2>1. /\ pc'[w] # "apply" /\ staged'[w] = {} /\ cur' = cur
          /\ \A v \in Workers : v # w =>
                pc'[v] = pc[v] /\ todo'[v] = todo[v] /\ staged'[v] = staged[v]
      BY <1>b, <1>e DEF FailAttempt, WorkerTypeOK
    <2> QED
      BY <1>a, <1>e, <2>1, ScopeEnds
  <1>1. ASSUME NEW w \in Workers, NEW p \in Partitions, Poll(w, p)
        PROVE  FenceInv'
    BY <1>1, <1>c DEF Poll, storeVars
  <1>2. ASSUME NEW w \in Workers, OpenScope(w)
        PROVE  FenceInv'
    BY <1>2, <1>a, OpenScopeFresh
  <1>3. ASSUME NEW w \in Workers, MissingTarget(w)
        PROVE  FenceInv'
    BY <1>3, <1>c DEF MissingTarget, storeVars
  <1>4. ASSUME NEW w \in Workers, Reject(w)
        PROVE  FenceInv'
    <2>1. \A v \in Workers : pc'[v] = "apply" <=> pc[v] = "apply"
      BY <1>4, <1>b DEF Reject, WorkerTypeOK
    <2> QED
      BY <1>4, <1>d, <2>1 DEF Reject, storeVars
  <1>5. ASSUME NEW w \in Workers, NEW t \in Clusters, WriteTarget(w, t)
        PROVE  FenceInv'
    BY <1>5, <1>a, WriteTargetFresh
  <1>6. ASSUME NEW w \in Workers, CommitScope(w)
        PROVE  FenceInv'
    <2>1. /\ pc'[w] # "apply" /\ staged'[w] = {}
          /\ \A v \in Workers : v # w =>
                pc'[v] = pc[v] /\ todo'[v] = todo[v] /\ staged'[v] = staged[v]
      BY <1>6, <1>b DEF CommitScope, WorkerTypeOK
    <2> QED
      BY <1>6, <1>a, <2>1, ScopeEnds DEF CommitScope
  <1>7. ASSUME NEW w \in Workers, Quarantine(w)
        PROVE  FenceInv'
    <2>1. \A v \in Workers : pc'[v] = "apply" <=> pc[v] = "apply"
      BY <1>7, <1>b DEF Quarantine, WorkerTypeOK
    <2> QED
      BY <1>7, <1>d, <2>1 DEF Quarantine, storeVars
  <1>8. ASSUME NEW w \in Workers, CommitOffset(w)
        PROVE  FenceInv'
    BY <1>8, <1>c DEF CommitOffset, storeVars
  <1>9. ASSUME NEW w \in Workers, CommitOffsetFails(w)
        PROVE  FenceInv'
    BY <1>9, <1>c DEF CommitOffsetFails, storeVars
  <1>10. ASSUME NEW w \in Workers, ScopeUnavailable(w)
        PROVE  FenceInv'
    BY <1>10, <1>c DEF ScopeUnavailable, storeVars
  <1>11. ASSUME NEW w \in Workers, NEW t \in Clusters, WriteFails(w, t)
        PROVE  FenceInv'
    BY <1>11, <1>e DEF WriteFails
  <1>12. ASSUME NEW w \in Workers, CommitScopeFails(w)
        PROVE  FenceInv'
    BY <1>12, <1>e DEF CommitScopeFails
  <1>13. ASSUME NEW w \in Workers, QuarantineFails(w)
        PROVE  FenceInv'
    BY <1>13, <1>c DEF QuarantineFails, storeVars
  <1>14. ASSUME NEW w \in Workers, Crash(w)
        PROVE  FenceInv'
    <2>1. /\ pc'[w] # "apply" /\ staged'[w] = {}
          /\ \A v \in Workers : v # w =>
                /\ pc'[v] = pc[v] /\ cur'[v] = cur[v]
                /\ todo'[v] = todo[v] /\ staged'[v] = staged[v]
      BY <1>14, <1>b DEF Crash, RestartPosition, StartRecord, WorkerTypeOK
    <2>2. \A v \in Workers : pc'[v] = "apply" =>
             /\ pc[v] = "apply" /\ Rec(v)' = Rec(v)
             /\ todo'[v] = todo[v] /\ staged'[v] = staged[v]
      BY <1>14, <2>1 DEF Crash, RestartPosition, Rec
    <2>3. \A v \in Workers : pc'[v] # "apply" => staged'[v] = {}
      BY <1>b, <2>1 DEF ScopesFresh
    <2>4. UNCHANGED <<checkpoint, content>> /\ (late' = late \/ LateWrites)
      BY <1>14 DEF Crash, RestartPosition
    <2> QED
      BY <1>a, <2>2, <2>3, <2>4, ScopesKept
  <1>15. ASSUME NEW w \in Workers, NEW p \in Partitions, Rebalance(p, w)
        PROVE  FenceInv'
    BY <1>15, <1>d DEF Rebalance, RestartPosition, storeVars, workerVars
  <1>16. ASSUME LateWrite
        PROVE  FenceInv'
    <2>1. LateWrites
      BY <1>16 DEF LateWrite, FenceInv, StagedShown
    <2>2. UNCHANGED <<topic, checkpoint, pc, cur, todo, staged>>
      BY <1>16 DEF LateWrite, workerVars
    <2>3. Exclusive' /\ ScopesFresh'
      BY <2>2 DEF FenceInv, Exclusive, ScopesFresh, Fresh, Rec, Ident
    <2> QED
      BY <1>a, <2>1, <2>3 DEF FenceInv, StagedShown
  <1>17. ASSUME NEW p \in Partitions, NEW r \in Records, Deliver(p, r)
        PROVE  FenceInv'
    <2>1. \A q \in Partitions : \A o \in 1 .. Len(topic[q]) : topic'[q][o] = topic[q][o]
      BY <1>17, <1>a DEF Deliver, TypeInv, TypeOK, KafkaTypeOK
    <2>2. ASSUME NEW w \in Workers, pc[w] = "apply"
          PROVE  /\ cur[w].part \in Partitions
                 /\ cur[w].off \in 1 .. Len(topic[cur[w].part])
      <3>1. /\ cur[w].part \in Partitions /\ cur[w].off \in Nat /\ 1 <= cur[w].off
            /\ cur[w].last \in Nat /\ cur[w].off <= cur[w].last
            /\ cur[w].last <= Len(topic[cur[w].part])
        BY <1>a, <2>2 DEF TypeInv, BatchInv, Batches
      <3>2. Len(topic[cur[w].part]) \in Nat
        BY <1>a, <3>1 DEF TypeInv, TypeOK, KafkaTypeOK
      <3> QED
        BY <3>1, <3>2
    <2>3. \A w \in Workers : pc[w] = "apply" => Rec(w)' = Rec(w)
      BY <1>17, <2>1, <2>2 DEF Deliver, Rec, workerVars
    <2>4. UNCHANGED <<checkpoint, content, late, pc, todo, staged>>
      BY <1>17 DEF Deliver, storeVars, workerVars
    <2>5. \A w \in Workers : pc'[w] # "apply" => staged'[w] = {}
      BY <1>b, <2>4 DEF ScopesFresh
    <2>6. \A w \in Workers : pc'[w] = "apply" =>
             /\ pc[w] = "apply" /\ Rec(w)' = Rec(w)
             /\ todo'[w] = todo[w] /\ staged'[w] = staged[w]
      BY <2>3, <2>4
    <2>7. UNCHANGED <<checkpoint, content>> /\ (late' = late \/ LateWrites)
      BY <2>4
    <2> QED
      BY <1>a, <2>5, <2>6, <2>7, ScopesKept
  <1>18. CASE UNCHANGED vars
    BY <1>18, <1>d DEF vars, storeVars, workerVars
  <1> QED
    BY <1>1, <1>2, <1>3, <1>4, <1>5, <1>6, <1>7, <1>8, <1>9, <1>10, <1>11, <1>12,
       <1>13, <1>14, <1>15, <1>16, <1>17, <1>18
    DEF Next, WorkerNext, Progress, Failure

(* FenceCorrect: as long as Typesense runs no write after its caller gave  *)
(* up on it, no target shows an event older than its checkpoint, however   *)
(* many workers, retries, redeliveries, rebalances and crashes there are.  *)
THEOREM FenceCorrect == ASSUME ~LateWrites PROVE Spec => []FenceHolds
  <1>1. FenceInv => FenceHolds
    BY DEF FenceInv, StagedShown
  <1> QED
    BY <1>1, FenceInit, FenceStep, PTL DEF Spec
(* CheckpointChange: checkpoints change only when a scope commits what it  *)
(* has staged.                                                             *)
LEMMA CheckpointChange ==
    ASSUME [Next]_vars, checkpoint' # checkpoint
    PROVE  \E w \in Workers :
              pc[w] = "apply" /\ checkpoint' = Saved(Rec(w), staged[w])
  <1>1. ASSUME NEW w \in Workers, NEW u \in Clusters, WriteTarget(w, u) \/ WriteFails(w, u)
        PROVE  pc[w] = "apply" /\ checkpoint' = Saved(Rec(w), staged[w])
    BY <1>1 DEF WriteTarget, WriteFails
  <1>2. ASSUME NEW w \in Workers, CommitScope(w) \/ CommitScopeFails(w)
        PROVE  pc[w] = "apply" /\ checkpoint' = Saved(Rec(w), staged[w])
    BY <1>2 DEF CommitScope, CommitScopeFails
  <1> QED
    BY <1>1, <1>2
    DEF Next, WorkerNext, Progress, Failure, vars, storeVars, Poll, OpenScope,
        MissingTarget, Reject, Quarantine, CommitOffset, CommitOffsetFails,
        ScopeUnavailable, QuarantineFails, Crash, Rebalance, RestartPosition, LateWrite, Deliver

(* AdvanceStep: what a scope has staged is newer than what it replaces.    *)
LEMMA AdvanceStep ==
    ASSUME FenceInv, [Next]_vars, NEW t \in Clusters, NEW i \in Idents,
           checkpoint'[t][i] # checkpoint[t][i]
    PROVE  checkpoint[t][i] = NoEvent \/ Newer(checkpoint'[t][i], checkpoint[t][i])
  <1>1. PICK w \in Workers : pc[w] = "apply" /\ checkpoint' = Saved(Rec(w), staged[w])
    BY CheckpointChange
  <1>2. Rec(w) \in Events /\ Ident(w) = Rec(w).ident
    BY <1>1, ScopeTyped DEF FenceInv, Ident
  <1>3. t \in staged[w] /\ i = Ident(w) /\ checkpoint'[t][i] = Rec(w)
    BY <1>1, <1>2, SavedAt DEF FenceInv
  <1>4. Fresh(Rec(w), t)
    BY <1>1, <1>3 DEF FenceInv, ScopesFresh
  <1> QED
    BY <1>2, <1>3, <1>4 DEF Fresh

(* TopicGrows: records are only ever appended.                             *)
LEMMA TopicGrows ==
    ASSUME TypeInv, [Next]_vars, NEW p \in Partitions
    PROVE  /\ Len(topic[p]) <= Len(topic'[p])
           /\ \A o \in 1 .. Len(topic[p]) : topic'[p][o] = topic[p][o]
  <1>1. topic[p] \in Seq(Records) /\ topic \in [Partitions -> Seq(Records)]
    BY DEF TypeInv, TypeOK, KafkaTypeOK
  <1>2. CASE topic' = topic
    BY <1>1, <1>2
  <1>3. ASSUME NEW q \in Partitions, NEW r \in Records,
               topic' = [topic EXCEPT ![q] = Append(@, r)]
        PROVE  /\ Len(topic[p]) <= Len(topic'[p])
               /\ \A o \in 1 .. Len(topic[p]) : topic'[p][o] = topic[p][o]
    BY <1>1, <1>3
  <1>4. topic' = topic \/ \E q \in Partitions, r \in Records :
                             topic' = [topic EXCEPT ![q] = Append(@, r)]
    BY DEF Next, WorkerNext, Progress, Failure, vars, Poll, OpenScope,
           MissingTarget, Reject, Quarantine, CommitOffset, CommitOffsetFails,
           ScopeUnavailable, QuarantineFails, Crash, Rebalance, RestartPosition, LateWrite, Deliver,
           WriteTarget, WriteFails, CommitScope, CommitScopeFails
  <1> QED
    BY <1>2, <1>3, <1>4

(* CheckpointsCorrect: a checkpoint is only ever replaced by a newer       *)
(* event; late writes make no difference to this.                          *)
THEOREM CheckpointsCorrect == Spec => CheckpointsAdvance
  <1>1. FenceInv /\ [Next]_vars =>
           [\A t \in Clusters, i \in Idents :
               checkpoint'[t][i] # checkpoint[t][i] =>
                   \/ checkpoint[t][i] = NoEvent
                   \/ Newer(checkpoint'[t][i], checkpoint[t][i])]_vars
    BY AdvanceStep
  <1> QED
    BY <1>1, FenceInit, FenceStep, PTL DEF Spec, CheckpointsAdvance

-----------------------------------------------------------------------------
(***************************************************************************)
(* Offsets.  A worker that owns the partition of its batch has owned it    *)
(* since it polled: a partition is assigned only to a member in poll.  So  *)
(* what it is handling lies above the committed offset.                    *)
(***************************************************************************)
OwnedAhead ==
    \A p \in Partitions :
        /\ committed[p] <= position[p]
        /\ \A w \in Workers :
              owner[p] = w /\ pc[w] # "idle" /\ cur[w].part = p =>
                  committed[p] < cur[w].off /\ cur[w].last <= position[p]

OffsetInv == TypeInv /\ OwnedAhead

(* OffsetInit: nothing is fetched and nothing is committed.                *)
LEMMA OffsetInit == WorkerInit => OffsetInv
  BY TypeInit DEF WorkerInit, OffsetInv, OwnedAhead

(* OffsetStep: every step keeps the order, and only the owner's commit     *)
(* moves an offset.                                                        *)
LEMMA OffsetStep ==
    ASSUME OffsetInv, [Next]_vars
    PROVE  OffsetInv' /\ \A p \in Partitions : committed'[p] >= committed[p]
  <1>a. TypeInv /\ TypeInv' /\ OwnedAhead
    BY TypeStep DEF OffsetInv
  <1>b. KafkaTypeOK /\ WorkerTypeOK /\ BatchInv
    BY <1>a DEF TypeInv, TypeOK
  <1>c. \A p \in Partitions : committed[p] \in Nat /\ position[p] \in Nat
    BY <1>b DEF KafkaTypeOK
  <1>d. \A w \in Workers : pc[w] # "idle" =>
           /\ cur[w].part \in Partitions /\ cur[w].off \in Nat /\ cur[w].last \in Nat
           /\ cur[w].off <= cur[w].last
    BY <1>b DEF BatchInv, Batches
  <1>1. ASSUME UNCHANGED <<committed, position, owner>>,
               \A w \in Workers : pc'[w] # "idle" => pc[w] # "idle" /\ cur'[w] = cur[w]
        PROVE  OffsetInv' /\ \A p \in Partitions : committed'[p] >= committed[p]
    BY <1>1, <1>a, <1>c DEF OffsetInv, OwnedAhead
  <1>2. ASSUME NEW w \in Workers, NEW p \in Partitions, Poll(w, p)
        PROVE  OffsetInv' /\ \A q \in Partitions : committed'[q] >= committed[q]
    <2>1. PICK n \in 1 .. MaxPollRecords :
             /\ position' = [position EXCEPT ![p] = @ + n]
             /\ StartRecord(w, [part |-> p, off |-> position[p] + 1,
                                last |-> position[p] + n])
      BY <1>2 DEF Poll
    <2>2. /\ cur'[w].part = p /\ cur'[w].off = position[p] + 1
          /\ cur'[w].last = position[p] + n
          /\ \A v \in Workers : v # w => pc'[v] = pc[v] /\ cur'[v] = cur[v]
      BY <1>b, <2>1 DEF StartRecord, WorkerTypeOK
    <2>3. /\ position'[p] = position[p] + n /\ n \in Nat
          /\ \A q \in Partitions : q # p => position'[q] = position[q]
      BY <1>b, <2>1, SizesAssumption DEF KafkaTypeOK
    <2>4. UNCHANGED <<committed, owner>> /\ owner[p] = w
      BY <1>2 DEF Poll
    <2>5. ASSUME NEW q \in Partitions
          PROVE  /\ committed'[q] <= position'[q]
                 /\ \A v \in Workers :
                       owner'[q] = v /\ pc'[v] # "idle" /\ cur'[v].part = q =>
                           committed'[q] < cur'[v].off /\ cur'[v].last <= position'[q]
      BY <1>a, <1>c, <2>2, <2>3, <2>4 DEF OwnedAhead
    <2> QED
      BY <1>a, <1>c, <2>4, <2>5 DEF OffsetInv, OwnedAhead
  <1>3. ASSUME NEW w \in Workers, CommitOffset(w)
        PROVE  OffsetInv' /\ \A q \in Partitions : committed'[q] >= committed[q]
    <2> DEFINE p == cur[w].part
    <2>1. /\ pc[w] # "idle" /\ owner[p] = w /\ p \in Partitions
          /\ committed' = [committed EXCEPT ![p] = cur[w].off]
          /\ UNCHANGED <<position, owner>>
      BY <1>3, <1>d DEF CommitOffset, Owns
    <2>2. /\ committed'[p] = cur[w].off
          /\ \A q \in Partitions : q # p => committed'[q] = committed[q]
      BY <1>b, <2>1 DEF KafkaTypeOK
    <2>3. /\ committed[p] < cur[w].off /\ cur[w].last <= position[p]
          /\ cur[w].off <= cur[w].last /\ cur[w].off \in Nat /\ cur[w].last \in Nat
      BY <1>a, <1>d, <2>1 DEF OwnedAhead
    <2>4. /\ \A v \in Workers : v # w => pc'[v] = pc[v] /\ cur'[v] = cur[v]
          /\ pc'[w] # "idle" => /\ cur'[w].off = cur[w].off + 1
                               /\ cur'[w].last = cur[w].last
                               /\ cur'[w].part = p
      <3>1. CASE cur[w].off < cur[w].last
        <4>1. StartRecord(w, [cur[w] EXCEPT !.off = @ + 1])
          BY <1>3, <3>1 DEF CommitOffset
        <4>2. cur' = [cur EXCEPT ![w] = [cur[w] EXCEPT !.off = @ + 1]]
          BY <4>1 DEF StartRecord
        <4>3. \A v \in Workers : v # w => pc'[v] = pc[v]
          BY <4>1, <1>b DEF StartRecord, WorkerTypeOK
        <4>4. cur[w] \in Batches
          BY <1>b, <2>1 DEF BatchInv
        <4> QED
          BY <1>b, <4>2, <4>3, <4>4 DEF WorkerTypeOK, Batches
      <3>2. CASE ~(cur[w].off < cur[w].last)
        BY <1>3, <1>b, <3>2 DEF CommitOffset, StartRecord, WorkerTypeOK
      <3> QED
        BY <3>1, <3>2
    <2>5. ASSUME NEW q \in Partitions
          PROVE  /\ committed'[q] >= committed[q]
                 /\ committed'[q] <= position'[q]
                 /\ \A v \in Workers :
                       owner'[q] = v /\ pc'[v] # "idle" /\ cur'[v].part = q =>
                           committed'[q] < cur'[v].off /\ cur'[v].last <= position'[q]
      BY <1>a, <1>c, <2>1, <2>2, <2>3, <2>4 DEF OwnedAhead
    <2> QED
      BY <1>a, <2>5 DEF OffsetInv, OwnedAhead
  <1>4. ASSUME NEW w \in Workers, Crash(w)
        PROVE  OffsetInv' /\ \A q \in Partitions : committed'[q] >= committed[q]
    <2>1. /\ UNCHANGED <<committed, owner>>
          /\ \A q \in Partitions :
                position'[q] = IF owner[q] = w THEN committed[q] ELSE position[q]
          /\ \A v \in Workers : pc'[v] # "idle" => v # w /\ pc[v] # "idle" /\ cur'[v] = cur[v]
      BY <1>4, <1>b DEF Crash, RestartPosition, StartRecord, WorkerTypeOK
    <2> QED
      BY <1>a, <1>c, <2>1 DEF OffsetInv, OwnedAhead
  <1>5. ASSUME NEW w \in Workers, NEW p \in Partitions, Rebalance(p, w)
        PROVE  OffsetInv' /\ \A q \in Partitions : committed'[q] >= committed[q]
    <2>1. /\ pc[w] = "idle" /\ UNCHANGED <<committed, pc, cur>>
          /\ owner'[p] = w /\ position'[p] = committed[p]
          /\ \A q \in Partitions : q # p => owner'[q] = owner[q] /\ position'[q] = position[q]
      BY <1>5, <1>b DEF Rebalance, RestartPosition, workerVars, KafkaTypeOK
    <2> QED
      BY <1>a, <1>c, <2>1 DEF OffsetInv, OwnedAhead
  <1>6. ASSUME NEW w \in Workers, FailAttempt(w) \/ StartRecord(w, NoBatch),
               pc[w] # "idle", UNCHANGED kafkaVars
        PROVE  OffsetInv' /\ \A p \in Partitions : committed'[p] >= committed[p]
    BY <1>1, <1>6, <1>b DEF FailAttempt, StartRecord, WorkerTypeOK, kafkaVars
  <1>7. ASSUME NEW w \in Workers,
               \/ OpenScope(w) \/ Reject(w) \/ CommitScope(w) \/ Quarantine(w)
               \/ \E t \in Clusters : WriteTarget(w, t)
        PROVE  OffsetInv' /\ \A p \in Partitions : committed'[p] >= committed[p]
    <2>1. CASE FailAttempt(w)
      BY <1>6, <1>7, <2>1
      DEF OpenScope, Reject, CommitScope, Quarantine, WriteTarget
    <2>2. CASE ~FailAttempt(w)
      <3>1. /\ UNCHANGED <<committed, position, owner, cur>>
            /\ \A v \in Workers : pc'[v] # "idle" => pc[v] # "idle"
        BY <1>7, <1>b, <2>2
        DEF OpenScope, Reject, CommitScope, Quarantine, WriteTarget, kafkaVars,
            WorkerTypeOK
      <3> QED
        BY <1>1, <3>1
    <2> QED
      BY <2>1, <2>2
  <1>8. ASSUME NEW w \in Workers,
               \/ MissingTarget(w) \/ ScopeUnavailable(w) \/ CommitScopeFails(w)
               \/ QuarantineFails(w) \/ CommitOffsetFails(w)
               \/ \E t \in Clusters : WriteFails(w, t)
        PROVE  OffsetInv' /\ \A p \in Partitions : committed'[p] >= committed[p]
    BY <1>6, <1>8
    DEF MissingTarget, ScopeUnavailable, CommitScopeFails, QuarantineFails,
        CommitOffsetFails, WriteFails
  <1>9. ASSUME LateWrite \/ (\E p \in Partitions, r \in Records : Deliver(p, r))
               \/ UNCHANGED vars
        PROVE  OffsetInv' /\ \A p \in Partitions : committed'[p] >= committed[p]
    BY <1>1, <1>9 DEF LateWrite, Deliver, vars, kafkaVars, workerVars
  <1> QED
    BY <1>2, <1>3, <1>4, <1>5, <1>7, <1>8, <1>9 DEF Next, WorkerNext, Progress, Failure

(* OffsetsCorrect: the committed offset of a partition never moves back,   *)
(* although workers may outlive their assignment.                          *)
THEOREM OffsetsCorrect == Spec => OffsetsAdvance
  <1>1. OffsetInv /\ [Next]_vars => OffsetInv'
    BY OffsetStep
  <1>2. OffsetInv /\ [Next]_vars =>
           [\A p \in Partitions : committed'[p] >= committed[p]]_vars
    BY OffsetStep
  <1> QED
    BY <1>1, <1>2, OffsetInit, PTL DEF Spec, OffsetsAdvance

-----------------------------------------------------------------------------
(***************************************************************************)
(* No record is acknowledged before it is settled, provided that the       *)
(* dead-letter topic can be written and a poll returns one record, which   *)
(* is the default of create_kafka_consumer.                                *)
(***************************************************************************)

\* A target is at least as new as the event, or newer.
Reached(e, t) == /\ checkpoint[t][e.ident] # NoEvent
                 /\ checkpoint[t][e.ident].seq >= e.seq
Passed(e, t)  == /\ checkpoint[t][e.ident] # NoEvent
                 /\ checkpoint[t][e.ident].seq > e.seq

\* What an open scope does not write is there already.
ScopesCovered ==
    \A w \in Workers : pc[w] = "apply" =>
        \/ \E t \in Rec(w).targets : Passed(Rec(w), t)
        \/ \A t \in Rec(w).targets \ (todo[w] \cup staged[w]) : Reached(Rec(w), t)

\* A worker about to commit an offset has settled the record.
AckReady ==
    \A w \in Workers : pc[w] = "ack" => SettledAt(cur[w].part, cur[w].off)

Handling(p, o) ==
    \E w \in Workers : /\ owner[p] = w /\ pc[w] # "idle"
                       /\ cur[w].part = p /\ cur[w].off = o

\* What has been fetched is settled, or its owner is at it.
FetchedSettled ==
    \A p \in Partitions :
        /\ position[p] <= Len(topic[p])
        /\ \A o \in 1 .. position[p] : SettledAt(p, o) \/ Handling(p, o)

SingleRecord == \A w \in Workers : pc[w] # "idle" => cur[w].last = cur[w].off

AckInv == /\ FenceInv /\ OffsetInv /\ SingleRecord
          /\ ScopesCovered /\ AckReady /\ FetchedSettled /\ AckedSettled

-----------------------------------------------------------------------------

(* AckInit: nothing is fetched.                                            *)
LEMMA AckInit == WorkerInit => AckInv
  <1> SUFFICES ASSUME WorkerInit PROVE AckInv
    OBVIOUS
  <1>1. FenceInv /\ OffsetInv
    BY FenceInit, OffsetInit
  <1>2. SingleRecord /\ ScopesCovered /\ AckReady
    BY DEF WorkerInit, SingleRecord, ScopesCovered, AckReady
  <1>3. FetchedSettled /\ AckedSettled
    BY DEF WorkerInit, FetchedSettled, AckedSettled
  <1> QED
    BY <1>1, <1>2, <1>3 DEF AckInv

(* ReachedStable: a target that has reached or passed an event stays so.   *)
LEMMA ReachedStable ==
    ASSUME FenceInv, FenceInv', [Next]_vars,
           NEW e \in Events, NEW t \in Clusters
    PROVE  /\ Reached(e, t) => Reached(e, t)'
           /\ Passed(e, t) => Passed(e, t)'
  <1> DEFINE c == checkpoint[t][e.ident]
             d == checkpoint'[t][e.ident]
  <1>1. e.ident \in Idents /\ e.seq \in Nat
    BY EventsAssumption
  <1>2. c \in Events \cup {NoEvent} /\ d \in Events \cup {NoEvent}
    BY <1>1 DEF FenceInv, TypeInv, TypeOK, StoreTypeOK
  <1>3. c = d \/ c = NoEvent \/ Newer(d, c)
    BY <1>1, AdvanceStep
  <1>4. ASSUME c # NoEvent, d # c
        PROVE  d # NoEvent /\ d.seq > c.seq /\ d.seq \in Nat /\ c.seq \in Nat
    <2>1. Newer(d, c) /\ c \in Events
      BY <1>2, <1>3, <1>4
    <2>2. d # NoEvent
      <3>1. SUFFICES ASSUME d = NoEvent PROVE FALSE
        OBVIOUS
      <3>2. PICK w \in Workers : pc[w] = "apply" /\ checkpoint' = Saved(Rec(w), staged[w])
        BY <1>4, <1>1, CheckpointChange
      <3>3. Rec(w) \in Events
        BY <3>2, ScopeTyped DEF FenceInv
      <3>4. d = Rec(w) \/ d = c
        BY <1>1, <3>2, <3>3, SavedAt DEF FenceInv
      <3> QED
        BY <1>4, <3>1, <3>3, <3>4, MarkersAssumption
    <2> QED
      BY <1>2, <2>1, <2>2, EventsAssumption DEF Newer
  <1> QED
    BY <1>1, <1>2, <1>4, EventsAssumption DEF Reached, Passed

(* SettledStable: a settled record of the topic stays settled.             *)
LEMMA SettledStable ==
    ASSUME FenceInv, FenceInv', [Next]_vars,
           NEW p \in Partitions, NEW o \in 1 .. Len(topic[p]), SettledAt(p, o)
    PROVE  SettledAt(p, o)'
  <1>1. topic'[p][o] = topic[p][o]
    BY TopicGrows DEF FenceInv
  <1>2. dlq \subseteq dlq'
    BY DEF Next, WorkerNext, Progress, Failure, vars, Poll, OpenScope,
           MissingTarget, Reject, Quarantine, CommitOffset, CommitOffsetFails,
           ScopeUnavailable, QuarantineFails, Crash, Rebalance, RestartPosition, LateWrite, Deliver,
           WriteTarget, WriteFails, CommitScope, CommitScopeFails
  <1>3. CASE \E d \in dlq : d.part = p /\ d.off = o
    BY <1>2, <1>3 DEF SettledAt
  <1>4. CASE ~\E d \in dlq : d.part = p /\ d.off = o
    <2>1. topic[p][o] \in Events
      BY <1>4 DEF SettledAt, FenceInv, TypeInv, TypeOK, KafkaTypeOK, Records
    <2>2. PICK e \in Events : e = topic[p][o]
      BY <2>1
    <2>3. \A t \in e.targets : /\ Reached(e, t) => Reached(e, t)'
                               /\ Passed(e, t) => Passed(e, t)'
      BY ReachedStable, EventsAssumption
    <2>4. \/ \A t \in e.targets : Reached(e, t)
          \/ \E t \in e.targets : Passed(e, t)
      BY <1>4, <2>2 DEF SettledAt, Reached, Passed
    <2>5. topic'[p][o] = e /\ e # Malformed
      BY <1>1, <2>2, MarkersAssumption
    <2>6. \/ \A t \in e.targets : Reached(e, t)'
          \/ \E t \in e.targets : Passed(e, t)'
      BY <2>3, <2>4
    <2> QED
      BY <2>5, <2>6 DEF SettledAt, Reached, Passed
  <1> QED
    BY <1>3, <1>4

-----------------------------------------------------------------------------
(***************************************************************************)
(* What one step can do to a worker and to a partition.                    *)
(***************************************************************************)

(* BatchMoves: a worker keeps its batch, polls, leaves it after the        *)
(* record is ready to be acknowledged, or crashes.                         *)
LEMMA BatchMoves ==
    ASSUME TypeInv, [Next]_vars, ~DlqMayFail, NEW v \in Workers
    PROVE  \/ pc'[v] # "idle" /\ pc[v] # "idle" /\ cur'[v] = cur[v]
           \/ pc'[v] = "idle" /\ pc[v] = "idle"
           \/ \E p \in Partitions : Poll(v, p)
           \/ pc[v] = "ack"
           \/ Crash(v)
  <1> DEFINE Goal == \/ pc'[v] # "idle" /\ pc[v] # "idle" /\ cur'[v] = cur[v]
                     \/ pc'[v] = "idle" /\ pc[v] = "idle"
                     \/ \E p \in Partitions : Poll(v, p)
                     \/ pc[v] = "ack"
                     \/ Crash(v)
  <1>a. WorkerTypeOK
    BY DEF TypeInv, TypeOK
  <1>1. ASSUME NEW w \in Workers, \/ FailAttempt(w) /\ pc[w] # "idle"
                                  \/ \E b : StartRecord(w, b) /\ w # v
        PROVE  Goal
    BY <1>1, <1>a DEF FailAttempt, StartRecord, WorkerTypeOK
  <1>2. ASSUME UNCHANGED <<pc, cur>> PROVE Goal
    BY <1>2
  <1>3. ASSUME NEW w \in Workers, pc[w] # "idle", cur' = cur,
               \E s \in {"try", "apply", "quarantine", "ack"} : pc' = [pc EXCEPT ![w] = s]
        PROVE  Goal
    BY <1>3, <1>a DEF WorkerTypeOK
  <1>4. ASSUME NEW w \in Workers,
               \/ \E p \in Partitions : Poll(w, p)
               \/ CommitOffset(w) \/ CommitOffsetFails(w) \/ Crash(w)
        PROVE  Goal
    <2>1. CASE w = v
      BY <1>4, <2>1 DEF CommitOffset, CommitOffsetFails
    <2>2. CASE w # v
      BY <1>1, <1>4, <2>2 DEF Poll, CommitOffset, CommitOffsetFails, Crash, RestartPosition
    <2> QED
      BY <2>1, <2>2
  <1>5. ASSUME NEW w \in Workers,
               \/ OpenScope(w) \/ Reject(w) \/ CommitScope(w) \/ Quarantine(w)
        PROVE  Goal
    BY <1>3, <1>5 DEF OpenScope, Reject, CommitScope, Quarantine
  <1>6. ASSUME NEW w \in Workers, NEW t \in Clusters, WriteTarget(w, t)
        PROVE  Goal
    BY <1>1, <1>2, <1>6 DEF WriteTarget
  <1>7. ASSUME NEW w \in Workers,
               \/ MissingTarget(w) \/ ScopeUnavailable(w) \/ CommitScopeFails(w)
               \/ \E t \in Clusters : WriteFails(w, t)
        PROVE  Goal
    BY <1>1, <1>7 DEF MissingTarget, ScopeUnavailable, CommitScopeFails, WriteFails
  <1>8. ASSUME \/ LateWrite \/ (\E p \in Partitions, r \in Records : Deliver(p, r))
               \/ (\E w \in Workers, p \in Partitions : Rebalance(p, w))
               \/ UNCHANGED vars
        PROVE  Goal
    BY <1>2, <1>8 DEF LateWrite, Deliver, Rebalance, RestartPosition, vars, workerVars
  <1>9. ASSUME NEW w \in Workers, QuarantineFails(w) PROVE Goal
    BY <1>9 DEF QuarantineFails
  <1> QED
    BY <1>4, <1>5, <1>6, <1>7, <1>8, <1>9 DEF Next, WorkerNext, Progress, Failure

(* AckKeeps: a worker that is ready to acknowledge keeps its batch until   *)
(* it commits the offset, fails to, or crashes.                            *)
LEMMA AckKeeps ==
    ASSUME TypeInv, [Next]_vars, NEW w \in Workers, pc[w] = "ack", pc'[w] # "idle",
           \A v \in Workers : CommitOffset(v) \/ CommitOffsetFails(v) => cur'[w] = cur[w]
    PROVE  cur'[w] = cur[w]
  <1>a. WorkerTypeOK
    BY DEF TypeInv, TypeOK
  <1>1. ASSUME NEW v \in Workers, StartRecord(v, NoBatch) PROVE cur'[w] = cur[w]
    BY <1>1, <1>a DEF StartRecord, WorkerTypeOK
  <1>2. ASSUME NEW v \in Workers, NEW p \in Partitions, Poll(v, p)
        PROVE  cur'[w] = cur[w]
    BY <1>2, <1>a DEF Poll, StartRecord, WorkerTypeOK
  <1>3. ASSUME NEW v \in Workers, Crash(v) \/ QuarantineFails(v) PROVE cur'[w] = cur[w]
    BY <1>1, <1>3 DEF Crash, RestartPosition, QuarantineFails
  <1> QED
    BY <1>2, <1>3
    DEF Next, WorkerNext, Progress, Failure, vars, workerVars, OpenScope,
        MissingTarget, Reject, Quarantine, FailAttempt,
        ScopeUnavailable, LateWrite, Deliver, Rebalance, RestartPosition,
        WriteTarget, WriteFails, CommitScope, CommitScopeFails

(* ScopeMoves: an open scope was just opened, or goes on with its targets. *)
LEMMA ScopeMoves ==
    ASSUME TypeInv, [Next]_vars, NEW v \in Workers, pc'[v] = "apply"
    PROVE  \/ OpenScope(v)
           \/ /\ pc[v] = "apply" /\ cur'[v] = cur[v]
              /\ todo'[v] \cup staged'[v] = todo[v] \cup staged[v]
  <1> DEFINE Goal == \/ OpenScope(v)
                     \/ /\ pc[v] = "apply" /\ cur'[v] = cur[v]
                        /\ todo'[v] \cup staged'[v] = todo[v] \cup staged[v]
  <1>a. WorkerTypeOK
    BY DEF TypeInv, TypeOK
  <1>1. ASSUME NEW w \in Workers, FailAttempt(w) \/ \E b : StartRecord(w, b)
        PROVE  Goal
    BY <1>1, <1>a DEF FailAttempt, StartRecord, WorkerTypeOK
  <1>2. ASSUME UNCHANGED <<pc, cur, todo, staged>> PROVE Goal
    BY <1>2
  <1>3. ASSUME NEW w \in Workers, UNCHANGED <<cur, todo>>,
               \E s \in {"quarantine", "ack"} : pc' = [pc EXCEPT ![w] = s],
               staged' = staged \/ staged' = [staged EXCEPT ![w] = {}]
        PROVE  Goal
    BY <1>3, <1>a DEF WorkerTypeOK
  <1>4. ASSUME NEW w \in Workers, OpenScope(w) PROVE Goal
    BY <1>4, <1>a DEF OpenScope, WorkerTypeOK
  <1>5. ASSUME NEW w \in Workers, NEW t \in Clusters, WriteTarget(w, t) PROVE Goal
    <2>1. CASE FailAttempt(w)
      BY <1>1, <2>1
    <2>2. CASE ~FailAttempt(w)
      <3>1. /\ staged' = [staged EXCEPT ![w] = @ \cup {t}]
            /\ todo' = [todo EXCEPT ![w] = @ \ {t}]
            /\ UNCHANGED <<pc, cur>> /\ t \in todo[w]
        BY <1>5, <2>2 DEF WriteTarget
      <3> QED
        BY <1>a, <3>1 DEF WorkerTypeOK
    <2> QED
      BY <2>1, <2>2
  <1>6. ASSUME NEW w \in Workers, Reject(w) \/ CommitScope(w) \/ Quarantine(w)
        PROVE  Goal
    BY <1>3, <1>6 DEF Reject, CommitScope, Quarantine
  <1>7. ASSUME NEW w \in Workers,
               \/ MissingTarget(w) \/ ScopeUnavailable(w) \/ CommitScopeFails(w)
               \/ \E t \in Clusters : WriteFails(w, t)
               \/ \E p \in Partitions : Poll(w, p)
               \/ CommitOffset(w) \/ CommitOffsetFails(w) \/ Crash(w)
               \/ QuarantineFails(w)
        PROVE  Goal
    BY <1>1, <1>7
    DEF MissingTarget, ScopeUnavailable, CommitScopeFails, WriteFails, Poll,
        CommitOffset, CommitOffsetFails, Crash, RestartPosition, QuarantineFails
  <1>8. ASSUME \/ LateWrite \/ (\E p \in Partitions, r \in Records : Deliver(p, r))
               \/ (\E w \in Workers, p \in Partitions : Rebalance(p, w))
               \/ UNCHANGED vars
        PROVE  Goal
    BY <1>2, <1>8 DEF LateWrite, Deliver, Rebalance, RestartPosition, vars, workerVars
  <1> QED
    BY <1>4, <1>5, <1>6, <1>7, <1>8 DEF Next, WorkerNext, Progress, Failure

(* AckMoves: a worker is ready to acknowledge because it was, because its  *)
(* checkpoints committed or because the dead-letter topic has the record.  *)
LEMMA AckMoves ==
    ASSUME TypeInv, [Next]_vars, NEW v \in Workers, pc'[v] = "ack"
    PROVE  \/ pc[v] = "ack" /\ cur'[v] = cur[v]
           \/ CommitScope(v) \/ Quarantine(v)
  <1> DEFINE Goal == \/ pc[v] = "ack" /\ cur'[v] = cur[v]
                     \/ CommitScope(v) \/ Quarantine(v)
  <1>a. WorkerTypeOK
    BY DEF TypeInv, TypeOK
  <1>1. ASSUME NEW w \in Workers, FailAttempt(w) \/ \E b : StartRecord(w, b)
        PROVE  Goal
    BY <1>1, <1>a DEF FailAttempt, StartRecord, WorkerTypeOK
  <1>2. ASSUME UNCHANGED <<pc, cur>> PROVE Goal
    BY <1>2
  <1>3. ASSUME NEW w \in Workers, cur' = cur, w # v \/ pc'[w] # "ack",
               \E s : pc' = [pc EXCEPT ![w] = s]
        PROVE  Goal
    BY <1>3, <1>a DEF WorkerTypeOK
  <1>4. ASSUME NEW w \in Workers, CommitScope(w) \/ Quarantine(w) PROVE Goal
    BY <1>3, <1>4 DEF CommitScope, Quarantine
  <1>5. ASSUME NEW w \in Workers, OpenScope(w) \/ Reject(w) PROVE Goal
    BY <1>5, <1>a DEF OpenScope, Reject, WorkerTypeOK
  <1>6. ASSUME NEW w \in Workers, NEW t \in Clusters, WriteTarget(w, t) PROVE Goal
    BY <1>1, <1>2, <1>6 DEF WriteTarget
  <1>7. ASSUME NEW w \in Workers,
               \/ MissingTarget(w) \/ ScopeUnavailable(w) \/ CommitScopeFails(w)
               \/ \E t \in Clusters : WriteFails(w, t)
               \/ \E p \in Partitions : Poll(w, p)
               \/ CommitOffset(w) \/ CommitOffsetFails(w) \/ Crash(w)
               \/ QuarantineFails(w)
        PROVE  Goal
    BY <1>1, <1>7
    DEF MissingTarget, ScopeUnavailable, CommitScopeFails, WriteFails, Poll,
        CommitOffset, CommitOffsetFails, Crash, RestartPosition, QuarantineFails
  <1>8. ASSUME \/ LateWrite \/ (\E p \in Partitions, r \in Records : Deliver(p, r))
               \/ (\E w \in Workers, p \in Partitions : Rebalance(p, w))
               \/ UNCHANGED vars
        PROVE  Goal
    BY <1>2, <1>8 DEF LateWrite, Deliver, Rebalance, RestartPosition, vars, workerVars
  <1> QED
    BY <1>4, <1>5, <1>6, <1>7, <1>8 DEF Next, WorkerNext, Progress, Failure
(* PositionMoves: a partition keeps its position, is polled, or goes back  *)
(* to the committed offset.                                                *)
LEMMA PositionMoves ==
    ASSUME TypeInv, [Next]_vars, NEW p \in Partitions
    PROVE  \/ position'[p] = position[p] /\ owner'[p] = owner[p]
           \/ \E w \in Workers : Poll(w, p)
           \/ position'[p] = committed[p]
  <1> DEFINE Goal == \/ position'[p] = position[p] /\ owner'[p] = owner[p]
                     \/ \E w \in Workers : Poll(w, p)
                     \/ position'[p] = committed[p]
  <1>a. KafkaTypeOK
    BY DEF TypeInv, TypeOK
  <1>1. ASSUME NEW w \in Workers, NEW q \in Partitions, Poll(w, q) PROVE Goal
    <2>1. CASE q = p
      BY <1>1, <2>1
    <2>2. CASE q # p
      BY <1>1, <1>a, <2>2 DEF Poll, KafkaTypeOK
    <2> QED
      BY <2>1, <2>2
  <1>2. ASSUME NEW w \in Workers, NEW q \in Partitions, Rebalance(q, w) PROVE Goal
    BY <1>2, <1>a DEF Rebalance, RestartPosition, KafkaTypeOK
  <1>3. ASSUME NEW w \in Workers, Crash(w) PROVE Goal
    BY <1>3 DEF Crash, RestartPosition
  <1>4. ASSUME UNCHANGED <<position, owner>> PROVE Goal
    BY <1>4
  <1> QED
    BY <1>1, <1>2, <1>3, <1>4
    DEF Next, WorkerNext, Progress, Failure, vars, kafkaVars, OpenScope,
        MissingTarget, Reject, Quarantine, CommitOffset, CommitOffsetFails,
        ScopeUnavailable, QuarantineFails, LateWrite, Deliver,
        WriteTarget, WriteFails, CommitScope, CommitScopeFails

(* CommittedMoves: only CommitOffset changes a committed offset.           *)
LEMMA CommittedMoves ==
    ASSUME TypeInv, [Next]_vars, NEW p \in Partitions, committed'[p] # committed[p]
    PROVE  \E w \in Workers : /\ pc[w] = "ack" /\ owner[p] = w /\ cur[w].part = p
                             /\ committed'[p] = cur[w].off
  <1>a. KafkaTypeOK
    BY DEF TypeInv, TypeOK
  <1>1. PICK w \in Workers : CommitOffset(w)
    BY DEF Next, WorkerNext, Progress, Failure, vars, kafkaVars, OpenScope,
        MissingTarget, Reject, Quarantine, Poll, CommitOffsetFails, Crash, RestartPosition,
        ScopeUnavailable, QuarantineFails, LateWrite, Deliver, Rebalance, RestartPosition,
        WriteTarget, WriteFails, CommitScope, CommitScopeFails
  <1>2. /\ pc[w] = "ack" /\ owner[cur[w].part] = w
        /\ committed' = [committed EXCEPT ![cur[w].part] = cur[w].off]
    BY <1>1 DEF CommitOffset, Owns
  <1> QED
    BY <1>a, <1>2 DEF KafkaTypeOK

-----------------------------------------------------------------------------

(* OpenScopeCovered: when a scope opens, a target has passed the event, or *)
(* the targets that are not planned have reached it.                       *)
LEMMA OpenScopeCovered ==
    ASSUME TypeInv, NEW w \in Workers, OpenScope(w)
    PROVE  \/ \E t \in Rec(w).targets : Passed(Rec(w), t)
           \/ \A t \in Rec(w).targets \ Planned(Rec(w)) : Reached(Rec(w), t)
  <1>1. Rec(w) \in Events
    BY RecordTyped DEF OpenScope, Records
  <1>2. PICK e \in Events : e = Rec(w)
    BY <1>1
  <1>3. ASSUME NEW t \in e.targets
        PROVE  /\ Decision(e, t) = "stale" => Passed(e, t)
               /\ Decision(e, t) = "duplicate" => Reached(e, t)
               /\ Decision(e, t) \in {"apply", "stale", "duplicate"}
    <2>1. e.seq \in Nat /\ e.ident \in Idents /\ t \in Clusters
      BY EventsAssumption
    <2>2. /\ Decision(e, t) # "rejected"
          /\ checkpoint[t][e.ident] \in Events \cup {NoEvent}
      BY <1>2, <2>1 DEF OpenScope, TypeInv, TypeOK, StoreTypeOK
    <2>3. checkpoint[t][e.ident] # NoEvent => checkpoint[t][e.ident].seq \in Nat
      BY <2>2, EventsAssumption
    <2>4. Decision(e, t) = "stale" => Passed(e, t)
      BY <2>1, <2>3 DEF Decision, Classify, Older, Passed
    <2>5. Decision(e, t) = "duplicate" => Reached(e, t)
      BY <2>1, <2>3 DEF Decision, Classify, Reached
    <2>6. Decision(e, t) \in {"apply", "stale", "duplicate"}
      BY <2>2 DEF Decision, Classify
    <2> QED
      BY <2>4, <2>5, <2>6
  <1>4. CASE \E t \in e.targets : Decision(e, t) = "stale"
    BY <1>2, <1>3, <1>4
  <1>5. CASE ~\E t \in e.targets : Decision(e, t) = "stale"
    BY <1>2, <1>3, <1>5 DEF Planned
  <1> QED
    BY <1>4, <1>5
(* AckStep: no step acknowledges or abandons a record that is not settled. *)
LEMMA AckStep ==
    ASSUME ~DlqMayFail, MaxPollRecords = 1, AckInv, [Next]_vars
    PROVE  AckInv'
  <1>a. FenceInv /\ OffsetInv /\ TypeInv /\ FenceInv' /\ OffsetInv' /\ TypeInv'
    BY FenceStep, OffsetStep DEF AckInv, FenceInv
  <1>b. /\ KafkaTypeOK /\ KafkaTypeOK'
        /\ \A p \in Partitions : /\ committed[p] \in Nat /\ position[p] \in Nat
                                 /\ committed'[p] \in Nat /\ position'[p] \in Nat
                                 /\ Len(topic[p]) \in Nat /\ Len(topic'[p]) \in Nat
    BY <1>a DEF TypeInv, TypeOK, KafkaTypeOK
  <1>c. ASSUME NEW w \in Workers, pc[w] # "idle"
        PROVE  /\ cur[w].part \in Partitions
               /\ cur[w].off \in 1 .. Len(topic[cur[w].part])
    BY <1>a, <1>b, <1>c DEF TypeInv, BatchInv, Batches
  <1>d. ASSUME NEW w \in Workers, NEW p \in Partitions, Poll(w, p)
        PROVE  /\ pc[w] = "idle" /\ owner[p] = w /\ owner' = owner
               /\ position'[p] = position[p] + 1 /\ position'[p] <= Len(topic[p])
               /\ pc'[w] # "idle" /\ cur'[w].part = p
               /\ cur'[w].off = position'[p] /\ cur'[w].last = position'[p]
               /\ \A q \in Partitions : q # p => position'[q] = position[q]
    <2>1. /\ position[p] + 1 <= Len(topic[p])
          /\ position' = [position EXCEPT ![p] = @ + 1]
          /\ StartRecord(w, [part |-> p, off |-> position[p] + 1,
                             last |-> position[p] + 1])
      BY <1>d DEF Poll
    <2>2. [part |-> p, off |-> position[p] + 1, last |-> position[p] + 1] # NoBatch
      BY <1>b, MarkersAssumption
    <2>3. /\ pc'[w] = "try"
          /\ cur'[w] = [part |-> p, off |-> position[p] + 1, last |-> position[p] + 1]
      BY <1>a, <2>1, <2>2 DEF StartRecord, TypeInv, TypeOK, WorkerTypeOK
    <2> QED
      BY <1>b, <1>d, <2>1, <2>3 DEF Poll, KafkaTypeOK
  <1>e. ASSUME NEW p \in Partitions, NEW o \in 1 .. Len(topic[p]), SettledAt(p, o)
        PROVE  SettledAt(p, o)'
    BY <1>a, <1>e, SettledStable
  <1>1. SingleRecord'
    <2> SUFFICES ASSUME NEW w \in Workers, pc'[w] # "idle"
                 PROVE  cur'[w].last = cur'[w].off
      BY DEF SingleRecord
    <2>1. CASE pc[w] # "idle" /\ cur'[w] = cur[w]
      BY <2>1 DEF AckInv, SingleRecord
    <2>2. CASE \E p \in Partitions : Poll(w, p)
      BY <1>d, <2>2
    <2>3. CASE Crash(w)
      BY <1>a, <2>3 DEF Crash, RestartPosition, StartRecord, TypeInv, TypeOK, WorkerTypeOK
    <2>4. CASE pc[w] = "ack"
      <3>1. ASSUME NEW v \in Workers, CommitOffset(v) \/ CommitOffsetFails(v)
            PROVE  cur'[w] = cur[w]
        <4>1. StartRecord(v, NoBatch) /\ pc[v] = "ack"
          <5>1. CASE CommitOffset(v)
            <6>1. cur[v].off = cur[v].last /\ cur[v].off \in Nat
              BY <1>c, <5>1 DEF CommitOffset, AckInv, SingleRecord
            <6>2. ~(cur[v].off < cur[v].last)
              BY <6>1
            <6> QED
              BY <5>1, <6>2 DEF CommitOffset
          <5>2. CASE CommitOffsetFails(v)
            BY <5>2 DEF CommitOffsetFails
          <5> QED
            BY <3>1, <5>1, <5>2
        <4>2. pc'[v] = "idle"
          BY <1>a, <4>1 DEF StartRecord, TypeInv, TypeOK, WorkerTypeOK
        <4>3. v # w
          BY <4>2
        <4> QED
          BY <1>a, <4>1, <4>3 DEF StartRecord, TypeInv, TypeOK, WorkerTypeOK
      <3>2. cur'[w] = cur[w]
        BY <1>a, <2>4, <3>1, AckKeeps
      <3> QED
        BY <2>4, <3>2 DEF AckInv, SingleRecord
    <2> QED
      BY <1>a, <2>1, <2>2, <2>3, <2>4, BatchMoves
  <1>2. ScopesCovered'
    <2> SUFFICES ASSUME NEW w \in Workers, pc'[w] = "apply"
                 PROVE  (\/ \E t \in Rec(w).targets : Passed(Rec(w), t)
                         \/ \A t \in Rec(w).targets \ (todo[w] \cup staged[w]) :
                               Reached(Rec(w), t))'
      BY DEF ScopesCovered
    <2>1. pc[w] # "idle" /\ cur'[w] = cur[w] /\ Rec(w) \in Events
      <3>1. CASE OpenScope(w)
        BY <1>a, <3>1, RecordTyped DEF OpenScope, Records
      <3>2. CASE pc[w] = "apply" /\ cur'[w] = cur[w]
        BY <1>a, <3>2, ScopeTyped
      <3> QED
        BY <1>a, <3>1, <3>2, ScopeMoves
    <2>2. Rec(w)' = Rec(w)
      BY <1>a, <1>c, <2>1, TopicGrows DEF Rec
    <2>3. PICK e \in Events : e = Rec(w) /\ e = Rec(w)'
      BY <2>1, <2>2
    <2>4. \A t \in e.targets : /\ Reached(e, t) => Reached(e, t)'
                               /\ Passed(e, t) => Passed(e, t)'
      BY <1>a, ReachedStable, EventsAssumption
    <2>5. \/ \E t \in e.targets : Passed(e, t)
          \/ \A t \in e.targets \ (todo'[w] \cup staged'[w]) : Reached(e, t)
      <3>1. CASE OpenScope(w)
        <4>1. todo'[w] = Planned(Rec(w))
          BY <1>a, <3>1 DEF OpenScope, TypeInv, TypeOK, WorkerTypeOK
        <4> QED
          BY <1>a, <2>3, <3>1, <4>1, OpenScopeCovered
      <3>2. CASE pc[w] = "apply" /\ todo'[w] \cup staged'[w] = todo[w] \cup staged[w]
        BY <2>3, <3>2 DEF AckInv, ScopesCovered
      <3> QED
        BY <1>a, <3>1, <3>2, ScopeMoves
    <2>6. \/ \E t \in e.targets : Passed(e, t)'
          \/ \A t \in e.targets \ (todo'[w] \cup staged'[w]) : Reached(e, t)'
      BY <2>4, <2>5
    <2> QED
      BY <2>3, <2>6 DEF Reached, Passed
  <1>3. AckReady'
    <2> SUFFICES ASSUME NEW w \in Workers, pc'[w] = "ack"
                 PROVE  SettledAt(cur[w].part, cur[w].off)'
      BY DEF AckReady
    <2>1. CASE pc[w] = "ack" /\ cur'[w] = cur[w]
      <3>1. PICK p \in Partitions, o \in Nat :
               /\ p = cur[w].part /\ o = cur[w].off
               /\ p = cur'[w].part /\ o = cur'[w].off /\ o \in 1 .. Len(topic[p])
        BY <1>c, <2>1
      <3>2. SettledAt(p, o)
        BY <2>1, <3>1 DEF AckInv, AckReady
      <3>3. SettledAt(p, o)'
        BY <1>e, <3>1, <3>2
      <3> QED
        BY <3>1, <3>3 DEF SettledAt
    <2>2. CASE Quarantine(w)
      <3> DEFINE d == [part |-> cur[w].part, off |-> cur[w].off, error |-> err[w]]
      <3>1. d \in dlq' /\ cur' = cur
        BY <2>2 DEF Quarantine
      <3>2. d.part = cur'[w].part /\ d.off = cur'[w].off
        BY <3>1
      <3> HIDE DEF d
      <3>3. \E x \in dlq' : x.part = cur'[w].part /\ x.off = cur'[w].off
        BY <3>1, <3>2
      <3> QED
        BY <3>3 DEF SettledAt
    <2>3. CASE CommitScope(w)
      <3>1. /\ pc[w] = "apply" /\ todo[w] = {} /\ UNCHANGED <<topic, cur>>
            /\ checkpoint' = Saved(Rec(w), staged[w])
        BY <2>3 DEF CommitScope
      <3>2. PICK e \in Events : e = Rec(w) /\ e = Rec(w)'
        BY <1>a, <3>1, ScopeTyped DEF Rec
      <3>3. e.ident \in Idents /\ e.targets \subseteq Clusters /\ e.seq \in Nat
        BY EventsAssumption
      <3>4. \A t \in e.targets : /\ Reached(e, t) => Reached(e, t)'
                                 /\ Passed(e, t) => Passed(e, t)'
        BY <1>a, ReachedStable, EventsAssumption
      <3>5. \A t \in staged[w] \cap e.targets : Reached(e, t)'
        BY <1>a, <3>1, <3>2, <3>3, SavedAt, MarkersAssumption DEF Reached
      <3>6. \/ \E t \in e.targets : Passed(e, t)
            \/ \A t \in e.targets \ staged[w] : Reached(e, t)
        BY <3>1, <3>2 DEF AckInv, ScopesCovered
      <3>7. \/ \E t \in e.targets : Passed(e, t)'
            \/ \A t \in e.targets : Reached(e, t)'
        BY <3>4, <3>5, <3>6
      <3> QED
        BY <3>2, <3>7, MarkersAssumption DEF SettledAt, Reached, Passed, Rec
    <2> QED
      BY <1>a, <2>1, <2>2, <2>3, AckMoves
  <1>4. AckedSettled'
    <2> SUFFICES ASSUME NEW p \in Partitions, NEW o \in 1 .. committed'[p]
                 PROVE  SettledAt(p, o)'
      BY DEF AckedSettled
    <2>1. position[p] <= Len(topic[p]) /\ committed[p] <= position[p]
      BY <1>a DEF AckInv, FetchedSettled, OffsetInv, OwnedAhead
    <2>2. CASE committed'[p] = committed[p]
      <3>1. SettledAt(p, o) /\ o \in 1 .. Len(topic[p])
        BY <1>b, <2>1, <2>2 DEF AckInv, AckedSettled
      <3> QED
        BY <1>e, <3>1
    <2>3. CASE committed'[p] # committed[p]
      <3>1. PICK w \in Workers : /\ pc[w] = "ack" /\ owner[p] = w /\ cur[w].part = p
                                /\ committed'[p] = cur[w].off
        BY <1>a, <2>3, CommittedMoves
      <3>2. cur[w].off \in Nat /\ cur[w].off <= position[p]
        BY <1>a, <1>b, <1>c, <3>1 DEF OffsetInv, OwnedAhead, AckInv, SingleRecord
      <3>3. o \in 1 .. position[p] /\ o \in 1 .. Len(topic[p])
        BY <1>b, <2>1, <3>1, <3>2
      <3>4. SettledAt(p, o)
        <4>1. SettledAt(p, o) \/ Handling(p, o)
          BY <3>3 DEF AckInv, FetchedSettled
        <4>2. Handling(p, o) => cur[w].off = o
          BY <3>1 DEF Handling
        <4>3. SettledAt(p, cur[w].off)
          BY <3>1 DEF AckInv, AckReady
        <4> QED
          BY <4>1, <4>2, <4>3
      <3> QED
        BY <1>e, <3>3, <3>4
    <2> QED
      BY <2>2, <2>3
  <1>5. FetchedSettled'
    <2> SUFFICES ASSUME NEW p \in Partitions
                 PROVE  /\ position'[p] <= Len(topic'[p])
                        /\ \A o \in 1 .. position'[p] : SettledAt(p, o)' \/ Handling(p, o)'
      BY DEF FetchedSettled
    <2>1. /\ position[p] <= Len(topic[p]) /\ committed[p] <= position[p]
          /\ Len(topic[p]) <= Len(topic'[p])
      BY <1>a, TopicGrows DEF AckInv, FetchedSettled, OffsetInv, OwnedAhead
    <2>2. CASE position'[p] = committed[p]
      <3>1. \A o \in 1 .. committed[p] : SettledAt(p, o) /\ o \in 1 .. Len(topic[p])
        BY <1>b, <2>1 DEF AckInv, AckedSettled
      <3> QED
        BY <1>b, <1>e, <2>1, <2>2, <3>1
    <2>3. ASSUME NEW w \in Workers, Poll(w, p)
          PROVE  /\ position'[p] <= Len(topic'[p])
                 /\ \A o \in 1 .. position'[p] : SettledAt(p, o)' \/ Handling(p, o)'
      <3>1. ASSUME NEW o \in 1 .. position'[p], o # position'[p]
            PROVE  SettledAt(p, o)'
        <4>1. o \in 1 .. position[p] /\ o \in 1 .. Len(topic[p])
          BY <1>b, <1>d, <2>1, <2>3, <3>1
        <4>2. ~Handling(p, o)
          BY <1>d, <2>3 DEF Handling
        <4> QED
          BY <1>e, <4>1, <4>2 DEF AckInv, FetchedSettled
      <3>2. PICK n \in Nat : n = position'[p]
        BY <1>b
      <3>3. Handling(p, n)'
        BY <1>d, <2>3, <3>2 DEF Handling
      <3> QED
        BY <1>b, <1>d, <2>1, <2>3, <3>1, <3>2, <3>3
    <2>4. CASE position'[p] = position[p] /\ owner'[p] = owner[p]
      <3>1. ASSUME NEW o \in 1 .. position[p]
            PROVE  SettledAt(p, o)' \/ Handling(p, o)'
        <4>1. o \in 1 .. Len(topic[p])
          BY <1>b, <2>1
        <4>2. CASE SettledAt(p, o)
          BY <1>e, <4>1, <4>2
        <4>3. ASSUME ~SettledAt(p, o), ~Handling(p, o)' PROVE FALSE
          <5>1. PICK w \in Workers : /\ owner[p] = w /\ pc[w] # "idle"
                                    /\ cur[w].part = p /\ cur[w].off = o
            BY <4>3 DEF AckInv, FetchedSettled, Handling
          <5>2. pc[w] # "ack"
            BY <4>3, <5>1 DEF AckInv, AckReady
          <5>3. ~(pc'[w] # "idle" /\ cur'[w] = cur[w])
            BY <2>4, <4>3, <5>1 DEF Handling
          <5>4. Crash(w)
            BY <1>a, <1>d, <5>1, <5>2, <5>3, BatchMoves
          <5>5. position'[p] = committed[p]
            BY <5>1, <5>4 DEF Crash, RestartPosition
          <5> QED
            BY <1>b, <2>4, <4>3, <5>5 DEF AckInv, AckedSettled
        <4> QED
          BY <4>2, <4>3
      <3> QED
        BY <1>b, <2>1, <2>4, <3>1
    <2> QED
      BY <1>a, <2>2, <2>3, <2>4, PositionMoves
  <1> QED
    BY <1>a, <1>1, <1>2, <1>3, <1>4, <1>5 DEF AckInv

(* AckCorrect: with a dead-letter topic that can be written and one record *)
(* per poll, an offset is committed only behind records that are applied,  *)
(* superseded or quarantined, through every crash, rebalance and retry.    *)
THEOREM AckCorrect ==
    ASSUME ~DlqMayFail, MaxPollRecords = 1
    PROVE  Spec => []AckedSettled
  <1>1. AckInv /\ [Next]_vars => AckInv'
    BY AckStep
  <1>2. AckInv => AckedSettled
    BY DEF AckInv
  <1> QED
    BY <1>1, <1>2, AckInit, PTL DEF Spec

-----------------------------------------------------------------------------
(* The pipeline *)

\* The rows have positions and sequences of their own, up to the head's.
RowsInv ==
    /\ rows \subseteq Mutations
    /\ IsFiniteSet(rows)
    /\ \A r \in rows : r.pos <= Cardinality(rows)
    /\ \A r, s \in rows : r.pos = s.pos => r = s
    /\ \A r, s \in rows : r.ident = s.ident /\ r.seq = s.seq => r = s
    /\ head \in [Idents -> Nat]
    /\ \A r \in rows : r.seq <= head[r.ident]
    /\ \A i \in Idents : head[i] <= Cardinality(rows)

\* A publisher has taken rows of the table.
QueueInv ==
    /\ queue \in [Publishers -> SUBSET rows]
    /\ sent \in [Publishers -> BOOLEAN]
    /\ \A x \in Publishers : sent[x] => queue[x] # {}

\* What a publisher is about to mark, and what is marked, is in the topic.
MarkInv ==
    /\ \A n \in published : \E r \in rows : r.pos = n
    /\ \A x \in Publishers : sent[x] => InTopic(InHand(x))
    /\ PublishedReachedKafka

\* An event comes from the log.
Logged(e) == \E r \in rows : e = Payload(r)

\* Topics, checkpoints and documents hold events of the log, each document
\* its own.
LoggedInv ==
    /\ \A p \in Partitions : \A o \in 1 .. Len(topic[p]) : Logged(topic[p][o])
    /\ \A t \in Clusters, i \in Idents :
          /\ checkpoint[t][i] # NoEvent => Logged(checkpoint[t][i]) /\ checkpoint[t][i].ident = i
          /\ content[t][i] # NoEvent => Logged(content[t][i]) /\ content[t][i].ident = i
    /\ \A x \in late : Logged(x[2])

\* Only failures lead to quarantine.
FailedInv ==
    /\ \A w \in Workers : pc[w] = "quarantine" => err[w] = "failed"
    /\ NothingRejected

-----------------------------------------------------------------------------
(* The event log of the pipeline *)

(* RowTyped: the fields of a row.                                          *)
LEMMA RowTyped ==
    ASSUME NEW r \in Mutations
    PROVE  /\ r.pos \in Nat /\ r.seq \in Nat \ {0} /\ r.ident \in Idents
           /\ r.body \in Bodies /\ r.targets \in (SUBSET Clusters) \ {{}}
           /\ Payload(r) \in Events /\ PartitionOf[r.ident] \in Partitions
  <1>1. Payload(r) \in Events /\ PartitionOf \in [Idents -> Partitions] /\ MaxRows \in Nat
    BY PipelineAssumption
  <1> QED
    BY <1>1 DEF Mutations

(* PayloadFields: what the envelope says of its row.                       *)
LEMMA PayloadFields ==
    ASSUME NEW r
    PROVE  /\ Payload(r).id = r.pos /\ Payload(r).ident = r.ident
           /\ Payload(r).seq = r.seq /\ Payload(r).version = r.seq
           /\ Payload(r).targets = r.targets
  BY DEF Payload

(* InHandInside: the rows taken have a first one.                          *)
LEMMA InHandInside ==
    ASSUME RowsInv, QueueInv, NEW x \in Publishers, queue[x] # {}
    PROVE  InHand(x) \in queue[x] /\ InHand(x) \in rows
  <1> DEFINE Less == {p \in Nat \X Nat : p[1] < p[2]}
             S == {r.pos : r \in queue[x]}
  <1>1. IsWellFoundedOn(Less, Nat)
    BY NatLessThanWellFounded DEF OpToRel
  <1>2. queue[x] \subseteq rows /\ \A r \in queue[x] : r.pos \in Nat
    BY RowTyped DEF QueueInv, RowsInv
  <1>3. S \subseteq Nat /\ S # {}
    BY <1>2
  <1>4. PICK n \in S : \A m \in S : <<m, n>> \notin Less
    <2> HIDE DEF Less, S
    <2> QED
      BY <1>1, <1>3, WFMin
  <1>5. ASSUME NEW m \in S PROVE n <= m
    <2>1. <<m, n>> \in Nat \X Nat /\ <<m, n>>[1] = m /\ <<m, n>>[2] = n
      BY <1>3
    <2>2. ~ (m < n)
      BY <1>4, <2>1
    <2> QED
      BY <1>3, <2>2
  <1>6. \E r \in queue[x] : \A s \in queue[x] : r.pos <= s.pos
    <2>1. PICK r \in queue[x] : r.pos = n
      BY <1>4
    <2> QED
      BY <1>5, <2>1
  <1>7. InHand(x) \in queue[x]
    BY <1>6 DEF InHand
  <1> QED
    BY <1>2, <1>7

(* Drafts: a client's request records a mutation, or takes a pending row.  *)
LEMMA Drafts ==
    ASSUME RowsInv, NEW x \in Publishers, Client(x)
    PROVE  \/ \E i \in Idents, k \in Keys, b \in Bodies, T \in (SUBSET Clusters) \ {{}} :
                  Recorded(x, Drafted(i, k, b, T))
           \/ \E r \in Pending : Again(x, r)
  <1>1. ASSUME NEW i \in Idents, NEW k \in Keys \ RepairKeys, NEW b \in Bodies, Ingest(x, i, k, b)
        PROVE  \E T \in (SUBSET Clusters) \ {{}} : Recorded(x, Drafted(i, k, b, T))
    BY <1>1, PipelineAssumption DEF Ingest
  <1>2. ASSUME NEW i \in Idents, NEW k \in Keys \ RepairKeys, Delete(x, i, k)
        PROVE  \E T \in (SUBSET Clusters) \ {{}} : Recorded(x, Drafted(i, k, Deletion, T))
    BY <1>2, PipelineAssumption DEF Delete
  <1>3. ASSUME NEW i \in Idents, NEW k \in RepairKeys, NEW T \in RepairRoutes, Repair(x, i, k, T)
        PROVE  \E b \in Bodies : /\ k \in Keys /\ T \in (SUBSET Clusters) \ {{}}
                                 /\ Recorded(x, Drafted(i, k, b, T))
    <2>1. PICK s \in Log!Newest(i) : Recorded(x, Drafted(i, k, s.body, T))
      BY <1>3 DEF Repair
    <2>2. s \in rows /\ s.body \in Bodies
      BY <2>1, RowTyped DEF Log!Newest, RowsInv
    <2>3. k \in Keys /\ T \in (SUBSET Clusters) \ {{}}
      BY PipelineAssumption
    <2> QED
      BY <2>1, <2>2, <2>3
  <1> QED
    BY <1>1, <1>2, <1>3 DEF Client

(* RecordedRows: a mutation is one above the others.                       *)
LEMMA RecordedRows ==
    ASSUME RowsInv, NEW x, NEW i \in Idents, NEW k \in Keys, NEW b \in Bodies,
           NEW T \in (SUBSET Clusters) \ {{}}, Recorded(x, Drafted(i, k, b, T))
    PROVE  RowsInv' /\ rows \subseteq rows'
  <1>1. PICK r : r = Drafted(i, k, b, T)
    OBVIOUS
  <1>2. PICK n : n = Cardinality(rows)
    OBVIOUS
  <1>3. n \in Nat /\ n < MaxRows /\ MaxRows \in Nat
    BY <1>2, FS_CardinalityType, PipelineAssumption DEF RowsInv, Recorded
  <1>4. head[i] \in Nat /\ head[i] <= n
    BY <1>2 DEF RowsInv
  <1>5. /\ r.pos = n + 1 /\ r.ident = i /\ r.seq = head[i] + 1
        /\ rows' = rows \cup {r} /\ head' = [head EXCEPT ![i] = head[i] + 1]
    BY <1>1, <1>2 DEF Recorded, Drafted, NextSequence
  <1>6. r \in Mutations
    <2>1. n + 1 \in 1 .. MaxRows /\ head[i] + 1 \in 1 .. MaxRows
      BY <1>3, <1>4
    <2> QED
      BY <1>1, <1>2, <2>1 DEF Drafted, NextSequence, Mutations
  <1>7. \A s \in rows : s.pos \in Nat /\ s.pos <= n /\ s.seq \in Nat /\ s.seq <= head[s.ident]
                        /\ s.ident \in Idents
    BY <1>2, RowTyped DEF RowsInv
  <1>8. \A s \in rows : s.pos # n + 1 /\ s.pos <= n + 1
                        /\ (s.ident = i => s.seq # head[i] + 1)
    BY <1>3, <1>4, <1>7
  <1>9. r \notin rows
    BY <1>5, <1>8
  <1>10. IsFiniteSet(rows') /\ Cardinality(rows') = n + 1
    BY <1>2, <1>5, <1>9, FS_AddElement DEF RowsInv
  <1>11. /\ head' \in [Idents -> Nat] /\ head'[i] = head[i] + 1
         /\ \A j \in Idents : j # i => head'[j] = head[j]
    BY <1>4, <1>5 DEF RowsInv
  <1>12. rows' \subseteq Mutations
    BY <1>5, <1>6 DEF RowsInv
  <1>13. /\ \A s \in rows' : s.pos <= n + 1
         /\ \A s, u \in rows' : s.pos = u.pos => s = u
         /\ \A s, u \in rows' : s.ident = u.ident /\ s.seq = u.seq => s = u
    <2>1. \A s \in rows' : s \in rows \/ s = r
      BY <1>5
    <2>2. \A s, u \in rows : /\ s.pos = u.pos => s = u
                             /\ s.ident = u.ident /\ s.seq = u.seq => s = u
      BY DEF RowsInv
    <2>3. \A s \in rows' : s.pos <= n + 1
      BY <1>3, <1>5, <1>8, <2>1
    <2> QED
      BY <1>5, <1>8, <2>1, <2>2, <2>3
  <1>14. \A s \in rows' : s.seq <= head'[s.ident]
    <2>1. ASSUME NEW s \in rows PROVE s.seq <= head'[s.ident]
      BY <1>4, <1>7, <1>11
    <2>2. r.seq <= head'[r.ident]
      BY <1>4, <1>5, <1>11
    <2> QED
      BY <1>5, <2>1, <2>2
  <1>15. \A j \in Idents : head'[j] <= n + 1
    <2>1. \A j \in Idents : head[j] \in Nat /\ head[j] <= n
      BY <1>2 DEF RowsInv
    <2> QED
      BY <1>3, <1>4, <1>11, <2>1
  <1>16. RowsInv'
    <2>1. /\ \A s \in rows' : s.pos <= Cardinality(rows')
          /\ \A j \in Idents : head'[j] <= Cardinality(rows')
      BY <1>10, <1>13, <1>15
    <2> QED
      BY <1>10, <1>11, <1>12, <1>13, <1>14, <2>1 DEF RowsInv
  <1> QED
    BY <1>5, <1>16

\* A step of the thread of a request or of a dispatcher.
PublisherNext(x) == Client(x) \/ Publish(x) \/ SendRaises(x) \/ Abandon(x)

(* ClientKeeps: a request leaves the log and what is taken of it in order. *)
LEMMA ClientKeeps ==
    ASSUME RowsInv, QueueInv, NEW x \in Publishers, Client(x)
    PROVE  /\ RowsInv' /\ QueueInv' /\ rows \subseteq rows'
           /\ UNCHANGED <<vars, published, sent>>
           /\ queue[x] = {}
           /\ \A y \in Publishers \ {x} : queue'[y] = queue[y]
  <1>1. ASSUME NEW i \in Idents, NEW k \in Keys, NEW b \in Bodies,
               NEW T \in (SUBSET Clusters) \ {{}}, Recorded(x, Drafted(i, k, b, T))
        PROVE  /\ RowsInv' /\ QueueInv' /\ rows \subseteq rows'
               /\ UNCHANGED <<vars, published, sent>>
               /\ queue[x] = {}
               /\ \A y \in Publishers \ {x} : queue'[y] = queue[y]
    <2>1. RowsInv' /\ rows \subseteq rows'
      BY <1>1, RecordedRows
    <2>2. PICK r : r = Drafted(i, k, b, T)
      OBVIOUS
    <2>3. /\ UNCHANGED <<vars, published, sent>> /\ queue[x] = {}
          /\ queue' = [queue EXCEPT ![x] = {r}] /\ rows' = rows \cup {r}
      BY <1>1, <2>2 DEF Recorded, UnchangedWorkers, vars
    <2>4. \A y \in Publishers \ {x} : queue'[y] = queue[y]
      BY <2>3 DEF QueueInv
    <2>5. QueueInv'
      BY <2>3 DEF QueueInv
    <2> QED
      BY <2>1, <2>3, <2>4, <2>5
  <1>2. ASSUME NEW r \in Pending, Again(x, r)
        PROVE  /\ RowsInv' /\ QueueInv' /\ rows \subseteq rows'
               /\ UNCHANGED <<vars, published, sent>>
               /\ queue[x] = {}
               /\ \A y \in Publishers \ {x} : queue'[y] = queue[y]
    <2>1. /\ UNCHANGED <<vars, outboxVars, sent>> /\ queue[x] = {}
          /\ queue' = [queue EXCEPT ![x] = {r}]
      BY <1>2 DEF Again, UnchangedWorkers, vars
    <2>2. UNCHANGED <<rows, head, published>> /\ r \in rows
      BY <2>1 DEF outboxVars, Pending
    <2>3. QueueInv' /\ \A y \in Publishers \ {x} : queue'[y] = queue[y]
      BY <2>1, <2>2 DEF QueueInv
    <2>4. RowsInv'
      BY <2>2 DEF RowsInv
    <2> QED
      BY <2>1, <2>2, <2>3, <2>4
  <1> QED
    BY <1>1, <1>2, Drafts

(* PublishKeeps: so does a publisher, which appends at most the row it has *)
(* in hand.                                                                *)
LEMMA PublishKeeps ==
    ASSUME RowsInv, QueueInv, NEW x \in Publishers,
           Publish(x) \/ SendRaises(x) \/ Abandon(x)
    PROVE  /\ RowsInv' /\ QueueInv' /\ rows' = rows
           /\ UnchangedWorkers
           /\ \/ topic' = topic
              \/ /\ queue[x] # {} /\ TopicHasRoom(InHand(x))
                 /\ topic' = Appended(InHand(x))
  <1>1. UNCHANGED <<rows, head>> /\ UnchangedWorkers
    BY DEF Publish, Dispatch, Send, Mark, SendRaises, Abandon, outboxVars
  <1>2. RowsInv'
    BY <1>1 DEF RowsInv
  <1>3. QueueInv'
    <2>1. CASE Dispatch(x)
      <3>1. Page \subseteq rows
        BY DEF Page, Pending
      <3>2. /\ queue' = [queue EXCEPT ![x] = Page] /\ sent' = sent
            /\ queue[x] = {}
        BY <2>1 DEF Dispatch
      <3> QED
        BY <1>1, <3>1, <3>2 DEF QueueInv
    <2>2. CASE Send(x)
      <3>1. queue' = queue /\ sent' = [sent EXCEPT ![x] = TRUE] /\ queue[x] # {}
        BY <2>2 DEF Send
      <3> QED
        BY <1>1, <3>1 DEF QueueInv
    <2>3. CASE Mark(x) \/ Abandon(x)
      <3>1. \E Q \in SUBSET queue[x] : /\ queue' = [queue EXCEPT ![x] = Q]
                                       /\ sent' = [sent EXCEPT ![x] = FALSE]
        BY <2>3 DEF Mark, Abandon, QueueInv
      <3> QED
        BY <1>1, <3>1 DEF QueueInv
    <2>4. CASE SendRaises(x)
      <3>1. queue' = [queue EXCEPT ![x] = {}] /\ sent' = sent /\ ~sent[x]
        BY <2>4 DEF SendRaises
      <3> QED
        BY <1>1, <3>1 DEF QueueInv
    <2> QED
      BY <2>1, <2>2, <2>3, <2>4 DEF Publish
  <1>4. \/ topic' = topic
        \/ /\ queue[x] # {} /\ TopicHasRoom(InHand(x))
           /\ topic' = Appended(InHand(x))
    BY DEF Publish, Dispatch, Send, Mark, SendRaises, Abandon
  <1> QED
    BY <1>1, <1>2, <1>3, <1>4

(* LogStep: every step keeps the rows, and what is taken of them.          *)
LEMMA LogStep ==
    ASSUME RowsInv, QueueInv, [PipeNext]_pipeVars
    PROVE  RowsInv' /\ QueueInv' /\ rows \subseteq rows'
  <1>1. CASE UNCHANGED <<outboxVars, pubVars>>
    BY <1>1 DEF RowsInv, QueueInv, outboxVars, pubVars
  <1>2. ASSUME NEW x \in Publishers, PublisherNext(x)
        PROVE  RowsInv' /\ QueueInv' /\ rows \subseteq rows'
    BY <1>2, ClientKeeps, PublishKeeps DEF PublisherNext
  <1> QED
    BY <1>1, <1>2 DEF PipeNext, PublisherNext, pipeVars

(* WorkerStep: to the workers, a publisher is a producer that delivers the *)
(* event of a row, or does nothing.                                        *)
LEMMA WorkerStep ==
    ASSUME RowsInv, QueueInv, [PipeNext]_pipeVars
    PROVE  [Next]_vars
  <1>1. ASSUME NEW x \in Publishers, PublisherNext(x)
        PROVE  [Next]_vars
    <2>1. CASE Client(x)
      BY <2>1, ClientKeeps
    <2>2. CASE UnchangedWorkers /\ topic' = topic
      BY <2>2 DEF UnchangedWorkers, vars
    <2>3. ASSUME UnchangedWorkers, queue[x] # {}, TopicHasRoom(InHand(x)),
                 topic' = Appended(InHand(x))
          PROVE  [Next]_vars
      <3>1. PICK r : r = InHand(x)
        OBVIOUS
      <3>2. r \in Mutations
        BY <2>3, <3>1, InHandInside DEF RowsInv
      <3>3. PICK p \in Partitions, e \in Records : p = PartitionOf[r.ident] /\ e = Payload(r)
        BY <3>2, RowTyped DEF Records
      <3>4. Len(topic[p]) < MaxTopic /\ topic' = [topic EXCEPT ![p] = Append(@, e)]
        BY <2>3, <3>1, <3>3 DEF Appended, TopicHasRoom
      <3>5. Deliver(p, e)
        BY <2>3, <3>4 DEF Deliver, UnchangedWorkers
      <3> QED
        BY <3>3, <3>5 DEF Next
    <2> QED
      BY <1>1, <2>1, <2>2, <2>3, PublishKeeps DEF PublisherNext
  <1>2. CASE UNCHANGED vars
    BY <1>2
  <1>3. CASE WorkerNext
    BY <1>3 DEF Next
  <1> QED
    BY <1>1, <1>2, <1>3 DEF PipeNext, PublisherNext, pipeVars

(* PipeStarts: the log is empty when the workers start.                    *)
LEMMA PipeStarts == PipeInit => WorkerInit /\ RowsInv /\ QueueInv
  <1> SUFFICES ASSUME PipeInit PROVE RowsInv /\ QueueInv
    BY DEF PipeInit
  <1>1. IsFiniteSet(rows) /\ Cardinality(rows) = 0
    BY FS_EmptySet DEF PipeInit
  <1> QED
    BY <1>1 DEF PipeInit, RowsInv, QueueInv

(* PipelineIsWorker: the pipeline is a behaviour of the workers and their  *)
(* environment, so what is proved of IndexingWorker holds of it.           *)
THEOREM PipelineIsWorker == PipeSpec => Spec
  <1>1. RowsInv /\ QueueInv /\ [PipeNext]_pipeVars => RowsInv' /\ QueueInv'
    BY LogStep
  <1>2. RowsInv /\ QueueInv /\ [PipeNext]_pipeVars => [Next]_vars
    BY WorkerStep
  <1> QED
    BY <1>1, <1>2, PipeStarts, PTL DEF PipeSpec, Spec

-----------------------------------------------------------------------------
(* Nothing is marked before it is sent *)

(* InTopicStable: what has reached Kafka stays there.                      *)
LEMMA InTopicStable ==
    ASSUME TypeInv, [Next]_vars, NEW r \in Mutations, InTopic(r)
    PROVE  InTopic(r)'
  <1>1. PICK p \in Partitions : p = PartitionOf[r.ident]
    BY RowTyped
  <1>2. PICK o \in 1 .. Len(topic[p]) : topic[p][o] = Payload(r)
    BY <1>1 DEF InTopic
  <1>3. Len(topic[p]) \in Nat /\ Len(topic'[p]) \in Nat
    <2>1. topic[p] \in Seq(Records)
      BY DEF TypeInv, TypeOK, KafkaTypeOK
    <2>2. TypeInv'
      BY TypeStep
    <2>3. topic'[p] \in Seq(Records)
      BY <2>2 DEF TypeInv, TypeOK, KafkaTypeOK
    <2> QED
      BY <2>1, <2>3, LenProperties
  <1>4. o \in 1 .. Len(topic'[p]) /\ topic'[p][o] = Payload(r)
    BY <1>2, <1>3, TopicGrows
  <1> QED
    BY <1>1, <1>4 DEF InTopic, Payload

(* AppendedInTopic: what is sent is in the topic.                          *)
LEMMA AppendedInTopic ==
    ASSUME TypeInv, NEW r \in Mutations, topic' = Appended(r)
    PROVE  InTopic(r)'
  <1>1. PICK p \in Partitions, e \in Records : p = PartitionOf[r.ident] /\ e = Payload(r)
    BY RowTyped DEF Records
  <1>2. topic \in [Partitions -> Seq(Records)]
    BY DEF TypeInv, TypeOK, KafkaTypeOK
  <1>3. topic'[p] = Append(topic[p], e)
    BY <1>1, <1>2 DEF Appended
  <1>4. Len(topic'[p]) \in 1 .. Len(topic'[p]) /\ topic'[p][Len(topic'[p])] = e
    BY <1>2, <1>3
  <1> QED
    BY <1>1, <1>4 DEF InTopic, Payload

(* MarkStep: a publisher marks what it has sent, and nothing else.         *)
LEMMA MarkStep ==
    ASSUME ~SendMayDrop, TypeInv, RowsInv, QueueInv, MarkInv, [PipeNext]_pipeVars
    PROVE  MarkInv'
  <1>1. [Next]_vars /\ RowsInv' /\ QueueInv' /\ rows \subseteq rows'
    BY WorkerStep, LogStep
  <1>2. \A r \in rows : InTopic(r) => InTopic(r)'
    BY <1>1, InTopicStable DEF RowsInv
  <1>3. ASSUME published' = published,
               \A y \in Publishers : sent'[y] =>
                   \/ sent[y] /\ queue'[y] = queue[y]
                   \/ InTopic(InHand(y))'
        PROVE  MarkInv'
    <2>1. \A n \in published' : \E r \in rows' : r.pos = n
      BY <1>1, <1>3 DEF MarkInv
    <2>2. ASSUME NEW y \in Publishers, sent'[y] PROVE InTopic(InHand(y))'
      <3>1. CASE sent[y] /\ queue'[y] = queue[y]
        <4>1. InHand(y)' = InHand(y) /\ InTopic(InHand(y))
          BY <3>1 DEF InHand, MarkInv
        <4>2. InHand(y) \in rows
          BY <3>1, InHandInside DEF QueueInv
        <4>3. PICK r \in rows : r = InHand(y)
          BY <4>2
        <4>4. InTopic(r)'
          BY <1>2, <4>1, <4>3
        <4> QED
          BY <4>1, <4>3, <4>4 DEF InTopic, Payload
      <3> QED
        BY <1>3, <2>2, <3>1
    <2>3. ASSUME NEW r \in rows', r \notin Pending' PROVE InTopic(r)'
      <3>1. r.pos \in published
        BY <1>3, <2>3 DEF Pending
      <3>2. PICK s \in rows : s.pos = r.pos
        BY <3>1 DEF MarkInv
      <3>3. r = s
        BY <1>1, <3>2 DEF RowsInv
      <3>4. InTopic(r)
        BY <3>1, <3>2, <3>3 DEF MarkInv, PublishedReachedKafka, Pending
      <3> QED
        BY <1>2, <3>2, <3>3, <3>4
    <2> QED
      BY <2>1, <2>2, <2>3 DEF MarkInv, PublishedReachedKafka
  <1>4. CASE UNCHANGED <<outboxVars, pubVars>>
    BY <1>3, <1>4 DEF outboxVars, pubVars
  <1>5. ASSUME NEW x \in Publishers, Client(x) PROVE MarkInv'
    BY <1>3, <1>5, ClientKeeps DEF QueueInv
  <1>6. ASSUME NEW x \in Publishers, Dispatch(x) PROVE MarkInv'
    BY <1>3, <1>6 DEF Dispatch, outboxVars, QueueInv
  <1>7. ASSUME NEW x \in Publishers, Send(x) PROVE MarkInv'
    <2>1. /\ queue[x] # {} /\ topic' = Appended(InHand(x))
          /\ sent' = [sent EXCEPT ![x] = TRUE] /\ published' = published /\ queue' = queue
      BY <1>7 DEF Send, outboxVars
    <2>2. PICK r \in Mutations : r = InHand(x)
      BY <2>1, InHandInside DEF RowsInv
    <2>3. InTopic(r)' /\ InHand(x)' = r
      BY <2>1, <2>2, AppendedInTopic DEF InHand
    <2>4. InTopic(InHand(x))'
      BY <2>3 DEF InTopic, Payload
    <2> QED
      BY <1>3, <2>1, <2>4 DEF QueueInv
  <1>8. ASSUME NEW x \in Publishers, SendRaises(x) \/ Abandon(x) PROVE MarkInv'
    <2>1. /\ published' = published /\ queue' = [queue EXCEPT ![x] = {}]
          /\ sent' = [sent EXCEPT ![x] = FALSE] \/ (sent' = sent /\ ~sent[x])
      BY <1>8 DEF SendRaises, Abandon, outboxVars
    <2> QED
      BY <1>3, <2>1 DEF QueueInv
  <1>9. ASSUME NEW x \in Publishers, Mark(x) PROVE MarkInv'
    <2>1. /\ sent[x] /\ rows' = rows /\ topic' = topic
          /\ published' = published \cup {InHand(x).pos}
          /\ queue' = [queue EXCEPT ![x] = @ \ {InHand(x)}]
          /\ sent' = [sent EXCEPT ![x] = FALSE]
      BY <1>9 DEF Mark
    <2>2. PICK h \in rows : h = InHand(x)
      BY <2>1, InHandInside DEF QueueInv
    <2>3. InTopic(h)
      BY <2>1, <2>2 DEF MarkInv
    <2>4. \A n \in published' : \E r \in rows' : r.pos = n
      BY <2>1, <2>2 DEF MarkInv
    <2>5. ASSUME NEW y \in Publishers, sent'[y] PROVE InTopic(InHand(y))'
      <3>1. y # x /\ sent[y] /\ queue'[y] = queue[y]
        BY <2>1, <2>5 DEF QueueInv
      <3>2. InHand(y)' = InHand(y) /\ InTopic(InHand(y))
        BY <3>1 DEF InHand, MarkInv
      <3> QED
        BY <2>1, <3>2 DEF InTopic, Payload
    <2>6. ASSUME NEW r \in rows', r \notin Pending' PROVE InTopic(r)'
      <3>1. CASE r.pos = h.pos
        <4>1. r = h
          BY <2>1, <3>1 DEF RowsInv
        <4> QED
          BY <1>2, <2>3, <4>1
      <3>2. CASE r.pos # h.pos
        <4>1. r \in rows /\ r.pos \in published
          BY <2>1, <2>2, <2>6, <3>2 DEF Pending
        <4> QED
          BY <1>2, <4>1 DEF MarkInv, PublishedReachedKafka, Pending
      <3> QED
        BY <3>1, <3>2
    <2> QED
      BY <2>4, <2>5, <2>6 DEF MarkInv, PublishedReachedKafka
  <1> QED
    BY <1>4, <1>5, <1>6, <1>7, <1>8, <1>9 DEF PipeNext, Publish, pipeVars

\* What every step of the pipeline keeps.
PipeInv == FenceInv /\ RowsInv /\ QueueInv

(* PipeInvStep: the log and the fences together.                           *)
LEMMA PipeInvStep == PipeInv /\ [PipeNext]_pipeVars => PipeInv'
  BY FenceStep, LogStep, WorkerStep DEF PipeInv

(* PublishedCorrect: when a send that fails is an error of the caller, a   *)
(* row is marked only once Kafka has its event, however many requests and  *)
(* dispatchers publish it, fail or die at any step.                        *)
THEOREM PublishedCorrect ==
    ASSUME ~SendMayDrop PROVE PipeSpec => []PublishedReachedKafka
  <1>1. PipeInit => PipeInv /\ MarkInv
    <2> SUFFICES ASSUME PipeInit PROVE PipeInv /\ MarkInv
      OBVIOUS
    <2>1. PipeInv
      BY PipeStarts, FenceInit DEF PipeInv
    <2>2. MarkInv
      BY DEF PipeInit, MarkInv, PublishedReachedKafka
    <2> QED
      BY <2>1, <2>2
  <1>2. PipeInv /\ MarkInv /\ [PipeNext]_pipeVars => PipeInv' /\ MarkInv'
    BY PipeInvStep, MarkStep DEF PipeInv, FenceInv
  <1>3. MarkInv => PublishedReachedKafka
    BY DEF MarkInv
  <1> QED
    BY <1>1, <1>2, <1>3, PTL DEF PipeSpec

-----------------------------------------------------------------------------
(* Everything stored is a mutation of the log *)

(* LoggedTyped: the row behind an event.                                   *)
LEMMA LoggedTyped ==
    ASSUME RowsInv, NEW e, Logged(e)
    PROVE  \E r \in rows : /\ e = Payload(r) /\ e \in Events /\ e # Malformed
                           /\ e.id = r.pos /\ e.ident = r.ident
                           /\ e.seq = r.seq /\ e.version = r.seq
                           /\ r.pos \in Nat /\ r.seq \in Nat /\ r.ident \in Idents
                           /\ r.seq <= head[r.ident]
  <1>1. PICK r \in rows : e = Payload(r)
    BY DEF Logged
  <1>2. r \in Mutations /\ r.seq <= head[r.ident]
    BY DEF RowsInv
  <1> QED
    BY <1>1, <1>2, RowTyped, PayloadFields, MarkersAssumption

(* LoggedOrdered: two mutations of a document are the same or in order.    *)
LEMMA LoggedOrdered ==
    ASSUME RowsInv, NEW e, Logged(e), NEW c, Logged(c), e.ident = c.ident
    PROVE  e = c \/ (e.id # c.id /\ (Newer(e, c) \/ Older(e, c)))
  <1>1. PICK r \in rows : /\ e = Payload(r) /\ e.id = r.pos /\ e.ident = r.ident
                          /\ e.seq = r.seq /\ e.version = r.seq /\ r.seq \in Nat
    BY LoggedTyped
  <1>2. PICK s \in rows : /\ c = Payload(s) /\ c.id = s.pos /\ c.ident = s.ident
                          /\ c.seq = s.seq /\ c.version = s.seq /\ s.seq \in Nat
    BY LoggedTyped
  <1>3. CASE r = s
    BY <1>1, <1>2, <1>3
  <1>4. CASE r # s
    <2>1. r.pos # s.pos /\ r.seq # s.seq
      BY <1>1, <1>2, <1>4 DEF RowsInv
    <2> QED
      BY <1>1, <1>2, <2>1 DEF Newer, Older
  <1> QED
    BY <1>3, <1>4

(* RecLogged: what a worker handles is a mutation of the log.              *)
LEMMA RecLogged ==
    ASSUME TypeInv, LoggedInv, NEW w \in Workers, pc[w] # "idle"
    PROVE  Logged(Rec(w))
  <1>1. /\ cur[w].part \in Partitions /\ cur[w].off \in Nat /\ cur[w].last \in Nat
        /\ 1 <= cur[w].off /\ cur[w].off <= cur[w].last
        /\ cur[w].last <= Len(topic[cur[w].part])
    BY DEF TypeInv, BatchInv, Batches
  <1>2. Len(topic[cur[w].part]) \in Nat
    BY <1>1 DEF TypeInv, TypeOK, KafkaTypeOK
  <1>3. cur[w].off \in 1 .. Len(topic[cur[w].part])
    BY <1>1, <1>2
  <1> QED
    BY <1>1, <1>3 DEF LoggedInv, Rec

(* ContentChange: a document changes when a scope writes it, or by a late  *)
(* write.                                                                  *)
LEMMA ContentChange ==
    ASSUME [Next]_vars
    PROVE  /\ \/ content' = content
              \/ \E w \in Workers, t \in Clusters :
                    pc[w] = "apply" /\ content' = [content EXCEPT ![t][Ident(w)] = Rec(w)]
              \/ \E x \in late : content' = [content EXCEPT ![x[1]][x[2].ident] = x[2]]
           /\ \A x \in late' : \/ x \in late
                               \/ \E w \in Workers : pc[w] = "apply" /\ x[2] = Rec(w)
  <1> DEFINE
        Goal ==
           /\ \/ content' = content
              \/ \E w \in Workers, t \in Clusters :
                    pc[w] = "apply" /\ content' = [content EXCEPT ![t][Ident(w)] = Rec(w)]
              \/ \E x \in late : content' = [content EXCEPT ![x[1]][x[2].ident] = x[2]]
           /\ \A x \in late' : \/ x \in late
                               \/ \E w \in Workers : pc[w] = "apply" /\ x[2] = Rec(w)
  <1>1. ASSUME NEW w \in Workers, NEW t \in Clusters, WriteTarget(w, t)
        PROVE  Goal
    BY <1>1 DEF WriteTarget
  <1>2. ASSUME NEW w \in Workers, NEW t \in Clusters, WriteFails(w, t)
        PROVE  Goal
    <2>1. pc[w] = "apply" /\ (late' = late \/ late' = late \cup {<<t, Rec(w)>>})
      BY <1>2 DEF WriteFails
    <2>2. content' = content \/ content' = [content EXCEPT ![t][Ident(w)] = Rec(w)]
      BY <1>2 DEF WriteFails
    <2>3. \A x \in late' : x \in late \/ x[2] = Rec(w)
      BY <2>1
    <2> QED
      BY <2>1, <2>2, <2>3
  <1>3. ASSUME NEW w \in Workers, Crash(w)
        PROVE  Goal
    <2>1. /\ content' = content
          /\ \/ late' = late
             \/ pc[w] = "apply" /\ \E t \in todo[w] : late' = late \cup {<<t, Rec(w)>>}
      BY <1>3 DEF Crash
    <2> QED
      BY <2>1
  <1>4. CASE LateWrite
    BY <1>4 DEF LateWrite
  <1>5. CASE UNCHANGED <<content, late>>
    BY <1>5
  <1>6. ASSUME NEW w \in Workers,
               \/ OpenScope(w) \/ MissingTarget(w) \/ Reject(w) \/ CommitScope(w)
               \/ Quarantine(w) \/ CommitOffset(w) \/ CommitOffsetFails(w)
               \/ ScopeUnavailable(w) \/ CommitScopeFails(w) \/ QuarantineFails(w)
               \/ (\E p \in Partitions : Poll(w, p))
               \/ (\E p \in Partitions : Rebalance(p, w))
        PROVE  UNCHANGED <<content, late>>
    BY <1>6
    DEF storeVars, OpenScope, MissingTarget, Reject, CommitScope, Quarantine,
        CommitOffset, CommitOffsetFails, ScopeUnavailable, CommitScopeFails,
        QuarantineFails, Poll, Rebalance, RestartPosition
  <1>7. ASSUME NEW p \in Partitions, NEW r \in Records, Deliver(p, r)
        PROVE  UNCHANGED <<content, late>>
    BY <1>7 DEF Deliver, storeVars
  <1>8. ASSUME NEW w \in Workers, Progress(w) \/ Failure(w)
        PROVE  Goal
    BY <1>1, <1>2, <1>3, <1>5, <1>6, <1>8 DEF Progress, Failure
  <1>9. Goal
    BY <1>4, <1>5, <1>7, <1>8 DEF Next, WorkerNext, vars, storeVars
  <1> QED
    BY <1>9 DEF Goal

(* TopicChange: only publishers append to the topics, and only rows.       *)
LEMMA TopicChange ==
    ASSUME RowsInv, QueueInv, [PipeNext]_pipeVars
    PROVE  topic' = topic \/ \E r \in rows : topic' = Appended(r)
  <1>1. ASSUME NEW x \in Publishers, PublisherNext(x)
        PROVE  topic' = topic \/ \E r \in rows : topic' = Appended(r)
    BY <1>1, ClientKeeps, PublishKeeps, InHandInside DEF PublisherNext, vars
  <1>2. CASE WorkerNext
    BY <1>2
    DEF WorkerNext, Progress, Failure, Poll, OpenScope, MissingTarget, Reject,
        WriteTarget, WriteFails, CommitScope, CommitScopeFails, Quarantine,
        QuarantineFails, CommitOffset, CommitOffsetFails, ScopeUnavailable, Crash,
        Rebalance, RestartPosition, LateWrite
  <1> QED
    BY <1>1, <1>2 DEF PipeNext, PublisherNext, pipeVars, vars

\* The same of the rows after the step.
LoggedNext(e) == \E r \in rows' : e = Payload(r)

(* LoggedStep: what is sent, checkpointed and written comes from the log.  *)
LEMMA LoggedStep ==
    ASSUME PipeInv, LoggedInv, [PipeNext]_pipeVars
    PROVE  LoggedInv'
  <1>1. /\ TypeInv /\ TypeInv' /\ [Next]_vars /\ rows \subseteq rows'
        /\ RowsInv /\ QueueInv
    BY WorkerStep, LogStep, TypeStep DEF PipeInv, FenceInv
  <1>2. ASSUME NEW e, Logged(e) PROVE LoggedNext(e)
    <2>1. PICK r \in rows : e = Payload(r)
      BY <1>2 DEF Logged
    <2>2. r \in rows' /\ e = Payload(r)
      BY <1>1, <2>1 DEF Payload
    <2> QED
      BY <2>2 DEF LoggedNext
  <1>3. ASSUME NEW p \in Partitions, NEW o \in 1 .. Len(topic'[p])
        PROVE  LoggedNext(topic'[p][o])
    <2>1. topic \in [Partitions -> Seq(Records)]
      BY <1>1 DEF TypeInv, TypeOK, KafkaTypeOK
    <2>2. CASE topic' = topic
      <3>1. PICK e : e = topic[p][o]
        OBVIOUS
      <3>2. Logged(e) /\ topic'[p][o] = e
        BY <2>2, <3>1 DEF LoggedInv
      <3> QED
        BY <1>2, <3>2
    <2>3. ASSUME NEW r \in rows, topic' = Appended(r)
          PROVE  LoggedNext(topic'[p][o])
      <3>1. PICK q \in Partitions, e \in Records : q = PartitionOf[r.ident] /\ e = Payload(r)
        BY <1>1, RowTyped DEF Records, RowsInv
      <3>2. topic' = [topic EXCEPT ![q] = Append(@, e)]
        BY <2>3, <3>1 DEF Appended
      <3>3. topic'[p][o] = e \/ (o \in 1 .. Len(topic[p]) /\ topic'[p][o] = topic[p][o])
        BY <2>1, <3>2
      <3>4. PICK d : d = topic'[p][o]
        OBVIOUS
      <3>5. Logged(d)
        BY <3>1, <3>3, <3>4 DEF Logged, LoggedInv
      <3> QED
        BY <1>2, <3>4, <3>5
    <2> QED
      BY <1>1, <2>2, <2>3, TopicChange
  <1>4. ASSUME NEW t \in Clusters, NEW i \in Idents, checkpoint'[t][i] # NoEvent
        PROVE  LoggedNext(checkpoint'[t][i]) /\ checkpoint'[t][i].ident = i
    <2>1. PICK c : c = checkpoint'[t][i]
      OBVIOUS
    <2>2. CASE checkpoint'[t][i] = checkpoint[t][i]
      BY <1>2, <1>4, <2>1, <2>2 DEF LoggedInv
    <2>3. CASE checkpoint'[t][i] # checkpoint[t][i]
      <3>1. PICK w \in Workers : pc[w] = "apply" /\ checkpoint' = Saved(Rec(w), staged[w])
        BY <1>1, <2>3, CheckpointChange
      <3>2. Rec(w) \in Events /\ Logged(Rec(w))
        BY <1>1, <3>1, ScopeTyped, RecLogged
      <3>3. c = Rec(w) /\ i = Rec(w).ident
        BY <1>1, <2>1, <2>3, <3>1, <3>2, SavedAt
      <3> QED
        BY <1>2, <2>1, <3>2, <3>3
    <2> QED
      BY <2>2, <2>3
  <1>5. ASSUME NEW x \in late' PROVE LoggedNext(x[2])
    <2>1. PICK e : e = x[2]
      OBVIOUS
    <2>2. x \in late \/ \E w \in Workers : pc[w] = "apply" /\ e = Rec(w)
      BY <1>1, <2>1, ContentChange
    <2>3. Logged(e)
      BY <1>1, <2>1, <2>2, RecLogged DEF LoggedInv
    <2> QED
      BY <1>2, <2>1, <2>3
  <1>6. ASSUME NEW t \in Clusters, NEW i \in Idents, content'[t][i] # NoEvent
        PROVE  LoggedNext(content'[t][i]) /\ content'[t][i].ident = i
    <2>1. PICK c : c = content'[t][i]
      OBVIOUS
    <2>2. content \in [Clusters -> [Idents -> Events \cup {NoEvent}]]
      BY <1>1 DEF TypeInv, TypeOK, StoreTypeOK
    <2>3. CASE c = content[t][i]
      BY <1>2, <1>6, <2>1, <2>3 DEF LoggedInv
    <2>4. ASSUME NEW w \in Workers, NEW u \in Clusters, pc[w] = "apply",
                 content' = [content EXCEPT ![u][Ident(w)] = Rec(w)]
          PROVE  LoggedNext(c) /\ c.ident = i
      <3>1. Logged(Rec(w)) /\ Ident(w) = Rec(w).ident /\ Ident(w) \in Idents
        BY <1>1, <2>4, ScopeTyped, RecLogged DEF Ident
      <3>2. c = content[t][i] \/ (c = Rec(w) /\ i = Ident(w))
        BY <2>1, <2>2, <2>4, <3>1
      <3> QED
        BY <1>2, <2>1, <2>3, <3>1, <3>2
    <2>5. ASSUME NEW x \in late, content' = [content EXCEPT ![x[1]][x[2].ident] = x[2]]
          PROVE  LoggedNext(c) /\ c.ident = i
      <3>1. Logged(x[2]) /\ x[2] \in Events /\ x[1] \in Clusters
        BY <1>1 DEF LoggedInv, TypeInv, TypeOK, StoreTypeOK
      <3>2. x[2].ident \in Idents
        BY <3>1, EventsAssumption
      <3>3. c = content[t][i] \/ (c = x[2] /\ i = x[2].ident)
        BY <2>1, <2>2, <2>5, <3>1, <3>2
      <3> QED
        BY <1>2, <2>1, <2>3, <3>1, <3>3
    <2> QED
      BY <1>1, <2>1, <2>3, <2>4, <2>5, ContentChange
  <1> QED
    BY <1>3, <1>4, <1>5, <1>6 DEF LoggedInv, Logged, LoggedNext, Payload

-----------------------------------------------------------------------------
(* Nothing is refused, and replay converges *)

(* QuarantineMoves: a worker is about to quarantine a record because it    *)
(* was, because its attempts have failed, or because it refuses it.        *)
LEMMA QuarantineMoves ==
    ASSUME TypeInv, [Next]_vars, NEW v \in Workers, pc'[v] = "quarantine"
    PROVE  \/ pc[v] = "quarantine" /\ err'[v] = err[v]
           \/ err'[v] = "failed"
           \/ Reject(v)
  <1> DEFINE Goal == \/ pc[v] = "quarantine" /\ err'[v] = err[v]
                     \/ err'[v] = "failed"
                     \/ Reject(v)
  <1>a. WorkerTypeOK
    BY DEF TypeInv, TypeOK
  <1>1. ASSUME NEW w \in Workers, FailAttempt(w)
        PROVE  Goal
    BY <1>1, <1>a DEF FailAttempt, WorkerTypeOK
  <1>2. ASSUME NEW w \in Workers, NEW b, StartRecord(w, b)
        PROVE  Goal
    BY <1>2, <1>a DEF StartRecord, WorkerTypeOK
  <1>3. ASSUME UNCHANGED <<pc, err>> PROVE Goal
    BY <1>3
  <1>4. ASSUME NEW w \in Workers, err' = err,
               \E s \in {"apply", "ack"} : pc' = [pc EXCEPT ![w] = s]
        PROVE  Goal
    BY <1>4, <1>a DEF WorkerTypeOK
  <1>5. ASSUME NEW w \in Workers, Reject(w) PROVE Goal
    BY <1>5, <1>a DEF Reject, WorkerTypeOK
  <1>6. ASSUME NEW w \in Workers, OpenScope(w) \/ CommitScope(w) \/ Quarantine(w)
        PROVE  Goal
    BY <1>4, <1>6 DEF OpenScope, CommitScope, Quarantine
  <1>7. ASSUME NEW w \in Workers, NEW t \in Clusters, WriteTarget(w, t) PROVE Goal
    BY <1>1, <1>3, <1>7 DEF WriteTarget
  <1>8. ASSUME NEW w \in Workers,
               \/ MissingTarget(w) \/ ScopeUnavailable(w) \/ CommitScopeFails(w)
               \/ \E t \in Clusters : WriteFails(w, t)
        PROVE  Goal
    BY <1>1, <1>8 DEF MissingTarget, ScopeUnavailable, CommitScopeFails, WriteFails
  <1>9. ASSUME NEW w \in Workers,
               \/ \E p \in Partitions : Poll(w, p)
               \/ CommitOffset(w) \/ CommitOffsetFails(w) \/ Crash(w)
               \/ QuarantineFails(w)
        PROVE  Goal
    BY <1>2, <1>9
    DEF Poll, CommitOffset, CommitOffsetFails, Crash, RestartPosition, QuarantineFails
  <1>10. ASSUME \/ LateWrite \/ (\E p \in Partitions, r \in Records : Deliver(p, r))
                \/ (\E w \in Workers, p \in Partitions : Rebalance(p, w))
                \/ UNCHANGED vars
         PROVE  Goal
    BY <1>3, <1>10 DEF LateWrite, Deliver, Rebalance, RestartPosition, vars, workerVars
  <1> QED
    BY <1>5, <1>6, <1>7, <1>8, <1>9, <1>10 DEF Next, WorkerNext, Progress, Failure

(* NeverRefused: no mutation of the log contradicts a checkpoint.          *)
LEMMA NeverRefused ==
    ASSUME TypeInv, RowsInv, LoggedInv, NEW w \in Workers
    PROVE  ~Reject(w)
  <1> SUFFICES ASSUME Reject(w) PROVE FALSE
    OBVIOUS
  <1>1. PICK e : e = Rec(w)
    OBVIOUS
  <1>2. Logged(e)
    BY <1>1, RecLogged DEF Reject
  <1>3. e # Malformed /\ e \in Events /\ e.ident \in Idents /\ e.targets \subseteq Clusters
    BY <1>2, LoggedTyped, EventsAssumption
  <1>4. PICK t \in e.targets : Decision(e, t) = "rejected"
    BY <1>1, <1>3 DEF Reject
  <1>5. PICK c : c = checkpoint[t][e.ident]
    OBVIOUS
  <1>6. Classify(e, c) = "rejected"
    BY <1>4, <1>5 DEF Decision
  <1>7. c # NoEvent
    BY <1>6 DEF Classify
  <1>8. Logged(c) /\ c.ident = e.ident
    BY <1>3, <1>5, <1>7 DEF LoggedInv
  <1>9. e = c \/ (e.id # c.id /\ (Newer(e, c) \/ Older(e, c)))
    BY <1>2, <1>8, LoggedOrdered
  <1>10. Classify(e, c) \in {"duplicate", "stale", "apply"}
    BY <1>7, <1>9 DEF Classify
  <1> QED
    BY <1>6, <1>10

(* FailedStep: records are quarantined for failures only.                  *)
LEMMA FailedStep ==
    ASSUME TypeInv, RowsInv, LoggedInv, FailedInv, [Next]_vars
    PROVE  FailedInv'
  <1>1. ASSUME NEW v \in Workers, pc'[v] = "quarantine"
        PROVE  err'[v] = "failed"
    BY <1>1, QuarantineMoves, NeverRefused DEF FailedInv
  <1>2. dlq' = dlq \/ \E w \in Workers : Quarantine(w)
    BY DEF Next, WorkerNext, Progress, Failure, vars, Poll, OpenScope,
           MissingTarget, Reject, CommitOffset, CommitOffsetFails, ScopeUnavailable,
           QuarantineFails, Crash, Rebalance, RestartPosition, LateWrite, Deliver,
           WriteTarget, WriteFails, CommitScope, CommitScopeFails
  <1>3. ASSUME NEW w \in Workers, Quarantine(w), NEW d \in dlq'
        PROVE  d.error = "failed"
    BY <1>3 DEF Quarantine, FailedInv, NothingRejected
  <1> QED
    BY <1>1, <1>2, <1>3 DEF FailedInv, NothingRejected

\* What every step keeps of the log, the fences and the stored events.
StoredInv == PipeInv /\ LoggedInv /\ FailedInv

(* StoredInit: nothing is stored, and nothing quarantined.                 *)
LEMMA StoredInit == PipeInit => StoredInv
  <1> SUFFICES ASSUME PipeInit PROVE StoredInv
    OBVIOUS
  <1>1. PipeInv
    BY PipeStarts, FenceInit DEF PipeInv
  <1>2. LoggedInv
    BY DEF PipeInit, WorkerInit, LoggedInv
  <1>3. FailedInv
    BY DEF PipeInit, WorkerInit, FailedInv, NothingRejected
  <1> QED
    BY <1>1, <1>2, <1>3 DEF StoredInv

(* StoredStep: every step of the pipeline keeps it.                        *)
LEMMA StoredStep == StoredInv /\ [PipeNext]_pipeVars => StoredInv'
  BY PipeInvStep, LoggedStep, FailedStep, WorkerStep DEF StoredInv, PipeInv, FenceInv

(* RejectedCorrect: no mutation of the log is ever refused by a worker,    *)
(* in whatever order, how often and by whomever its events are published   *)
(* and consumed; this needs no assumption on losses or late writes.        *)
THEOREM RejectedCorrect == PipeSpec => []NothingRejected
  <1>1. StoredInv => NothingRejected
    BY DEF StoredInv, FailedInv
  <1> QED
    BY <1>1, StoredInit, StoredStep, PTL DEF PipeSpec

(* QuietConverged: what is published is settled, so that the checkpoint of *)
(* each target is that of the newest mutation, and the document with it.   *)
LEMMA QuietConverged ==
    ASSUME StoredInv, MarkInv, AckedSettled, FenceHolds
    PROVE  Converged
  <1> SUFFICES ASSUME Quiet, NEW i \in Idents, NEW r \in Log!Newest(i), NEW t \in r.targets
               PROVE  content[t][i] = Payload(r)
    BY DEF Converged
  <1>a. TypeInv /\ RowsInv /\ LoggedInv
    BY DEF StoredInv, PipeInv, FenceInv
  <1>1. r \in rows /\ r.ident = i /\ r.seq = head[i]
    BY DEF Log!Newest
  <1>2. /\ r \in Mutations /\ r.seq \in Nat /\ Payload(r) \in Events
        /\ PartitionOf[i] \in Partitions /\ t \in Clusters
    BY <1>a, <1>1, RowTyped DEF RowsInv
  <1>3. PICK p \in Partitions : p = PartitionOf[i]
    BY <1>2
  <1>4. PICK o \in 1 .. Len(topic[p]) : topic[p][o] = Payload(r)
    BY <1>1, <1>3 DEF Quiet, MarkInv, PublishedReachedKafka, InTopic
  <1>5. SettledAt(p, o)
    BY <1>4 DEF Quiet, AckedSettled
  <1>6. PICK e : e = Payload(r)
    OBVIOUS
  <1>7. /\ e.ident = i /\ e.seq = head[i] /\ e.targets = r.targets
        /\ head[i] \in Nat
    BY <1>1, <1>2, <1>6, PayloadFields
  <1>8. \/ \A u \in e.targets : Reached(e, u)
        \/ \E u \in e.targets : Passed(e, u)
    BY <1>4, <1>5, <1>6 DEF SettledAt, Quiet, Reached, Passed
  <1>9. e.targets \subseteq Clusters
    BY <1>2, <1>6, EventsAssumption
  <1>10. ASSUME NEW u \in Clusters, checkpoint[u][i] # NoEvent
         PROVE  checkpoint[u][i].seq \in Nat /\ checkpoint[u][i].seq <= head[i]
    <2>1. Logged(checkpoint[u][i]) /\ checkpoint[u][i].ident = i
      BY <1>a, <1>10 DEF LoggedInv
    <2> QED
      BY <1>a, <2>1, LoggedTyped
  <1>11. \A u \in e.targets : ~Passed(e, u)
    BY <1>7, <1>9, <1>10 DEF Passed
  <1>12. Reached(e, t)
    BY <1>7, <1>8, <1>11
  <1>13. /\ content[t][i] # NoEvent
         /\ content[t][i].seq >= checkpoint[t][i].seq
    BY <1>2, <1>7, <1>12 DEF Reached, FenceHolds
  <1>14. Logged(content[t][i]) /\ content[t][i].ident = i
    BY <1>a, <1>2, <1>13 DEF LoggedInv
  <1>15. PICK s \in rows : /\ content[t][i] = Payload(s)
                           /\ content[t][i].seq = s.seq /\ content[t][i].ident = s.ident
                           /\ s.seq \in Nat /\ s.seq <= head[s.ident]
    BY <1>a, <1>14, LoggedTyped
  <1>16. s.ident = i /\ s.seq = head[i]
    <2>1. checkpoint[t][i].seq \in Nat /\ checkpoint[t][i].seq >= head[i]
      BY <1>2, <1>7, <1>10, <1>12 DEF Reached
    <2> QED
      BY <1>7, <1>13, <1>14, <1>15, <2>1
  <1>17. s = r
    BY <1>a, <1>1, <1>16 DEF RowsInv
  <1> QED
    BY <1>15, <1>17

(* ConvergedCorrect: with sends that report their failure, no write run    *)
(* after its caller gave up on it, a dead-letter topic that can be written *)
(* and one record per poll, a quiet pipeline shows the newest mutation of  *)
(* every document on each of its targets.                                  *)
THEOREM ConvergedCorrect ==
    ASSUME ~SendMayDrop, ~LateWrites, ~DlqMayFail, MaxPollRecords = 1
    PROVE  PipeSpec => []Converged
  <1>1. PipeInit => StoredInv /\ MarkInv /\ AckInv
    <2> SUFFICES ASSUME PipeInit PROVE StoredInv /\ MarkInv /\ AckInv
      OBVIOUS
    <2>1. MarkInv
      BY DEF PipeInit, MarkInv, PublishedReachedKafka
    <2> QED
      BY <2>1, StoredInit, AckInit, PipeStarts
  <1>2. StoredInv /\ MarkInv /\ AckInv /\ [PipeNext]_pipeVars
           => StoredInv' /\ MarkInv' /\ AckInv'
    BY StoredStep, MarkStep, AckStep, WorkerStep DEF StoredInv, PipeInv, FenceInv
  <1>3. StoredInv /\ MarkInv /\ AckInv => Converged
    BY QuietConverged DEF AckInv, FenceInv, StagedShown
  <1> QED
    BY <1>1, <1>2, <1>3, PTL DEF PipeSpec
=============================================================================
